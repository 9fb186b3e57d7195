------------------------------ MODULE Silencer ------------------------------
(***************************************************************************)
(* The patterns that silence messages to a chat for a while: set and       *)
(* removed by commands, matched by the pusher, which afterwards, under a   *)
(* lock of its own, removes what had expired when it began.                *)
(***************************************************************************)
EXTENDS Naturals, FiniteSets

CONSTANTS
    Chats, Patterns,
    Limit,       \* maximumPatternsAllowedPerChatID
    Longest,     \* the longest duration
    MaxTime      \* bound on the clock

ASSUME SilencerAssumption == Limit \in Nat /\ Longest \in Nat /\ MaxTime \in Nat \ {0}

Absent == 0    \* no such pattern; the clock begins at 1

VARIABLES
    now,
    expiry,      \* chat -> pattern -> when it expires
    match        \* the call of shouldSilentByChatIdRWL under way

silencer == <<now, expiry, match>>

Unmatched == [chat |-> "none", since |-> 0]
InitSilencer ==
    /\ now = 1
    /\ expiry = [c \in Chats |-> [p \in Patterns |-> Absent]]
    /\ match = Unmatched

Present(c)        == {p \in Patterns : expiry[c][p] # Absent}
Effective(c, p)   == expiry[c][p] >= now
Without(c, gone)  == [p \in Patterns |-> IF p \in gone THEN Absent ELSE expiry[c][p]]
Before(c, time)   == {p \in Present(c) : expiry[c][p] < time}

\* SetSilencePatternWL: expired patterns go even when the new one is refused.
SetSilencePattern(c, p, duration) ==
    LET live == Without(c, Before(c, now)) IN
    expiry' = [expiry EXCEPT ![c] =
                 IF Cardinality(Present(c) \ Before(c, now)) > Limit THEN live
                 ELSE [live EXCEPT ![p] = now + duration]]

\* RemoveSilencePatternWL
RemoveSilencePattern(c, p) == expiry' = [expiry EXCEPT ![c][p] = Absent]

\* The clock is read before the lock is had, so any time ago.  What had expired
\* is noticed unless an effective pattern matches first.
BeginMatch(c) ==
    /\ match = Unmatched
    /\ \E since \in 1..now : Before(c, since) # {} /\ match' = [chat |-> c, since |-> since]
    /\ UNCHANGED <<now, expiry>>

\* Mutant: as all had expired, all go.
CleanUpAll ==
    /\ match # Unmatched
    /\ expiry' = [expiry EXCEPT ![match.chat] = Without(match.chat, Present(match.chat))]
    /\ match' = Unmatched
    /\ UNCHANGED now

CleanUp ==
    /\ match # Unmatched
    /\ expiry' = [expiry EXCEPT ![match.chat] = Without(match.chat, Before(match.chat, match.since))]
    /\ match' = Unmatched
    /\ UNCHANGED now

Match == (\E c \in Chats : BeginMatch(c)) \/ CleanUp

Pass == now < MaxTime /\ now' = now + 1 /\ UNCHANGED <<expiry, match>>

SilencerTypeOK ==
    /\ now \in 1..MaxTime
    /\ expiry \in [Chats -> [Patterns -> 0..(MaxTime + Longest)]]
    /\ match \in [chat : Chats, since : 1..MaxTime] \cup {Unmatched}
=============================================================================
