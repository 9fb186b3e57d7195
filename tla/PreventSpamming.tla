-------------------------- MODULE PreventSpamming --------------------------
(***************************************************************************)
(* prevent_spamming.go: for every case of alert and every identity, the    *)
(* time since that alert was last stamped.  The registry is one map for    *)
(* the whole process: the case and the identity are its only keys.         *)
(***************************************************************************)
EXTENDS Integers

CONSTANTS M10, M15, M30, H1, H2, H12    \* durations: minutes, hours

ASSUME DurationsAssumption ==
    /\ M10 \in Nat \ {0} /\ M15 \in Nat /\ M30 \in Nat
    /\ H1 \in Nat /\ H2 \in Nat /\ H12 \in Nat
    /\ M10 <= M15 /\ M15 <= M30 /\ M30 <= H1 /\ H1 <= H2 /\ H2 <= H12

\* An age at which every window is over; never stamped counts as this age.
LongAgo == H12
Ages == 0..LongAgo
OlderBy1(age) == IF age < LongAgo THEN age + 1 ELSE age

\* An alert: its case, the time during which an identity that was sent that
\* case is not sent it again (0: no limit), and whether it is FATAL.
Alert(case, window, fatal) == [case |-> case, window |-> window, fatal |-> fatal]

\* Mutant: sent again one unit too early.
SendToEarly(throttle, alert, identities) ==
    {i \in identities : throttle[<<alert.case, i>>] + 1 >= alert.window}

\* ShouldSendMessageWL: the identities to send to ...
SendTo(throttle, alert, identities) ==
    {i \in identities : throttle[<<alert.case, i>>] >= alert.window}

\* Mutants: nothing is stamped; an identity that is not sent to is stamped too.
StampedNever(throttle, alerts, identities) == throttle
StampedAll(throttle, alerts, identities) ==
    [k \in DOMAIN throttle |->
        IF k[2] \in identities /\ \E a \in alerts : a.case = k[1] THEN 0 ELSE throttle[k]]

\* ... and what it leaves behind, for all the alerts of one check.
Stamped(throttle, alerts, identities) ==
    [k \in DOMAIN throttle |->
        IF \E a \in alerts : a.case = k[1] /\ k[2] \in SendTo(throttle, a, identities)
        THEN 0 ELSE throttle[k]]
=============================================================================
