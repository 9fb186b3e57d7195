--------------------------- MODULE GovCheckProofs --------------------------
(***************************************************************************)
(* Proofs about GovCheck, for any number of overlapping rounds, validators *)
(* and proposals: types, the vote cache, and what reminders are sent.      *)
(***************************************************************************)
EXTENDS GovCheck, WellFoundedInduction, TLAPS

USE GovAssumption, DurationsAssumption

-----------------------------------------------------------------------------
(* The greatest of a set of proposals. *)

\* A set of numbers up to N has a greatest one: N less the smallest distance.
LEMMA MaxIsGreatest ==
    ASSUME NEW N \in Nat, NEW S \in SUBSET (0..N), S # {}
    PROVE  Max(S) \in S /\ \A x \in S : Max(S) >= x
<1> DEFINE R == OpToRel(<, Nat)
           T == {N - x : x \in S}
<1>1. IsWellFoundedOn(R, Nat)
  BY NatLessThanWellFounded
<1>2. T \subseteq Nat /\ T # {}
  <2>1. \A x \in S : x \in 0..N /\ N - x \in Nat
    OBVIOUS
  <2>2. PICK x \in S : TRUE
    OBVIOUS
  <2> QED BY <2>1, <2>2
<1>3. \E t \in T : \A u \in T : ~ (<<u, t>> \in R)
  <2> HIDE DEF R, T
  <2> QED BY <1>1, <1>2, WFMin
<1>4. PICK t \in T : \A u \in T : ~ (u < t)
  BY <1>2, <1>3 DEF OpToRel
<1>5. PICK s \in S : t = N - s
  OBVIOUS
<1>6. \A x \in S : s >= x
  <2> SUFFICES ASSUME NEW x \in S PROVE s >= x
    OBVIOUS
  <2>1. N - x \in T /\ x \in 0..N /\ s \in 0..N
    OBVIOUS
  <2>2. ~ (N - x < N - s)
    BY <1>4, <1>5, <2>1
  <2> QED BY <2>1, <2>2
<1> QED BY <1>6 DEF Max

LEMMA LatestIsGreatest ==
    ASSUME NEW S \in SUBSET (0..MaxProposal)
    PROVE  /\ Latest(S) \in S \cup {0} /\ Latest(S) \in 0..MaxProposal
           /\ \A x \in S : x <= Latest(S)
<1>1. S \cup {0} \in SUBSET (0..MaxProposal) /\ S \cup {0} # {}
  OBVIOUS
<1>2. Max(S \cup {0}) \in S \cup {0} /\ \A x \in S \cup {0} : Max(S \cup {0}) >= x
  BY <1>1, MaxIsGreatest
<1> QED BY <1>1, <1>2 DEF Latest

\* What a query of the votes of v finds.
LEMMA LatestVoteFound ==
    ASSUME NEW v \in Validators, votes \in [Validators -> SUBSET Proposals]
    PROVE  /\ LatestVote(v) \in 0..MaxProposal
           /\ LatestVote(v) # 0 => LatestVote(v) \in votes[v] \cap open
           /\ \A p \in votes[v] \cap open : p <= LatestVote(v)
<1>1. votes[v] \cap open \in SUBSET (0..MaxProposal)
  BY DEF Proposals
<1> QED BY <1>1, LatestIsGreatest DEF LatestVote

-----------------------------------------------------------------------------
(* Types. *)

Round == [pc : {"idle", "fetch", "check", "query", "react"},
          proposal : 0..MaxProposal, todo : SUBSET Validators,
          about : Validators \cup {TheChain}, vote : 0..MaxProposal]

Sendable == Identities \X (Validators \cup {TheChain}) \X (0..MaxProposal)

LEMMA AgeFacts == 0 \in Ages /\ LongAgo \in Ages /\ \A age \in Ages : OlderBy1(age) \in Ages
BY DEF Ages, LongAgo, OlderBy1

LEMMA TypeInit == Init => TypeOK
BY AgeFacts DEF Init, TypeOK, Resting, Proposals

\* A round is done with a validator.
LEMMA DoneRound ==
    ASSUME gc \in [Workers -> Round], NEW w \in Workers, NEW v, Done(w, v)
    PROVE  /\ gc' \in [Workers -> Round]
           /\ \A u \in Workers : u # w => gc'[u] = gc[u]
           /\ gc'[w].pc \in {"idle", "check"}
           /\ gc'[w].pc = "check" => gc'[w].proposal = gc[w].proposal
           /\ \A u \in gc[w].todo : u # v => gc'[w].pc = "check" /\ u \in gc'[w].todo
<1>1. gc[w] \in Round /\ Resting \in Round
  BY DEF Round, Resting
<1>2. CASE gc[w].todo = {v}
  <2>1. gc' = [gc EXCEPT ![w] = Resting]
    BY <1>2 DEF Done
  <2>2. gc'[w] = Resting /\ \A u \in Workers : u # w => gc'[u] = gc[u]
    BY <2>1
  <2>3. gc' \in [Workers -> Round]
    BY <1>1, <2>1
  <2> QED BY <1>2, <2>2, <2>3 DEF Resting
<1>3. CASE gc[w].todo # {v}
  <2> DEFINE left == gc[w].todo \ {v}
             rest == [gc[w] EXCEPT !.pc = "check", !.todo = left, !.about = TheChain, !.vote = 0]
  <2>1. gc' = [gc EXCEPT ![w] = rest]
    BY <1>3 DEF Done
  <2>2. /\ rest \in Round /\ rest.pc = "check" /\ rest.proposal = gc[w].proposal
        /\ rest.todo = gc[w].todo \ {v}
    <3>1. left \in SUBSET Validators
      BY <1>1 DEF Round
    <3>2. rest.pc = "check" /\ rest.proposal = gc[w].proposal /\ rest.todo = left
      BY <1>1 DEF Round
    <3> HIDE DEF left
    <3>3. TheChain \in Validators \cup {TheChain} /\ 0 \in 0..MaxProposal
      OBVIOUS
    <3>4. rest \in Round
      BY <1>1, <3>1, <3>3 DEF Round
    <3> QED BY <3>2, <3>4 DEF left
  <2> HIDE DEF rest
  <2> QED BY <1>1, <2>1, <2>2
<1> QED BY <1>2, <1>3

\* Reminders and error messages have their types.
LEMMA SentTypes ==
    ASSUME TypeOK
    PROVE  /\ SendNothing => (throttle' \in [{"notVoted"} \X Identities -> Ages]
                              /\ told' \in [Identities -> Ages] /\ sent' \in SUBSET Sendable)
           /\ \A about \in Validators \cup {TheChain}, who \in SUBSET Identities :
                 SendError(about, who) => (throttle' \in [{"notVoted"} \X Identities -> Ages]
                              /\ told' \in [Identities -> Ages] /\ sent' \in SUBSET Sendable)
           /\ \A v \in Validators, p \in 0..MaxProposal :
                 Remind(v, p) => (throttle' \in [{"notVoted"} \X Identities -> Ages]
                              /\ told' \in [Identities -> Ages] /\ sent' \in SUBSET Sendable)
<1>1. SendNothing => (throttle' \in [{"notVoted"} \X Identities -> Ages]
                      /\ told' \in [Identities -> Ages] /\ sent' \in SUBSET Sendable)
  BY DEF SendNothing, TypeOK
<1>2. ASSUME NEW about \in Validators \cup {TheChain}, NEW who \in SUBSET Identities, SendError(about, who)
      PROVE  throttle' \in [{"notVoted"} \X Identities -> Ages]
             /\ told' \in [Identities -> Ages] /\ sent' \in SUBSET Sendable
  BY <1>2 DEF SendError, TypeOK, Sendable
<1>3. ASSUME NEW v \in Validators, NEW p \in 0..MaxProposal, Remind(v, p)
      PROVE  throttle' \in [{"notVoted"} \X Identities -> Ages]
             /\ told' \in [Identities -> Ages] /\ sent' \in SUBSET Sendable
  <2>1. Watchers[v] \subseteq Identities
    OBVIOUS
  <2>2. throttle' \in [{"notVoted"} \X Identities -> Ages]
    <3>1. throttle' = Stamped(throttle, {Reminder}, Watchers[v])
      BY <1>3 DEF Remind
    <3> QED BY <3>1, AgeFacts DEF Stamped, TypeOK
  <2>3. told' \in [Identities -> Ages]
    BY <1>3, AgeFacts DEF Remind, TypeOK
  <2>4. sent' \in SUBSET Sendable
    <3>1. sent' = {<<i, v, p>> : i \in SendTo(throttle, Reminder, Watchers[v])}
      BY <1>3 DEF Remind
    <3>2. SendTo(throttle, Reminder, Watchers[v]) \subseteq Identities
      BY <2>1 DEF SendTo
    <3> QED BY <3>1, <3>2 DEF Sendable
  <2> QED BY <2>2, <2>3, <2>4
<1> QED BY <1>1, <1>2, <1>3

\* The node is asked about a validator the round is not done with.
AboutIsLeft == \A w \in Workers : gc[w].pc \in {"query", "react"} => gc[w].about \in gc[w].todo

\* What a round leaves in the cache.
LEMMA RememberedIs ==
    ASSUME TypeOK, AboutIsLeft, NEW w \in Workers, gc[w].pc = "react"
    PROVE  /\ gc[w].about \in Validators /\ Remembered(w) \in 0..MaxProposal
           /\ Remembered(w) \in {latestVoted[gc[w].about], gc[w].vote, 0}
<1>1. gc[w].about \in Validators /\ gc[w].vote \in 0..MaxProposal
  BY DEF AboutIsLeft, TypeOK
<1>2. {latestVoted[gc[w].about], gc[w].vote} \in SUBSET (0..MaxProposal)
  BY <1>1 DEF TypeOK
<1> QED BY <1>1, <1>2, LatestIsGreatest DEF Remembered

LEMMA TypeNext == TypeOK /\ AboutIsLeft /\ [Next]_vars => TypeOK'
<1> SUFFICES ASSUME TypeOK, AboutIsLeft, [Next]_vars PROVE TypeOK'
  OBVIOUS
<1> DEFINE Sends == /\ throttle' \in [{"notVoted"} \X Identities -> Ages]
                    /\ told' \in [Identities -> Ages] /\ sent' \in SUBSET Sendable
<1>0. /\ gc \in [Workers -> Round] /\ faults \in 0..MaxFaults
      /\ open \in SUBSET (0..MaxProposal) /\ votes \in [Validators -> SUBSET Proposals]
      /\ latestVoted \in [Validators -> 0..MaxProposal]
  BY DEF TypeOK, Round, Proposals
<1>1. \A S \in SUBSET (0..MaxProposal) : Latest(S) \in 0..MaxProposal
  BY LatestIsGreatest
<1>2. Fault => faults' \in 0..MaxFaults
  BY <1>0 DEF Fault
<1>3. CASE UNCHANGED vars
  BY <1>3 DEF vars, world, TypeOK
<1>4. ASSUME NEW w \in Workers, StartCheck(w) PROVE TypeOK'
  <2>1. gc' \in [Workers -> Round]
    BY <1>0, <1>4 DEF StartCheck, Round
  <2> QED BY <1>4, <2>1 DEF StartCheck, world, TypeOK, Round
<1>5. ASSUME NEW w \in Workers, FetchFails(w) PROVE TypeOK'
  <2>1. gc' \in [Workers -> Round]
    BY <1>0, <1>5 DEF FetchFails, Round, Resting
  <2>2. UNION {Watchers[v] : v \in Validators} \in SUBSET Identities
    OBVIOUS
  <2>3. Sends
    BY <1>5, <2>2, SentTypes DEF FetchFails
  <2> QED BY <1>2, <1>5, <2>1, <2>3 DEF FetchFails, world, TypeOK, Round, Sendable
<1>6. ASSUME NEW w \in Workers, FetchProposal(w) PROVE TypeOK'
  <2>1. gc' \in [Workers -> Round]
    <3>1. CASE open = {}
      BY <1>0, <1>6, <3>1 DEF FetchProposal, Round, Resting
    <3>2. CASE open # {}
      <4>1. Latest(open) \in 0..MaxProposal /\ gc[w] \in Round
        BY <1>0, <1>1
      <4> DEFINE begun == [gc[w] EXCEPT !.pc = "check", !.proposal = Latest(open), !.todo = Validators]
      <4>2. begun \in Round
        BY <4>1 DEF Round
      <4>3. gc' = [gc EXCEPT ![w] = begun]
        BY <1>0, <1>6, <3>2 DEF FetchProposal
      <4> HIDE DEF begun
      <4> QED BY <1>0, <4>2, <4>3
    <3> QED BY <3>1, <3>2
  <2>2. sinceCheck' \in Ages
    BY <1>6, AgeFacts DEF FetchProposal, TypeOK
  <2>3. Sends
    BY <1>6, SentTypes DEF FetchProposal
  <2> QED BY <1>6, <2>1, <2>2, <2>3 DEF FetchProposal, world, TypeOK, Round, Sendable
<1>7. ASSUME NEW w \in Workers, NEW v \in Validators, Skip(w, v) PROVE TypeOK'
  <2>1. gc' \in [Workers -> Round]
    BY <1>0, <1>7, DoneRound DEF Skip
  <2>2. Sends
    BY <1>7, SentTypes DEF Skip
  <2> QED BY <1>7, <2>1, <2>2 DEF Skip, world, TypeOK, Round, Sendable
<1>7a. ASSUME NEW w \in Workers, NEW v \in Validators, Ask(w, v) PROVE TypeOK'
  <2>1. gc' \in [Workers -> Round]
    <3> DEFINE asking == [gc[w] EXCEPT !.pc = "query", !.about = v]
    <3>1. gc' = [gc EXCEPT ![w] = asking]
      BY <1>0, <1>7a DEF Ask
    <3>2. asking \in Round
      <4>1. gc[w] \in Round /\ v \in Validators \cup {TheChain}
        BY <1>0
      <4> QED BY <4>1 DEF Round
    <3> HIDE DEF asking
    <3> QED BY <1>0, <3>1, <3>2
  <2>2. Sends
    BY <1>7a, SentTypes DEF Ask
  <2> QED BY <1>7a, <2>1, <2>2 DEF Ask, world, TypeOK, Round, Sendable
<1>7b. ASSUME NEW w \in Workers, gc[w].pc \in {"query", "react"} PROVE gc[w].about \in Validators
  BY <1>7b DEF AboutIsLeft, TypeOK
<1>7c. ASSUME NEW w \in Workers, QueryFails(w) PROVE TypeOK'
  <2>1. gc' \in [Workers -> Round]
    BY <1>0, <1>7c, DoneRound DEF QueryFails
  <2>2. gc[w].about \in Validators /\ Watchers[gc[w].about] \in SUBSET Identities
    BY <1>7b, <1>7c DEF QueryFails
  <2>3. Sends
    BY <1>7c, <2>2, SentTypes DEF QueryFails
  <2> QED BY <1>2, <1>7c, <2>1, <2>3 DEF QueryFails, world, TypeOK, Round, Sendable
<1>7d. ASSUME NEW w \in Workers, Answer(w) PROVE TypeOK'
  <2>1. gc[w].about \in Validators /\ LatestVote(gc[w].about) \in 0..MaxProposal
    BY <1>0, <1>7b, <1>7d, LatestVoteFound DEF Answer
  <2>2. gc' \in [Workers -> Round]
    <3> DEFINE found == LatestVote(gc[w].about)
           answered == [gc[w] EXCEPT !.pc = "react", !.vote = found]
    <3>1. gc' = [gc EXCEPT ![w] = answered]
      BY <1>0, <1>7d DEF Answer
    <3>2. found \in 0..MaxProposal
      BY <2>1
    <3> HIDE DEF found
    <3>3. answered \in Round
      <4>1. gc[w] \in Round
        BY <1>0
      <4> QED BY <3>2, <4>1 DEF Round
    <3> HIDE DEF answered
    <3> QED BY <1>0, <3>1, <3>3
  <2>3. Sends
    BY <1>7d, SentTypes DEF Answer
  <2>4. votedThen' \in [Workers -> SUBSET Proposals]
    BY <1>0, <1>7d, <2>1 DEF Answer, TypeOK
  <2> QED BY <1>7d, <2>2, <2>3, <2>4 DEF Answer, world, TypeOK, Round, Sendable
<1>7e. ASSUME NEW w \in Workers, React(w) PROVE TypeOK'
  <2>1. /\ gc[w].about \in Validators /\ Remembered(w) \in 0..MaxProposal
        /\ gc[w].proposal \in 0..MaxProposal
    BY <1>0, <1>7b, <1>7e, RememberedIs DEF React, Round
  <2>2. gc' \in [Workers -> Round]
    BY <1>0, <1>7e, DoneRound DEF React
  <2>3. Sends
    BY <1>7e, <2>1, SentTypes DEF React
  <2>4. /\ latestVoted' \in [Validators -> 0..MaxProposal]
        /\ votedThen' \in [Workers -> SUBSET Proposals]
    BY <1>0, <1>7e, <2>1 DEF React, TypeOK
  <2> QED BY <1>7e, <2>2, <2>3, <2>4 DEF React, world, TypeOK, Round, Sendable
<1>8. CASE World
  <2>1. /\ proposed' \in 0..MaxProposal /\ open' \in SUBSET Proposals
        /\ votes' \in [Validators -> SUBSET Proposals] /\ paused' \in SUBSET Validators
    <3>1. CASE Propose
      <4>1. proposed \in 0..MaxProposal /\ proposed < MaxProposal /\ proposed' = proposed + 1
        BY <3>1 DEF Propose, TypeOK
      <4>2. proposed' \in Proposals /\ proposed' \in 0..MaxProposal
        BY <4>1 DEF Proposals
      <4> QED BY <3>1, <4>2 DEF Propose, TypeOK
    <3>2. CASE EndVoting
      BY <3>2 DEF EndVoting, TypeOK
    <3>3. ASSUME NEW v \in Validators, Vote(v)
          PROVE  votes' \in [Validators -> SUBSET Proposals] /\ UNCHANGED <<paused, proposed, open>>
      <4>1. PICK p \in open : votes' = [votes EXCEPT ![v] = votes[v] \cup {p}]
        BY <3>3 DEF Vote
      <4> QED BY <3>3, <4>1 DEF Vote, TypeOK
    <3>4. ASSUME NEW v \in Validators, PauseValidator(v)
          PROVE  paused' \in SUBSET Validators /\ UNCHANGED <<votes, proposed, open>>
      BY <3>4 DEF PauseValidator, TypeOK
    <3> QED BY <1>8, <3>1, <3>2, <3>3, <3>4 DEF World, TypeOK
  <2> QED BY <1>8, <2>1 DEF World, TypeOK
<1>9. CASE Tick
  <2>1. /\ throttle' \in [{"notVoted"} \X Identities -> Ages] /\ told' \in [Identities -> Ages]
        /\ sinceCheck' \in Ages
    BY <1>9, AgeFacts DEF Tick, TypeOK
  <2> QED BY <1>9, <2>1 DEF Tick, world, TypeOK
<1> QED BY <1>3, <1>4, <1>5, <1>6, <1>7, <1>7a, <1>7c, <1>7d, <1>7e, <1>8, <1>9 DEF Next, Check

-----------------------------------------------------------------------------
(* The invariant. *)

\* What the stamp of an identity says is what it was told.
StampsAreReminders == \A i \in Identities : told[i] = throttle[<<"notVoted", i>>]

\* A round that looks at validators has a proposal.
RoundsHaveProposal ==
    \A w \in Workers : gc[w].pc \in {"check", "query", "react"} => gc[w].proposal # 0

\* Votes are on proposals there were.
VotesOnProposals ==
    /\ open \subseteq 1..proposed
    /\ \A v \in Validators : votes[v] \subseteq 1..proposed
    /\ \A w \in Workers : votedThen[w] \subseteq 1..proposed

\* The answer a round has yet to act on is a vote, and the latest of those the
\* node knew that are still open.
AnswersHold ==
    \A w \in Workers : gc[w].pc = "react" =>
        /\ gc[w].vote # 0 => gc[w].vote \in votes[gc[w].about]
        /\ \A p \in votedThen[w] \cap open : p <= gc[w].vote

IInv == /\ TypeOK /\ VotesRemembered /\ StampsAreReminders /\ RoundsHaveProposal
        /\ AboutIsLeft /\ VotesOnProposals /\ AnswersHold

\* A step of the chain or the operator.
LEMMA WorldStep ==
    ASSUME TypeOK, World
    PROVE  /\ UNCHANGED <<faults, sinceCheck, latestVoted, addressed, throttle, gc, votedThen, told>>
           /\ proposed \in Nat /\ proposed' \in Nat /\ proposed <= proposed'
           /\ \A v \in Validators : votes[v] \subseteq votes'[v] /\ votes'[v] \subseteq votes[v] \cup open
           /\ \A p \in open' : p \in open \/ (p = proposed + 1 /\ proposed' = proposed + 1)
<1>0. votes \in [Validators -> SUBSET Proposals] /\ proposed \in Nat
  BY DEF TypeOK
<1>1. ASSUME NEW u \in Validators, Vote(u), NEW v \in Validators
      PROVE  votes[v] \subseteq votes'[v] /\ votes'[v] \subseteq votes[v] \cup open
  <2>1. PICK p \in open : votes' = [votes EXCEPT ![u] = votes[u] \cup {p}]
    BY <1>1 DEF Vote
  <2> QED BY <1>0, <2>1
<1>2. CASE Propose
  BY <1>0, <1>2 DEF World, Propose
<1>3. CASE EndVoting
  BY <1>0, <1>3 DEF World, EndVoting
<1>4. CASE \E u \in Validators : Vote(u) \/ PauseValidator(u)
  <2>1. proposed' = proposed /\ open' = open
    BY <1>4 DEF Vote, PauseValidator
  <2>2. \A v \in Validators : votes[v] \subseteq votes'[v] /\ votes'[v] \subseteq votes[v] \cup open
    BY <1>1, <1>4 DEF PauseValidator
  <2> QED BY <1>0, <2>1, <2>2 DEF World
<1> QED BY <1>2, <1>3, <1>4 DEF World

\* A step of a round leaves the chain alone, and the other rounds.
LEMMA RoundStep ==
    ASSUME TypeOK, NEW w \in Workers, Check(w)
    PROVE  /\ UNCHANGED world
           /\ \A u \in Workers : u # w => gc'[u] = gc[u] /\ votedThen'[u] = votedThen[u]
           /\ latestVoted' = latestVoted \/ React(w)
           /\ gc'[w].pc = "react" => Answer(w)
           /\ gc'[w].pc = "query" => \E v \in Validators : Ask(w, v)
           /\ gc'[w].pc = "check" =>
                 \/ FetchProposal(w) /\ open # {}
                 \/ /\ gc[w].pc \in {"check", "query", "react"}
                    /\ gc'[w].proposal = gc[w].proposal
           /\ gc[w].pc = "react" => React(w)
           /\ votedThen'[w] \in {votedThen[w], {}} \/ Answer(w)
<1>0. gc \in [Workers -> Round] /\ votedThen \in [Workers -> SUBSET Proposals]
  BY DEF TypeOK, Round
<1>1. CASE StartCheck(w) \/ FetchFails(w)
  BY <1>0, <1>1 DEF StartCheck, FetchFails, Resting, Round
<1>2. CASE FetchProposal(w)
  BY <1>0, <1>2 DEF FetchProposal, Resting, Round
<1>3. ASSUME NEW v \in Validators, Skip(w, v)
      PROVE  /\ UNCHANGED <<world, votedThen, latestVoted>> /\ Done(w, v) /\ gc[w].pc = "check"
  BY <1>3 DEF Skip
<1>4. ASSUME NEW v \in Validators, Ask(w, v)
      PROVE  /\ UNCHANGED <<world, votedThen, latestVoted>> /\ gc[w].pc = "check"
             /\ gc'[w].pc = "query" /\ \A u \in Workers : u # w => gc'[u] = gc[u]
  BY <1>0, <1>4 DEF Ask, Round
<1>5. CASE Answer(w)
  BY <1>0, <1>5 DEF Answer, Round
<1>6. QueryFails(w) => UNCHANGED <<world, votedThen, latestVoted>> /\ gc[w].pc = "query" /\ Done(w, gc[w].about)
  BY DEF QueryFails
<1>7. React(w) => UNCHANGED world /\ votedThen' = [votedThen EXCEPT ![w] = {}]
                  /\ gc[w].pc = "react" /\ Done(w, gc[w].about)
  BY DEF React
<1>8. CASE \E v \in Validators : Skip(w, v)
  BY <1>0, <1>3, <1>8, DoneRound
<1>9. CASE \E v \in Validators : Ask(w, v)
  BY <1>0, <1>4, <1>9
<1>10. CASE QueryFails(w)
  BY <1>0, <1>6, <1>10, DoneRound
<1>11. CASE React(w)
  BY <1>0, <1>7, <1>11, DoneRound
<1> QED BY <1>1, <1>2, <1>5, <1>8, <1>9, <1>10, <1>11 DEF Check

LEMMA VotesNext ==
    IInv /\ [Next]_vars => VotesRemembered'
<1> SUFFICES ASSUME IInv, [Next]_vars, NEW v \in Validators, latestVoted'[v] # 0
             PROVE  latestVoted'[v] \in votes'[v]
  BY DEF VotesRemembered
<1> USE DEF IInv
<1>0. latestVoted \in [Validators -> 0..MaxProposal]
  BY DEF TypeOK
<1>1. votes[v] \subseteq votes'[v]
  BY RoundStep, WorldStep DEF Next, Tick, vars, world
<1>2. CASE UNCHANGED latestVoted
  BY <1>1, <1>2 DEF VotesRemembered
<1>3. ASSUME NEW w \in Workers, React(w) PROVE latestVoted'[v] \in votes'[v]
  <2> DEFINE x == gc[w].about
  <2>1. latestVoted' = [latestVoted EXCEPT ![x] = Remembered(w)] /\ gc[w].pc = "react"
    BY <1>3 DEF React
  <2>2. Remembered(w) \in {latestVoted[x], gc[w].vote, 0} /\ x \in Validators
    BY <2>1, RememberedIs
  <2>3. gc[w].vote # 0 => gc[w].vote \in votes[x]
    BY <2>1 DEF AnswersHold
  <2> HIDE DEF x
  <2>4. CASE x # v
    BY <1>0, <1>1, <2>1, <2>4 DEF VotesRemembered
  <2>5. CASE x = v
    BY <1>0, <1>1, <2>1, <2>2, <2>3, <2>5 DEF VotesRemembered
  <2> QED BY <2>4, <2>5
<1>4. ASSUME NEW w \in Workers, Check(w) PROVE latestVoted' = latestVoted \/ React(w)
  BY <1>4, RoundStep
<1> QED BY <1>2, <1>3, <1>4, WorldStep DEF Next, Tick, vars

\* A step reminds the watchers of a validator, reminds nobody, or lets time pass.
Reminds == \E w \in Workers :
              /\ React(w) /\ Remind(gc[w].about, gc[w].proposal)
              /\ gc[w].vote < gc[w].proposal

Quiet == /\ \A m \in sent' : m[3] = 0
         /\ UNCHANGED <<throttle, told>>

LEMMA StepKinds == ASSUME [Next]_vars PROVE Reminds \/ Quiet \/ Tick \/ UNCHANGED vars
<1>1. ASSUME NEW w \in Workers, React(w) PROVE Reminds \/ Quiet
  <2>1. CASE gc[w].vote < gc[w].proposal
    BY <1>1, <2>1 DEF React, Reminds
  <2>2. CASE ~(gc[w].vote < gc[w].proposal)
    BY <1>1, <2>2 DEF React, SendNothing, Quiet
  <2> QED BY <2>1, <2>2
<1>2. ASSUME NEW about, NEW who, SendError(about, who) PROVE Quiet
  BY <1>2 DEF SendError, Quiet
<1>3. SendNothing => Quiet
  BY DEF SendNothing, Quiet
<1>4. ASSUME NEW w \in Workers, StartCheck(w) \/ FetchFails(w) \/ FetchProposal(w) PROVE Quiet
  BY <1>2, <1>3, <1>4 DEF StartCheck, FetchFails, FetchProposal, Quiet
<1>5. ASSUME NEW w \in Workers, QueryFails(w) \/ Answer(w) PROVE Quiet
  BY <1>2, <1>3, <1>5 DEF QueryFails, Answer
<1>6. ASSUME NEW w \in Workers, NEW v \in Validators, Skip(w, v) \/ Ask(w, v) PROVE Quiet
  BY <1>3, <1>6 DEF Skip, Ask
<1>7. World => Quiet
  BY DEF World, Quiet
<1> QED BY <1>1, <1>4, <1>5, <1>6, <1>7 DEF Next, Check

LEMMA StampsNext == TypeOK /\ StampsAreReminders /\ [Next]_vars => StampsAreReminders'
<1> SUFFICES ASSUME TypeOK, StampsAreReminders, [Next]_vars, NEW i \in Identities
             PROVE  told'[i] = throttle'[<<"notVoted", i>>]
  BY DEF StampsAreReminders
<1>0. /\ told[i] = throttle[<<"notVoted", i>>] /\ told \in [Identities -> Ages]
      /\ throttle \in [{"notVoted"} \X Identities -> Ages]
      /\ <<"notVoted", i>> \in DOMAIN throttle
  BY DEF StampsAreReminders, TypeOK
<1>1. CASE Reminds
  <2>1. PICK v, p : Remind(v, p)
    BY <1>1 DEF Reminds
  <2>2. throttle' = Stamped(throttle, {Reminder}, Watchers[v])
    BY <2>1 DEF Remind
  <2>3. throttle'[<<"notVoted", i>>] = IF i \in SendTo(throttle, Reminder, Watchers[v])
                                       THEN 0 ELSE throttle[<<"notVoted", i>>]
    BY <1>0, <2>2 DEF Stamped, Reminder, Alert
  <2>4. told'[i] = IF i \in SendTo(throttle, Reminder, Watchers[v]) THEN 0 ELSE told[i]
    BY <2>1 DEF Remind
  <2> QED BY <1>0, <2>3, <2>4
<1>2. CASE Quiet \/ UNCHANGED vars
  BY <1>0, <1>2 DEF Quiet, vars
<1>3. CASE Tick
  BY <1>0, <1>3 DEF Tick
<1> QED BY <1>1, <1>2, <1>3, StepKinds

LEMMA ProposalNext ==
    IInv /\ [Next]_vars => RoundsHaveProposal' /\ AboutIsLeft'
<1> SUFFICES ASSUME IInv, [Next]_vars, NEW w \in Workers
             PROVE  /\ gc'[w].pc \in {"check", "query", "react"} => gc'[w].proposal # 0
                    /\ gc'[w].pc \in {"query", "react"} => gc'[w].about \in gc'[w].todo
  BY DEF RoundsHaveProposal, AboutIsLeft
<1> USE DEF IInv
<1>0. gc \in [Workers -> Round] /\ open \in SUBSET Proposals
  BY DEF TypeOK, Round
<1>1. CASE gc'[w] = gc[w]
  BY <1>1 DEF RoundsHaveProposal, AboutIsLeft
<1>2. CASE Check(w)
  <2>1. ASSUME NEW v \in Validators, Ask(w, v)
        PROVE  /\ gc'[w].proposal # 0 /\ gc'[w].pc = "query" /\ gc'[w].about \in gc'[w].todo
    BY <1>0, <2>1 DEF Ask, Round, RoundsHaveProposal
  <2>2. CASE Answer(w)
    BY <1>0, <2>2 DEF Answer, Round, RoundsHaveProposal, AboutIsLeft
  <2>3. CASE FetchProposal(w) /\ open # {} /\ gc'[w].pc = "check"
    <3>1. gc'[w].proposal = Latest(open)
      BY <1>0, <2>3 DEF FetchProposal, Round
    <3>2. PICK p \in open : p \in 1..MaxProposal
      BY <1>0, <2>3 DEF Proposals
    <3>3. open \in SUBSET (0..MaxProposal)
      BY <1>0 DEF Proposals
    <3>4. p <= Latest(open) /\ Latest(open) \in 0..MaxProposal
      BY <3>3, LatestIsGreatest
    <3> QED BY <2>3, <3>1, <3>2, <3>4
  <2>4. CASE gc'[w].pc = "check" /\ gc[w].pc \in {"check", "query", "react"}
             /\ gc'[w].proposal = gc[w].proposal
    BY <2>4 DEF RoundsHaveProposal
  <2> QED BY <1>2, <2>1, <2>2, <2>3, <2>4, RoundStep
<1>3. ASSUME NEW u \in Workers, Check(u), u # w PROVE gc'[w] = gc[w]
  BY <1>3, RoundStep
<1> QED BY <1>1, <1>2, <1>3, WorldStep DEF Next, Tick, vars

LEMMA OnProposalsNext == IInv /\ [Next]_vars => VotesOnProposals'
<1> SUFFICES ASSUME IInv, [Next]_vars PROVE VotesOnProposals'
  OBVIOUS
<1> USE DEF IInv
<1>0. VotesOnProposals /\ votedThen \in [Workers -> SUBSET Proposals]
  BY DEF TypeOK
<1>1. CASE UNCHANGED <<world, votedThen>>
  BY <1>0, <1>1 DEF world, VotesOnProposals
<1>2. CASE World
  <2>1. \A n \in 1..proposed : n \in 1..proposed'
    BY <1>2, WorldStep
  <2>2. proposed' = proposed + 1 => proposed + 1 \in 1..proposed'
    BY <1>2, WorldStep
  <2> QED BY <1>0, <1>2, <2>1, <2>2, WorldStep DEF VotesOnProposals
<1>3. ASSUME NEW w \in Workers, Check(w) PROVE VotesOnProposals'
  <2>1. \A u \in Workers : votedThen'[u] \subseteq 1..proposed
    <3>1. CASE Answer(w)
      <4>1. gc[w].about \in Validators
        BY <3>1 DEF Answer, AboutIsLeft, TypeOK
      <4> QED BY <1>0, <3>1, <4>1 DEF Answer, VotesOnProposals
    <3>2. CASE votedThen'[w] \in {votedThen[w], {}}
      BY <1>0, <1>3, <3>2, RoundStep DEF VotesOnProposals
    <3> QED BY <1>3, <3>1, <3>2, RoundStep
  <2>2. UNCHANGED world
    BY <1>3, RoundStep
  <2> QED BY <1>0, <2>1, <2>2 DEF VotesOnProposals, world
<1> QED BY <1>1, <1>2, <1>3 DEF Next, Tick, vars

LEMMA AnswersNext == IInv /\ [Next]_vars => AnswersHold'
<1> SUFFICES ASSUME IInv, [Next]_vars, NEW w \in Workers, gc'[w].pc = "react"
             PROVE  /\ gc'[w].vote # 0 => gc'[w].vote \in votes'[gc'[w].about]
                    /\ \A p \in votedThen'[w] \cap open' : p <= gc'[w].vote
  BY DEF AnswersHold
<1> USE DEF IInv
<1>0. /\ gc \in [Workers -> Round] /\ votes \in [Validators -> SUBSET Proposals]
      /\ votedThen \in [Workers -> SUBSET Proposals]
  BY DEF TypeOK, Round
<1>1. CASE UNCHANGED <<world, votedThen>> /\ gc'[w] = gc[w]
  BY <1>1 DEF AnswersHold, world
<1>2. CASE World
  <2>1. gc'[w] = gc[w] /\ votedThen'[w] = votedThen[w] /\ gc[w].about \in Validators
    BY <1>2, WorldStep DEF AboutIsLeft, TypeOK
  <2>2. votes[gc[w].about] \subseteq votes'[gc[w].about]
    BY <1>2, <2>1, WorldStep
  <2>3. \A p \in votedThen[w] \cap open' : p \in open
    <3> SUFFICES ASSUME NEW p \in votedThen[w] \cap open' PROVE p \in open
      OBVIOUS
    <3>1. p \in 1..proposed /\ proposed \in Nat
      BY DEF VotesOnProposals, TypeOK
    <3> QED BY <1>2, <3>1, WorldStep
  <2> QED BY <2>1, <2>2, <2>3 DEF AnswersHold
<1>3. CASE Check(w)
  <2> DEFINE v == gc[w].about
  <2>1. Answer(w)
    BY <1>3, RoundStep
  <2>2. /\ gc'[w].vote = LatestVote(v) /\ gc'[w].about = v
        /\ votedThen'[w] = votes[v] /\ UNCHANGED world /\ v \in Validators
    BY <1>0, <2>1 DEF Answer, Round, AboutIsLeft
  <2> HIDE DEF v
  <2> QED BY <1>0, <2>2, LatestVoteFound DEF world
<1>4. ASSUME NEW u \in Workers, Check(u), u # w
      PROVE  UNCHANGED world /\ gc'[w] = gc[w] /\ votedThen'[w] = votedThen[w]
  BY <1>4, RoundStep
<1>5. CASE \E u \in Workers : Check(u) /\ u # w
  BY <1>4, <1>5 DEF AnswersHold, world
<1> QED BY <1>1, <1>2, <1>3, <1>5 DEF Next, Tick, vars

\* The strengthened invariant.
THEOREM Invariance == Spec => []IInv
<1>1. Init => IInv
  <2>1. Init => VotesRemembered /\ StampsAreReminders /\ RoundsHaveProposal
                /\ AboutIsLeft /\ VotesOnProposals /\ AnswersHold
    BY DEF Init, VotesRemembered, StampsAreReminders, RoundsHaveProposal, AboutIsLeft,
           VotesOnProposals, AnswersHold, Resting
  <2> QED BY <2>1, TypeInit DEF IInv
<1>2. IInv /\ [Next]_vars => IInv'
  <2>1. IInv /\ [Next]_vars => TypeOK' /\ StampsAreReminders'
    BY TypeNext, StampsNext DEF IInv
  <2> QED BY <2>1, VotesNext, ProposalNext, OnProposalsNext, AnswersNext DEF IInv
<1> QED BY <1>1, <1>2, PTL DEF Spec

-----------------------------------------------------------------------------
(* What follows. *)

\* Every variable keeps its type, for any workers, validators and proposals.
THEOREM TypeCorrect == Spec => []TypeOK
BY Invariance, PTL DEF IInv

\* However many rounds overlap, the cache of votes never says more than the
\* truth (cache_gov.go:28-46, worker.go:665-674).
THEOREM CacheIsTrue == Spec => []VotesRemembered
BY Invariance, PTL DEF IInv

\* Reminders reach an identity at least twelve hours apart, however many rounds
\* and validators send them (worker.go:676-681).
THEOREM RemindersAreSpaced == Spec => RemindersSpaced
<1> DEFINE Spaced == \A m \in sent' : m[3] # 0 => told[m[1]] >= H12
<1>1. IInv /\ [Next]_vars => [Spaced]_vars
  <2> SUFFICES ASSUME IInv, [Next]_vars, ~UNCHANGED vars, NEW m \in sent', m[3] # 0
               PROVE  told[m[1]] >= H12
    OBVIOUS
  <2>1. Reminds
    BY StepKinds DEF Quiet, Tick
  <2>2. PICK w \in Workers : gc[w].pc = "react" /\ Remind(gc[w].about, gc[w].proposal)
    BY <2>1 DEF Reminds, React
  <2>3. PICK i \in SendTo(throttle, Reminder, Watchers[gc[w].about]) :
            m = <<i, gc[w].about, gc[w].proposal>>
    BY <2>2 DEF Remind
  <2>4. i \in Watchers[gc[w].about] /\ throttle[<<"notVoted", i>>] >= H12
    BY <2>3 DEF SendTo, Reminder, Alert
  <2>5. i \in Identities
    BY <2>2, <2>4 DEF IInv, AboutIsLeft, TypeOK
  <2> QED BY <2>3, <2>4, <2>5 DEF IInv, StampsAreReminders
<1> QED BY <1>1, Invariance, PTL DEF RemindersSpaced, Spec

\* No reminder is wrong: nobody is asked for a vote that the node knew of when it
\* answered, whatever happens between the answer and the reminder
\* (worker.go:617-694).
THEOREM RemindersAreRight == Spec => NoWrongReminder
<1> DEFINE Right == \A w \in Workers, m \in sent' :
          gc[w].pc = "react" /\ gc'[w].pc # "react" /\ m[3] \in open => m[3] \notin votedThen[w]
<1>1. IInv /\ [Next]_vars => [Right]_vars
  <2> SUFFICES ASSUME IInv, [Next]_vars, NEW w \in Workers, gc[w].pc = "react", gc'[w].pc # "react",
                      NEW m \in sent', m[3] \in open
               PROVE  m[3] \notin votedThen[w]
    OBVIOUS
  <2>1. React(w)
    <3>1. ASSUME NEW u \in Workers, Check(u), u # w PROVE FALSE
      BY <3>1, RoundStep DEF IInv
    <3>2. Check(w) => React(w)
      BY RoundStep DEF IInv
    <3> QED BY <3>1, <3>2, WorldStep DEF Next, Tick, vars, IInv
  <2>2. m[3] # 0
    BY DEF IInv, VotesOnProposals
  <2>3. gc[w].vote < gc[w].proposal /\ Remind(gc[w].about, gc[w].proposal)
    BY <2>1, <2>2 DEF React, SendNothing
  <2>4. m[3] = gc[w].proposal
    BY <2>3 DEF Remind
  <2>5. gc[w].vote \in 0..MaxProposal /\ gc[w].proposal \in 0..MaxProposal
    BY DEF IInv, TypeOK
  <2>6. m[3] \in votedThen[w] => m[3] <= gc[w].vote
    BY DEF IInv, AnswersHold
  <2> QED BY <2>3, <2>4, <2>5, <2>6
<1> QED BY <1>1, Invariance, PTL DEF NoWrongReminder, Spec

\* Only the step of its round about it ends the look at a validator.
LEMMA LookEnds ==
    ASSUME IInv, [Next]_vars, NEW w \in Workers, NEW v \in Validators,
           Checking(w, v), ~Checking(w, v)'
    PROVE  Skip(w, v) \/ (gc[w].about = v /\ (QueryFails(w) \/ React(w)))
<1>0. gc \in [Workers -> Round] /\ TypeOK
  BY DEF IInv, TypeOK, Round
<1>1. gc'[w] # gc[w]
  BY DEF Checking
<1>2. Check(w)
  <2>1. \A u \in Workers : Check(u) /\ u # w => gc'[w] = gc[w]
    BY <1>0, RoundStep
  <2> QED BY <1>0, <1>1, <2>1, WorldStep DEF Next, Tick, vars
<1>3. ~(StartCheck(w) \/ FetchFails(w) \/ FetchProposal(w))
  BY DEF StartCheck, FetchFails, FetchProposal, Checking
<1>4. \A x \in Validators : ~Ask(w, x)
  BY <1>0 DEF Ask, Checking, Round
<1>5. ~Answer(w)
  BY <1>0 DEF Answer, Checking, Round
<1>6. ASSUME NEW x, Done(w, x) PROVE x = v
  BY <1>0, <1>6, DoneRound DEF Checking
<1>7. \A x \in Validators : Skip(w, x) => Done(w, x)
  BY DEF Skip
<1>8. QueryFails(w) \/ React(w) => Done(w, gc[w].about)
  BY DEF QueryFails, React
<1> QED BY <1>2, <1>3, <1>4, <1>5, <1>6, <1>7, <1>8 DEF Check

\* However rounds overlap, the watchers of a validator that owes its vote are
\* told, or were in the last twelve hours (worker.go:617-694).
THEOREM NoneIsOverlooked == Spec => NothingOverlooked
<1> DEFINE Heard == \A w \in Workers, v \in Validators \ paused :
          /\ Checking(w, v) /\ ~Checking(w, v)'
          /\ \A p \in votes[v] : p < gc[w].proposal
          => \A i \in Watchers[v] : told'[i] < H12 \/ \E m \in sent' : m[1] = i /\ m[2] = v
<1>1. IInv /\ [Next]_vars => [Heard]_vars
  <2> SUFFICES ASSUME IInv, [Next]_vars, NEW w \in Workers, NEW v \in Validators \ paused,
                      Checking(w, v), ~Checking(w, v)',
                      \A p \in votes[v] : p < gc[w].proposal,
                      NEW i \in Watchers[v]
               PROVE  told'[i] < H12 \/ \E m \in sent' : m[1] = i /\ m[2] = v
    OBVIOUS
  <2>0. /\ gc[w].proposal \in 0..MaxProposal /\ gc[w].proposal # 0
        /\ gc[w].vote \in 0..MaxProposal
        /\ votes \in [Validators -> SUBSET Proposals]
        /\ latestVoted[v] \in 0..MaxProposal
        /\ i \in Identities
    BY DEF IInv, TypeOK, RoundsHaveProposal, Checking
  <2>1. ~Skip(w, v)
    <3>1. latestVoted[v] < gc[w].proposal
      BY <2>0 DEF IInv, VotesRemembered
    <3> QED BY <3>1 DEF Skip, Pending
  <2>2. CASE QueryFails(w) /\ gc[w].about = v
    <3>1. <<i, v, 0>> \in sent'
      BY <2>2 DEF QueryFails, SendError
    <3> QED BY <3>1
  <2>3. CASE React(w) /\ gc[w].about = v
    <3>1. gc[w].vote < gc[w].proposal
      BY <2>0, <2>3 DEF IInv, AnswersHold, React
    <3>2. Remind(v, gc[w].proposal)
      BY <2>3, <3>1 DEF React
    <3>3. CASE i \in SendTo(throttle, Reminder, Watchers[v])
      <4>1. <<i, v, gc[w].proposal>> \in sent'
        BY <3>2, <3>3 DEF Remind
      <4> QED BY <4>1
    <3>4. CASE i \notin SendTo(throttle, Reminder, Watchers[v])
      <4>1. told'[i] = told[i]
        BY <2>0, <3>2, <3>4 DEF Remind
      <4>2. ~(throttle[<<"notVoted", i>>] >= H12)
        BY <3>4 DEF SendTo, Reminder, Alert
      <4>3. throttle[<<"notVoted", i>>] = told[i] /\ told[i] \in Ages
        BY <2>0 DEF IInv, TypeOK, StampsAreReminders
      <4> QED BY <4>1, <4>2, <4>3 DEF Ages, LongAgo
    <3> QED BY <3>3, <3>4
  <2> QED BY <2>1, <2>2, <2>3, LookEnds
<1> QED BY <1>1, Invariance, PTL DEF NothingOverlooked, Spec
=============================================================================
