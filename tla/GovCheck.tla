------------------------------ MODULE GovCheck -----------------------------
(***************************************************************************)
(* The end of a round (worker.go:599-696): every two hours the latest      *)
(* proposal on its voting period is fetched, and the watchers of the       *)
(* validators that did not vote on it are reminded, at most every twelve   *)
(* hours.  Rounds of several workers may overlap; proposals come and go    *)
(* and validators vote meanwhile.                                          *)
(*                                                                         *)
(* A step ends where the code waits for the network: what the tests before *)
(* a query found may be out of date when its answer comes, and the answer  *)
(* when the round acts on it.  The watchers are users throughout           *)
(* (HealthCheck models those that are not).                                *)
(***************************************************************************)
EXTENDS PreventSpamming, FiniteSetsExt

CONSTANTS
    Workers, Identities, Validators,
    Watchers,         \* validator -> identities in its watchers
    MaxProposal,      \* bound on the proposals
    MaxFaults,        \* bound on failing network calls
    TheChain          \* the subject of a query or an alert that names no validator

ASSUME GovAssumption ==
    /\ Watchers \in [Validators -> (SUBSET Identities) \ {{}}]
    /\ MaxProposal \in Nat /\ MaxFaults \in Nat
    /\ TheChain \notin Validators

Proposals == 1..MaxProposal
Reminder == Alert("notVoted", H12, FALSE)

VARIABLES
    paused,           \* paused validators
    open,             \* proposals on their voting period
    proposed,         \* the latest proposal there ever was
    votes,            \* by validator, the proposals it voted on
    faults,
    sinceCheck,       \* lastCheckGovByChain, as an age
    latestVoted,      \* cacheVotedGov; 0 when there is no entry
    addressed,        \* validators whose account address is registered
    throttle,
    gc,               \* the round each worker is in
    \* observations
    votedThen,        \* by worker, the votes of the validator when the node answered
    told,             \* by identity, age of the last reminder
    sent              \* what the last step enqueued: <<identity, subject, proposal or 0>>

world == <<paused, open, proposed, votes>>
vars  == <<world, faults, sinceCheck, latestVoted, addressed, throttle, gc,
          votedThen, told, sent>>

\* A round: its proposal, the validators it is not done with, the one it asks the
\* node about and the vote the node answered with.
Resting == [pc |-> "idle", proposal |-> 0, todo |-> {}, about |-> TheChain, vote |-> 0]

Init ==
    /\ paused = {} /\ open = {} /\ proposed = 0
    /\ votes = [v \in Validators |-> {}]
    /\ faults = 0
    /\ sinceCheck = LongAgo
    /\ latestVoted = [v \in Validators |-> 0]
    /\ addressed = {}
    /\ throttle = [k \in {"notVoted"} \X Identities |-> LongAgo]
    /\ gc = [w \in Workers |-> Resting]
    /\ votedThen = [w \in Workers |-> {}]
    /\ told = [i \in Identities |-> LongAgo]
    /\ sent = {}

SendNothing == sent' = {} /\ UNCHANGED <<throttle, told>>

\* An alert about a failed query; 0 stands for the error.
SendError(about, identities) ==
    /\ sent' = {<<i, about, 0>> : i \in identities}
    /\ UNCHANGED <<throttle, told>>

Remind(v, proposal) ==
    LET to == SendTo(throttle, Reminder, Watchers[v]) IN
    /\ throttle' = Stamped(throttle, {Reminder}, Watchers[v])
    /\ sent' = {<<i, v, proposal>> : i \in to}
    /\ told' = [i \in Identities |-> IF i \in to THEN 0 ELSE told[i]]

\* A network call fails: after some retries, and within the bound.
Fault == faults < MaxFaults /\ faults' = faults + 1

Latest(S) == Max(S \cup {0})

-----------------------------------------------------------------------------
StartCheck(w) ==
    /\ gc[w].pc = "idle"
    /\ sinceCheck > H2
    /\ gc' = [gc EXCEPT ![w].pc = "fetch"]
    /\ sent' = {}
    /\ UNCHANGED <<world, faults, sinceCheck, latestVoted, addressed, throttle, votedThen, told>>

\* The check counts as done before any validator is looked at, and not at all
\* when there is no proposal.
FetchFails(w) ==
    /\ gc[w].pc = "fetch" /\ Fault
    /\ SendError(TheChain, UNION {Watchers[v] : v \in Validators})
    /\ gc' = [gc EXCEPT ![w] = Resting]
    /\ UNCHANGED <<world, sinceCheck, latestVoted, addressed, votedThen>>

FetchProposal(w) ==
    /\ gc[w].pc = "fetch"
    /\ IF open = {}
       THEN /\ gc' = [gc EXCEPT ![w] = Resting]
            /\ UNCHANGED sinceCheck
       ELSE /\ gc' = [gc EXCEPT ![w].pc = "check", ![w].proposal = Latest(open), ![w].todo = Validators]
            /\ sinceCheck' = 0
    /\ SendNothing
    /\ UNCHANGED <<world, faults, latestVoted, addressed, votedThen>>

\* The round is not done with validator v.
Checking(w, v) == gc[w].pc \in {"check", "query", "react"} /\ v \in gc[w].todo

Done(w, v) ==
    gc' = [gc EXCEPT ![w] = IF @.todo = {v} THEN Resting
                            ELSE [@ EXCEPT !.pc = "check", !.todo = gc[w].todo \ {v},
                                           !.about = TheChain, !.vote = 0]]

\* Mutant: a vote on any proposal counts.
PendingOnce(v, proposal) == latestVoted[v] = 0

\* isVotedGovLessThan
Pending(v, proposal) == latestVoted[v] < proposal

\* The next validator: those paused, and those that are remembered to have voted
\* on the proposal, are skipped ...
Skip(w, v) ==
    /\ gc[w].pc = "check" /\ v \in gc[w].todo
    /\ v \in paused \/ ~Pending(v, gc[w].proposal)
    /\ Done(w, v)
    /\ SendNothing
    /\ UNCHANGED <<world, faults, sinceCheck, latestVoted, addressed, votedThen>>

\* ... and the node is asked about the others.
Ask(w, v) ==
    /\ gc[w].pc = "check" /\ v \in gc[w].todo
    /\ v \notin paused /\ Pending(v, gc[w].proposal)
    /\ addressed' = addressed \cup {v}
    /\ gc' = [gc EXCEPT ![w].pc = "query", ![w].about = v]
    /\ SendNothing
    /\ UNCHANGED <<world, faults, sinceCheck, latestVoted, votedThen>>

QueryFails(w) ==
    /\ gc[w].pc = "query"
    /\ Fault
    /\ SendError(gc[w].about, Watchers[gc[w].about])
    /\ Done(w, gc[w].about)
    /\ UNCHANGED <<world, sinceCheck, latestVoted, addressed, votedThen>>

\* Mutant: the oldest of the proposals is asked for.
OldestVote(v) == IF votes[v] \cap open = {} THEN 0 ELSE Min(votes[v] \cap open)

\* getLatestVotedGovV1ProposalOnVotingPeriod; 0 for none.
LatestVote(v) == Latest(votes[v] \cap open)

\* The node answers with what it knows at that moment.
Answer(w) ==
    /\ gc[w].pc = "query"
    /\ gc' = [gc EXCEPT ![w].pc = "react", ![w].vote = LatestVote(gc[w].about)]
    /\ votedThen' = [votedThen EXCEPT ![w] = votes[gc[w].about]]
    /\ SendNothing
    /\ UNCHANGED <<world, faults, sinceCheck, latestVoted, addressed>>

\* Mutant: the proposal of the round is remembered, not the one voted on.
RememberProposal(w) == Latest({latestVoted[gc[w].about], gc[w].proposal})

\* What putCacheVotedGovWL leaves in the cache: it keeps the larger entry.
Remembered(w) == Latest({latestVoted[gc[w].about], gc[w].vote})

\* The round acts on the answer.
React(w) ==
    /\ gc[w].pc = "react"
    /\ latestVoted' = [latestVoted EXCEPT ![gc[w].about] = Remembered(w)]
    /\ IF gc[w].vote < gc[w].proposal THEN Remind(gc[w].about, gc[w].proposal) ELSE SendNothing
    /\ votedThen' = [votedThen EXCEPT ![w] = {}]
    /\ Done(w, gc[w].about)
    /\ UNCHANGED <<world, faults, sinceCheck, addressed>>

-----------------------------------------------------------------------------
(* The chain and the operator. *)

Propose ==
    /\ proposed < MaxProposal
    /\ proposed' = proposed + 1
    /\ open' = open \cup {proposed'}
    /\ UNCHANGED <<paused, votes>>

EndVoting ==
    /\ \E p \in open : open' = open \ {p}
    /\ UNCHANGED <<paused, proposed, votes>>

Vote(v) ==
    /\ \E p \in open \ votes[v] : votes' = [votes EXCEPT ![v] = @ \cup {p}]
    /\ UNCHANGED <<paused, proposed, open>>

PauseValidator(v) ==
    /\ paused' = IF v \in paused THEN paused \ {v} ELSE paused \cup {v}
    /\ UNCHANGED <<proposed, open, votes>>

World ==
    /\ Propose \/ EndVoting \/ (\E v \in Validators : Vote(v) \/ PauseValidator(v))
    /\ sent' = {}
    /\ UNCHANGED <<faults, sinceCheck, latestVoted, addressed, throttle, gc, votedThen, told>>

Tick ==
    /\ throttle' = [k \in DOMAIN throttle |-> OlderBy1(throttle[k])]
    /\ told' = [i \in Identities |-> OlderBy1(told[i])]
    /\ sinceCheck' = OlderBy1(sinceCheck)
    /\ sent' = {}
    /\ UNCHANGED <<world, faults, latestVoted, addressed, gc, votedThen>>

-----------------------------------------------------------------------------
Check(w) ==
    \/ StartCheck(w) \/ FetchFails(w) \/ FetchProposal(w)
    \/ \E v \in Validators : Skip(w, v) \/ Ask(w, v)
    \/ QueryFails(w) \/ Answer(w) \/ React(w)

Next == (\E w \in Workers : Check(w)) \/ World \/ Tick

Spec == Init /\ [][Next]_vars

\* Rounds go on, no call hangs, time passes.
FairSpec == Spec /\ WF_vars(Tick) /\ \A w \in Workers : WF_vars(Check(w))

-----------------------------------------------------------------------------
TypeOK ==
    /\ paused \in SUBSET Validators /\ open \in SUBSET Proposals /\ proposed \in 0..MaxProposal
    /\ votes \in [Validators -> SUBSET Proposals]
    /\ faults \in 0..MaxFaults /\ sinceCheck \in Ages
    /\ latestVoted \in [Validators -> 0..MaxProposal] /\ addressed \in SUBSET Validators
    /\ throttle \in [{"notVoted"} \X Identities -> Ages] /\ told \in [Identities -> Ages]
    /\ gc \in [Workers -> [pc : {"idle", "fetch", "check", "query", "react"},
                           proposal : 0..MaxProposal, todo : SUBSET Validators,
                           about : Validators \cup {TheChain}, vote : 0..MaxProposal]]
    /\ votedThen \in [Workers -> SUBSET Proposals]
    /\ sent \in SUBSET (Identities \X (Validators \cup {TheChain}) \X (0..MaxProposal))

\* The cache never says more than the truth: a validator is remembered to have
\* voted only on a proposal it did vote on, which once was on its voting period
\* (cache_gov.go:28-46, worker.go:665-674).
VotesRemembered ==
    \A v \in Validators : latestVoted[v] # 0 => latestVoted[v] \in votes[v]

\* A reminder is never wrong for want of asking: a validator that had voted on
\* the proposal when the node answered is not asked to vote on it, whatever other
\* rounds and the chain do until the reminder is sent.  The voting period may have
\* ended while the round was under way, since the query then no longer finds the
\* vote; and a vote cast after the answer comes too late (worker.go:617-694).
NoWrongReminder ==
    [][\A w \in Workers, m \in sent' :
          gc[w].pc = "react" /\ gc'[w].pc # "react" /\ m[3] \in open => m[3] \notin votedThen[w]]_vars

\* Nothing is overlooked: when a round is done with a validator that is not
\* paused and did not vote on its proposal nor on a later one, each of its
\* watchers hears of it now, or was reminded, maybe of another validator, in the
\* last twelve hours (worker.go:617-694).
NothingOverlooked ==
    [][\A w \in Workers, v \in Validators \ paused :
          /\ Checking(w, v) /\ ~Checking(w, v)'
          /\ \A p \in votes[v] : p < gc[w].proposal
          => \A i \in Watchers[v] : told'[i] < H12 \/ \E m \in sent' : m[1] = i /\ m[2] = v]_vars

\* However rounds overlap, reminders reach an identity at least twelve hours
\* apart (worker.go:676-681).
RemindersSpaced ==
    [][\A m \in sent' : m[3] # 0 => told[m[1]] >= H12]_vars

\* While the latest proposal stays open and a validator that is not paused votes
\* on neither it nor a later one, reminders keep reaching its watchers.
OwesVote(v) ==
    /\ v \notin paused /\ open # {}
    /\ \A p \in votes[v] : p < Latest(open)

KeepsReminding ==
    \A v \in Validators : \A i \in Watchers[v] : <>[]OwesVote(v) => []<>(told[i] = 0)
=============================================================================
