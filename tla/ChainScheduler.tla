--------------------------- MODULE ChainScheduler ---------------------------
(***************************************************************************)
(* The chain registry as a scheduler: health-check workers poll it for the *)
(* most urgent chain that is due, an operator pauses and unpauses chains,  *)
(* and the hot reload replaces every registered chain.                     *)
(*                                                                         *)
(* A scan (GetFirstChainConfigForHealthCheckRL) only holds the READ lock   *)
(* of the registry, so the scans of several workers interleave; each read  *)
(* of a pause and each read or write of a last-health-check time takes a   *)
(* lock of its own and is one step.  A reload takes the write lock: it     *)
(* waits for the scans under way, and while it waits no new scan starts    *)
(* (sync.RWMutex prefers a waiting writer).                                *)
(*                                                                         *)
(* Time is kept as what the code computes from it: for a chain, how long   *)
(* ago its last health check was claimed, saturated at Interval (due), and *)
(* how long it stays paused.  Tick lets one unit of time pass.             *)
(***************************************************************************)
EXTENDS Naturals, FiniteSets

CONSTANTS
    Workers,     \* the health-check workers
    Chains,      \* chain names, as numbers in the order of their names
    NoChain,     \* stands for "no chain in hand"
    Interval,    \* healthCheckInterval, in units of time
    MaxPause     \* longest pause with a duration that is explored

ASSUME ChainsAssumption   == Chains \subseteq Nat /\ NoChain \notin Chains
ASSUME IntervalAssumption == Interval \in Nat \ {0}
ASSUME MaxPauseAssumption == MaxPause \in Nat

VARIABLES
    registered,  \* keys of globalChainNameToChainConfig
    priority,    \* the registered chains whose configuration says priority
    age,         \* time since lastHealthCheckUtc of the registered object
    pauseLeft,   \* time left before the expiry in pausedChains, 0 if none
    reloading,   \* the hot reload waits for the write lock
    command,     \* chain that /pause found registered and is about to treat
    pc,          \* where each worker is
    todo,        \* chains its scan has not looked at yet
    job,         \* chain its scan looks at, or that it health-checks
    \* Observations, read by the properties alone:
    claimedBy,   \* workers that claimed the chain since it last became due
    racers,      \* workers past the due test when the chain was last claimed
    pausedSince, \* chains paused without a break since the scan started
    dueSince     \* chains due and not paused without a break since then

registry  == <<registered, priority>>
operator  == <<command>>
observed  == <<claimedBy, racers, pausedSince, dueSince>>
vars == <<registered, priority, age, pauseLeft, reloading, command,
          pc, todo, job, claimedBy, racers, pausedSince, dueSince>>

Forever  == MaxPause + 1     \* a pause without a duration: 30 years
Scanning == {"pause", "due", "claim"}
Holding  == {w \in Workers : pc[w] \in Scanning}   \* holders of the read lock

(***************************************************************************)
(* What the code computes.                                                 *)
(***************************************************************************)

\* The order of RegisteredChainsConfig.Sort: priority chains, then by name.
Before(c, d) ==
    IF (c \in priority) = (d \in priority) THEN c < d ELSE c \in priority

AnyOrder(c, S) == c \in S                    \* mutant: the copy is not sorted
IsFirst(c, S) == c \in S /\ \A d \in S \ {c} : Before(c, d)

NeverPaused(c) == FALSE                       \* mutant
IsChainPaused(c) == pauseLeft[c] > 0

DueTooEarly(c) == age[c] + 1 >= Interval      \* mutant
IsDue(c) == age[c] >= Interval

NoLastHealthCheck(c) == age                   \* mutant: the time is not written

\* SetLastHealthCheckUtcWL.
SetLastHealthCheck(c) == [age EXCEPT ![c] = 0]

\* What the operator's command leaves in pausedChains: 0 is also /unpause.
PauseFor(c, d) == [pauseLeft EXCEPT ![c] = d]

IgnoreReaders == TRUE                         \* mutant: no lock

\* The write lock can be taken.
NoReader == Holding = {}

(***************************************************************************)
(* The initial state: the registry before the first load.                  *)
(***************************************************************************)
Init ==
    /\ registered = {} /\ priority = {}
    /\ age = [c \in Chains |-> Interval]
    /\ pauseLeft = [c \in Chains |-> 0]
    /\ reloading = FALSE
    /\ command = NoChain
    /\ pc = [w \in Workers |-> "idle"]
    /\ todo = [w \in Workers |-> {}]
    /\ job = [w \in Workers |-> NoChain]
    /\ claimedBy = [c \in Chains |-> {}]
    /\ racers = [c \in Chains |-> {}]
    /\ pausedSince = [w \in Workers |-> {}]
    /\ dueSince = [w \in Workers |-> {}]

(***************************************************************************)
(* A worker.                                                               *)
(***************************************************************************)

\* RLock, and a sorted copy of the registry.
StartScan(w) ==
    /\ pc[w] = "idle"
    /\ ~reloading
    /\ pc' = [pc EXCEPT ![w] = "pause"]
    /\ todo' = [todo EXCEPT ![w] = registered]
    /\ pausedSince' = [pausedSince EXCEPT ![w] = {c \in Chains : pauseLeft[c] > 0}]
    /\ dueSince' = [dueSince EXCEPT ![w] =
                       {c \in registered : age[c] = Interval /\ pauseLeft[c] = 0}]
    /\ UNCHANGED <<registry, age, pauseLeft, reloading, command, job,
                   claimedBy, racers>>

\* The next chain in order is paused: continue.
SkipPaused(w, c) ==
    /\ pc[w] = "pause"
    /\ IsFirst(c, todo[w])
    /\ IsChainPaused(c)
    /\ todo' = [todo EXCEPT ![w] = @ \ {c}]
    /\ UNCHANGED <<registry, age, pauseLeft, reloading, command, pc,
                   job, observed>>

\* The next chain in order is not paused: look at its last health check.
NotPaused(w, c) ==
    /\ pc[w] = "pause"
    /\ IsFirst(c, todo[w])
    /\ ~IsChainPaused(c)
    /\ todo' = [todo EXCEPT ![w] = @ \ {c}]
    /\ job' = [job EXCEPT ![w] = c]
    /\ pc' = [pc EXCEPT ![w] = "due"]
    /\ UNCHANGED <<registry, age, pauseLeft, reloading, command,
                   observed>>

NotDue(w) ==
    /\ pc[w] = "due"
    /\ ~IsDue(job[w])
    /\ job' = [job EXCEPT ![w] = NoChain]
    /\ pc' = [pc EXCEPT ![w] = "pause"]
    /\ UNCHANGED <<registry, age, pauseLeft, reloading, command, todo,
                   observed>>

Due(w) ==
    /\ pc[w] = "due"
    /\ IsDue(job[w])
    /\ pc' = [pc EXCEPT ![w] = "claim"]
    /\ UNCHANGED <<registry, age, pauseLeft, reloading, command, todo,
                   job, observed>>

\* SetLastHealthCheckUtcWL, return of the chain and RUnlock.
Claim(w) ==
    LET c == job[w] IN
    /\ pc[w] = "claim"
    /\ age' = SetLastHealthCheck(c)
    /\ pc' = [pc EXCEPT ![w] = "check"]
    /\ todo' = [todo EXCEPT ![w] = {}]
    /\ claimedBy' = [claimedBy EXCEPT ![c] = @ \cup {w}]
    /\ racers' = [racers EXCEPT ![c] =
                     {v \in Workers : pc[v] = "claim" /\ job[v] = c}]
    /\ dueSince' = [v \in Workers |-> IF v = w THEN {} ELSE dueSince[v] \ {c}]
    /\ pausedSince' = [pausedSince EXCEPT ![w] = {}]
    /\ UNCHANGED <<registry, pauseLeft, reloading, command, job>>

\* Nothing to health-check: return nil and RUnlock.
EndScan(w) ==
    /\ pc[w] = "pause"
    /\ todo[w] = {}
    /\ pc' = [pc EXCEPT ![w] = "idle"]
    /\ dueSince' = [dueSince EXCEPT ![w] = {}]
    /\ pausedSince' = [pausedSince EXCEPT ![w] = {}]
    /\ UNCHANGED <<registry, age, pauseLeft, reloading, command, todo, job,
                   claimedBy, racers>>

\* The health check of the chain is over, with or without success.
Finish(w) ==
    /\ pc[w] = "check"
    /\ job' = [job EXCEPT ![w] = NoChain]
    /\ pc' = [pc EXCEPT ![w] = "idle"]
    /\ UNCHANGED <<registry, age, pauseLeft, reloading, command, todo,
                   observed>>

ScanStep(w) ==
    \/ \E c \in Chains : SkipPaused(w, c) \/ NotPaused(w, c)
    \/ NotDue(w) \/ Due(w) \/ Claim(w) \/ EndScan(w)

(***************************************************************************)
(* The hot reload: UpdateChainsConfigWL.                                   *)
(***************************************************************************)

RequestReload ==
    /\ ~reloading
    /\ reloading' = TRUE
    /\ UNCHANGED <<registry, age, pauseLeft, command, pc, todo, job, observed>>

\* Every enabled chain gets a new object, never health-checked.
Reload(enabled, prio) ==
    /\ reloading
    /\ NoReader
    /\ reloading' = FALSE
    /\ registered' = enabled
    /\ priority' = prio
    /\ age' = [c \in Chains |-> Interval]
    /\ claimedBy' = [c \in Chains |-> {}]
    /\ racers' = [c \in Chains |-> {}]
    /\ UNCHANGED <<pauseLeft, command, pc, todo, job, pausedSince,
                   dueSince>>

(***************************************************************************)
(* The operator: /pause <chain> [duration], of a root user.                *)
(***************************************************************************)

\* HasChainRL finds the chain.
PauseCommand(c) ==
    /\ command = NoChain
    /\ ~reloading
    /\ c \in registered
    /\ command' = c
    /\ UNCHANGED <<registry, age, pauseLeft, reloading, pc, todo, job,
                   observed>>

\* PauseChainWL, or UnpauseChainWL when d is 0.
ApplyPause(d) ==
    /\ command # NoChain
    /\ pauseLeft' = PauseFor(command, d)
    /\ command' = NoChain
    /\ pausedSince' = IF d > 0 THEN pausedSince
                      ELSE [w \in Workers |-> pausedSince[w] \ {command}]
    /\ dueSince' = IF d > 0 THEN [w \in Workers |-> dueSince[w] \ {command}]
                   ELSE dueSince
    /\ UNCHANGED <<registry, age, reloading, pc, todo, job, claimedBy,
                   racers>>

(***************************************************************************)
(* Time.                                                                   *)
(***************************************************************************)

Older(n)   == IF n < Interval THEN n + 1 ELSE Interval
Shorter(n) == IF n = 0 \/ n = Forever THEN n ELSE n - 1

Tick ==
    /\ age' = [c \in Chains |-> Older(age[c])]
    /\ pauseLeft' = [c \in Chains |-> Shorter(pauseLeft[c])]
    /\ claimedBy' = [c \in Chains |-> IF age[c] + 1 < Interval
                                      THEN claimedBy[c] ELSE {}]
    /\ racers' = [c \in Chains |-> IF age[c] + 1 < Interval
                                   THEN racers[c] ELSE {}]
    /\ pausedSince' = [w \in Workers |-> {c \in pausedSince[w] :
                                             Shorter(pauseLeft[c]) > 0}]
    /\ UNCHANGED <<registry, reloading, command, pc, todo, job, dueSince>>

-----------------------------------------------------------------------------
WorkerStep(w) == StartScan(w) \/ ScanStep(w) \/ Finish(w)

ReloadStep ==
    \E enabled \in (SUBSET Chains) \ {{}} : \E prio \in SUBSET enabled :
        Reload(enabled, prio)

OperatorStep ==
    \/ \E c \in Chains : PauseCommand(c)
    \/ \E d \in 0..Forever : ApplyPause(d)

Next ==
    \/ \E w \in Workers : WorkerStep(w)
    \/ RequestReload
    \/ ReloadStep
    \/ OperatorStep
    \/ Tick

Spec == Init /\ [][Next]_vars

-----------------------------------------------------------------------------
TypeOK ==
    /\ registered \in SUBSET Chains
    /\ priority \in SUBSET registered
    /\ age \in [Chains -> 0..Interval]
    /\ pauseLeft \in [Chains -> 0..Forever]
    /\ reloading \in BOOLEAN
    /\ command \in Chains \cup {NoChain}
    /\ pc \in [Workers -> {"idle", "check"} \cup Scanning]
    /\ todo \in [Workers -> SUBSET Chains]
    /\ job \in [Workers -> Chains \cup {NoChain}]
    /\ claimedBy \in [Chains -> SUBSET Workers]
    /\ racers \in [Chains -> SUBSET Workers]
    /\ pausedSince \in [Workers -> SUBSET Chains]
    /\ dueSince \in [Workers -> SUBSET Chains]

\* What a scan works on is the registry of this moment: the copy taken under
\* the read lock never names an object that a reload has replaced
\* (chain_registry.go:52-57, 23-24), so the time a claim writes is the time
\* the next scan reads.
SnapshotCurrent ==
    \A w \in Holding :
        /\ todo[w] \subseteq registered
        /\ pc[w] # "pause" => job[w] \in registered

\* A worker that is about to claim a chain did not itself claim it since the
\* chain last became due (chain_registry.go:62-63): the race between scans
\* costs at most one health check per worker in an interval.
OnceEachPerInterval ==
    \A w \in Workers : pc[w] = "claim" => w \notin claimedBy[job[w]]

\* A chain that is claimed although it is no longer due is claimed by a worker
\* that had passed the due test when another one claimed it: a scan that tests
\* after the claim never picks the chain again.
RepickOnlyByRacers ==
    \A w \in Workers :
        pc[w] = "claim" => age[job[w]] = Interval \/ w \in racers[job[w]]

\* A pause that was in force when the scan started and has not been lifted or
\* run out since keeps the chain from being claimed by it (chain_registry.go:58).
PauseHonoured ==
    \A w \in Workers : pc[w] \in {"due", "claim"} => job[w] \notin pausedSince[w]

\* A scan overlooks no chain: one that was due when the scan started, and has
\* been neither claimed nor paused since, is still ahead of it, and is not more
\* urgent than the chain the scan claims (chain_registry.go:55-66,
\* registered_chain_config.go:137-153).
MostUrgentFirst ==
    \A w \in Holding : \A d \in dueSince[w] :
        \/ d \in todo[w] /\ (pc[w] # "pause" => Before(job[w], d))
        \/ pc[w] # "pause" /\ d = job[w]
=============================================================================
