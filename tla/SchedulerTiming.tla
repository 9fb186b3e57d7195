-------------------------- MODULE SchedulerTiming ---------------------------
(***************************************************************************)
(* The scheduler of ChainScheduler with the time its parts take: a scan    *)
(* and a reload are instantaneous, a worker that finds nothing looks again *)
(* at once (it sleeps 30ms, the units of time here are tens of seconds),   *)
(* and a health check takes at most MaxCheck units of time.  The hot       *)
(* reload sleeps ReloadInterval and starts over, for ever; a file that is  *)
(* refused leaves the chains as they were, so a reload of the chains may   *)
(* also fail to come.                                                      *)
(*                                                                         *)
(* Under that timing the question is whether a chain can be left aside     *)
(* for ever, given that the scan always starts from the top of the order   *)
(* and that every reload makes the chains at the top due again.            *)
(***************************************************************************)
EXTENDS ChainScheduler

CONSTANTS
    MaxCheck,        \* longest health check, in units of time
    ReloadInterval   \* hotReloadInterval, which is half a minute at least

ASSUME TimingAssumption == MaxCheck \in Nat /\ ReloadInterval \in Nat \ {0}
\* At least MINIMUM_WORKER_HEALTH_CHECK workers are started (app_config.go:114).
ASSUME FleetAssumption == Workers # {} /\ IsFiniteSet(Chains)

VARIABLES
    busy,        \* how long each worker has been at its health check
    overdue,     \* how long each chain has been due without being claimed
    sinceReload  \* how long the hot reload has slept

timedVars == <<vars, busy, overdue, sinceReload>>

MaxOverdue == 2 * (Cardinality(Chains) * MaxCheck) + 1   \* where overdue saturates

Claimable(c) == c \in registered /\ age[c] = Interval /\ pauseLeft[c] = 0

TimedInit ==
    /\ Init
    /\ busy = [w \in Workers |-> 0]
    /\ overdue = [c \in Chains |-> 0]
    /\ sinceReload = ReloadInterval      \* the first reload does not sleep

\* The counters that start again when what they measure is over.
Restart ==
    /\ busy' = [w \in Workers |-> IF pc'[w] = "check" THEN busy[w] ELSE 0]
    /\ overdue' = [c \in Chains |-> IF Claimable(c)' THEN overdue[c] ELSE 0]

TimedWorker(w) == WorkerStep(w) /\ Restart /\ UNCHANGED sinceReload

\* The sleep is over.
TimedRequest ==
    /\ sinceReload = ReloadInterval
    /\ RequestReload /\ Restart
    /\ UNCHANGED sinceReload

\* A chain that is still registered has been due all along: its wait goes on.
TimedReload ==
    /\ ReloadStep /\ Restart
    /\ sinceReload' = 0

TimedOperator == OperatorStep /\ Restart /\ UNCHANGED sinceReload

\* Time only passes when everyone is either at a health check that may last
\* longer, or idle with nothing to claim.
TimedTick ==
    /\ ~reloading /\ command = NoChain
    /\ \A w \in Workers :
          \/ pc[w] = "check" /\ busy[w] < MaxCheck
          \/ pc[w] = "idle" /\ \A c \in Chains : ~Claimable(c)
    /\ Tick
    /\ busy' = [w \in Workers |-> IF pc[w] = "check" THEN busy[w] + 1 ELSE 0]
    /\ overdue' = [c \in Chains |-> IF Claimable(c) /\ overdue[c] < MaxOverdue
                                    THEN overdue[c] + 1 ELSE overdue[c]]
    /\ sinceReload' = IF sinceReload < ReloadInterval THEN sinceReload + 1 ELSE sinceReload

TimedNext ==
    \/ \E w \in Workers : TimedWorker(w)
    \/ TimedRequest \/ TimedReload \/ TimedOperator
    \/ TimedTick

\* A worker that can go on does, a reload that can take the lock does (the Go
\* scheduler runs every goroutine that can run), the operator's command ends,
\* and time does not stop.
TimedSpec ==
    /\ TimedInit /\ [][TimedNext]_timedVars
    /\ \A w \in Workers : WF_timedVars(TimedWorker(w))
    /\ WF_timedVars(TimedReload)
    /\ WF_timedVars(TimedOperator /\ command' = NoChain)
    /\ SF_timedVars(TimedTick)

-----------------------------------------------------------------------------
\* Every registered chain that is due and not paused is claimed in the end,
\* or paused or deregistered (worker.go:56-63, chain_registry.go:57-66,
\* start.go:110-165): the priority chains do not starve the others, although
\* they come first in every scan and every reload makes them due again.
EveryChainRechecked ==
    \A c \in Chains : Claimable(c) ~> ~Claimable(c)

\* The timing that takes: the health checks of the other chains fit in the
\* interval between two health checks, and those of all chains in the time
\* between two reloads.
EnoughTime ==
    LET n == Cardinality(Chains) IN
    (n - 1) * MaxCheck < Interval /\ n * MaxCheck < ReloadInterval

\* With that timing a due chain waits at most for two health checks of every
\* chain, since at most one reload makes chains that were served meanwhile due
\* again before its turn comes (chain_registry.go:57-66, start.go:110-165).
ClaimedInTime ==
    \A c \in Chains : overdue[c] <= 2 * (Cardinality(Chains) * MaxCheck)
=============================================================================
