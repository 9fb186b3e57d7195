------------------------ MODULE ChainSchedulerProofs ------------------------
(***************************************************************************)
(* Proofs about ChainScheduler, for any workers, chains and interval, and  *)
(* about SchedulerTiming: how long a due chain waits.                      *)
(***************************************************************************)
EXTENDS SchedulerTiming, FiniteSetTheorems, TLAPS

USE DEF Scanning, Forever

\* What the assumptions on the constants give in every proof.
LEMMA Bounds == /\ Interval \in Nat /\ Interval > 0 /\ MaxPause \in Nat
                /\ 0 \in 0..Interval /\ Interval \in 0..Interval
                /\ 0 \in 0..Forever
BY IntervalAssumption, MaxPauseAssumption

\* Every step keeps the types.
LEMMA TypeStep == TypeOK /\ [Next]_vars => TypeOK'
<1> SUFFICES ASSUME TypeOK, [Next]_vars PROVE TypeOK'
  OBVIOUS
<1> USE Bounds DEF TypeOK, registry, observed
<1>1. ASSUME NEW w \in Workers, StartScan(w) PROVE TypeOK'
  BY <1>1 DEF StartScan
<1>2. ASSUME NEW w \in Workers, NEW c \in Chains, SkipPaused(w, c)
      PROVE TypeOK'
  BY <1>2 DEF SkipPaused
<1>3. ASSUME NEW w \in Workers, NEW c \in Chains, NotPaused(w, c)
      PROVE TypeOK'
  BY <1>3 DEF NotPaused
<1>4. ASSUME NEW w \in Workers, NotDue(w) PROVE TypeOK'
  BY <1>4 DEF NotDue
<1>5. ASSUME NEW w \in Workers, Due(w) PROVE TypeOK'
  BY <1>5 DEF Due
<1>6. ASSUME NEW w \in Workers, Claim(w) PROVE TypeOK'
  <2>1. age' \in [Chains -> 0..Interval]
    BY <1>6 DEF Claim, SetLastHealthCheck
  <2> QED BY <2>1, <1>6 DEF Claim
<1>7. ASSUME NEW w \in Workers, EndScan(w) PROVE TypeOK'
  BY <1>7 DEF EndScan
<1>8. ASSUME NEW w \in Workers, Finish(w) PROVE TypeOK'
  BY <1>8 DEF Finish
<1>9. CASE RequestReload
  BY <1>9 DEF RequestReload
<1>10. ASSUME NEW enabled \in SUBSET Chains, NEW prio \in SUBSET enabled,
              Reload(enabled, prio)
       PROVE TypeOK'
  BY <1>10 DEF Reload
<1>11. ASSUME NEW c \in Chains, PauseCommand(c) PROVE TypeOK'
  BY <1>11 DEF PauseCommand
<1>12. ASSUME NEW d \in 0..Forever, ApplyPause(d) PROVE TypeOK'
  BY <1>12 DEF ApplyPause, PauseFor
<1>13. CASE Tick
  <2>1. \A n \in 0..Interval : Older(n) \in 0..Interval
    BY DEF Older
  <2>2. \A n \in 0..Forever : Shorter(n) \in 0..Forever
    BY DEF Shorter
  <2> QED BY <1>13, <2>1, <2>2 DEF Tick
<1>14. CASE UNCHANGED vars
  BY <1>14 DEF vars
<1> QED
  BY <1>1, <1>2, <1>3, <1>4, <1>5, <1>6, <1>7, <1>8, <1>9, <1>10, <1>11,
     <1>12, <1>13, <1>14
     DEF Next, WorkerStep, ScanStep, ReloadStep, OperatorStep

\* The state always has its type.
THEOREM TypeCorrect == Spec => []TypeOK
<1>1. Init => TypeOK
  BY Bounds DEF Init, TypeOK
<1> QED BY <1>1, TypeStep, PTL DEF Spec

-----------------------------------------------------------------------------
(***************************************************************************)
(* The inductive invariant: what each observation says of the state while  *)
(* a scan is under way, next to the properties.                            *)
(***************************************************************************)
TestedChain == {"due", "claim"}

\* A chain that is due has not been claimed since it became due.
ClaimedAreNotDue == \A c \in Chains : age[c] = Interval => claimedBy[c] = {}

\* The pauses observed since the start of a scan are still in force.
ObservedPauses == \A w \in Workers : \A c \in pausedSince[w] : pauseLeft[c] > 0

\* The due chains observed since the start of a scan still are.
ObservedDue == \A w \in Holding : \A c \in dueSince[w] :
                   age[c] = Interval /\ pauseLeft[c] = 0

\* A scan looks at its chains in order.
InOrder == \A w \in Workers : pc[w] \in TestedChain =>
              \A d \in todo[w] : d # job[w] /\ Before(job[w], d)

IInv ==
    /\ TypeOK
    /\ SnapshotCurrent
    /\ ClaimedAreNotDue /\ OnceEachPerInterval
    /\ RepickOnlyByRacers
    /\ ObservedPauses /\ PauseHonoured
    /\ ObservedDue /\ InOrder /\ MostUrgentFirst

\* Before the first load nothing is claimed, paused or scanned.
LEMMA InitInductive == Init => IInv
<1> SUFFICES ASSUME Init PROVE IInv
  OBVIOUS
<1>1. TypeOK
  BY Bounds DEF Init, TypeOK
<1>2. Holding = {}
  BY DEF Init, Holding
<1> QED
  BY <1>1, <1>2
     DEF Init, IInv, SnapshotCurrent, ClaimedAreNotDue, OnceEachPerInterval,
         RepickOnlyByRacers, ObservedPauses, PauseHonoured, ObservedDue,
         InOrder, MostUrgentFirst, TestedChain

\* Every step preserves the invariant, by kind of step.
LEMMA StepInductive == IInv /\ [Next]_vars => IInv'
<1> SUFFICES ASSUME IInv, [Next]_vars PROVE IInv'
  OBVIOUS
<1> USE Bounds DEF TypeOK, registry, observed, Holding, TestedChain, Before
<1>0. TypeOK /\ TypeOK'
  BY TypeStep DEF IInv
<1>1. ASSUME NEW w \in Workers, StartScan(w)
      PROVE  IInv'
  <2>1. SnapshotCurrent'
    BY <1>0, <1>1 DEF IInv, StartScan, SnapshotCurrent
  <2>2. ObservedPauses'
    BY <1>0, <1>1 DEF IInv, StartScan, ObservedPauses
  <2>3. ObservedDue'
    BY <1>0, <1>1 DEF IInv, StartScan, ObservedDue
  <2>4. MostUrgentFirst'
    BY <1>0, <1>1 DEF IInv, StartScan, MostUrgentFirst, ObservedDue, InOrder
  <2>5. ClaimedAreNotDue' /\ OnceEachPerInterval' /\ RepickOnlyByRacers' /\
        PauseHonoured' /\ InOrder'
    BY <1>0, <1>1
       DEF IInv, StartScan, ClaimedAreNotDue, OnceEachPerInterval,
           SnapshotCurrent, RepickOnlyByRacers, PauseHonoured, ObservedPauses,
           InOrder
  <2> QED BY <1>0, <2>1, <2>2, <2>3, <2>4, <2>5 DEF IInv
<1>2. ASSUME NEW w \in Workers, NEW c \in Chains, SkipPaused(w, c)
      PROVE  IInv'
  <2>1. SnapshotCurrent'
    BY <1>0, <1>2 DEF IInv, SkipPaused, IsFirst, IsChainPaused, SnapshotCurrent
  <2>2. MostUrgentFirst'
    BY <1>0, <1>2
       DEF IInv, SkipPaused, IsFirst, IsChainPaused, MostUrgentFirst,
           ObservedDue, InOrder
  <2>3. ClaimedAreNotDue' /\ OnceEachPerInterval' /\ RepickOnlyByRacers' /\
        ObservedPauses' /\ PauseHonoured' /\ ObservedDue' /\ InOrder'
    BY <1>0, <1>2
       DEF IInv, SkipPaused, IsFirst, IsChainPaused, ClaimedAreNotDue,
           OnceEachPerInterval, SnapshotCurrent, RepickOnlyByRacers,
           ObservedPauses, PauseHonoured, ObservedDue, InOrder
  <2> QED BY <1>0, <2>1, <2>2, <2>3 DEF IInv
<1>3. ASSUME NEW w \in Workers, NEW c \in Chains, NotPaused(w, c)
      PROVE  IInv'
  <2>1. SnapshotCurrent'
    BY <1>0, <1>3 DEF IInv, NotPaused, IsFirst, IsChainPaused, SnapshotCurrent
  <2>2. PauseHonoured'
    BY <1>0, <1>3
       DEF IInv, NotPaused, IsFirst, IsChainPaused, PauseHonoured,
           ObservedPauses
  <2>3. InOrder'
    BY <1>0, <1>3 DEF IInv, NotPaused, IsFirst, IsChainPaused, InOrder
  <2>4. MostUrgentFirst'
    BY <1>0, <1>3
       DEF IInv, NotPaused, IsFirst, IsChainPaused, MostUrgentFirst,
           ObservedDue, InOrder
  <2>5. ClaimedAreNotDue' /\ OnceEachPerInterval' /\ RepickOnlyByRacers' /\
        ObservedPauses' /\ ObservedDue'
    BY <1>0, <1>3
       DEF IInv, NotPaused, IsFirst, IsChainPaused, ClaimedAreNotDue,
           OnceEachPerInterval, SnapshotCurrent, RepickOnlyByRacers,
           ObservedPauses, ObservedDue
  <2> QED BY <1>0, <2>1, <2>2, <2>3, <2>4, <2>5 DEF IInv
<1>4. ASSUME NEW w \in Workers, NotDue(w)
      PROVE  IInv'
  <2>1. MostUrgentFirst'
    BY <1>0, <1>4
       DEF IInv, NotDue, IsDue, MostUrgentFirst, ObservedDue, InOrder
  <2>2. SnapshotCurrent' /\ ClaimedAreNotDue' /\ OnceEachPerInterval' /\
        RepickOnlyByRacers' /\ ObservedPauses' /\ PauseHonoured' /\
        ObservedDue' /\ InOrder'
    BY <1>0, <1>4
       DEF IInv, NotDue, IsDue, SnapshotCurrent, ClaimedAreNotDue,
           OnceEachPerInterval, RepickOnlyByRacers, ObservedPauses,
           PauseHonoured, ObservedDue, InOrder
  <2> QED BY <1>0, <2>1, <2>2 DEF IInv
<1>5. ASSUME NEW w \in Workers, Due(w)
      PROVE  IInv'
  <2>1. OnceEachPerInterval'
    BY <1>0, <1>5
       DEF IInv, Due, IsDue, OnceEachPerInterval, ClaimedAreNotDue,
           SnapshotCurrent
  <2>2. RepickOnlyByRacers'
    BY <1>0, <1>5 DEF IInv, Due, IsDue, RepickOnlyByRacers, SnapshotCurrent
  <2>3. SnapshotCurrent' /\ ClaimedAreNotDue' /\ ObservedPauses' /\
        PauseHonoured' /\ ObservedDue' /\ InOrder' /\ MostUrgentFirst'
    BY <1>0, <1>5
       DEF IInv, Due, IsDue, SnapshotCurrent, ClaimedAreNotDue,
           ObservedPauses, PauseHonoured, ObservedDue, InOrder,
           MostUrgentFirst
  <2> QED BY <1>0, <2>1, <2>2, <2>3 DEF IInv
<1>6. ASSUME NEW w \in Workers, Claim(w)
      PROVE  IInv'
  <2>1. OnceEachPerInterval'
    BY <1>0, <1>6
       DEF IInv, Claim, SetLastHealthCheck, OnceEachPerInterval,
           ClaimedAreNotDue, SnapshotCurrent
  <2>2. RepickOnlyByRacers'
    BY <1>0, <1>6
       DEF IInv, Claim, SetLastHealthCheck, RepickOnlyByRacers,
           SnapshotCurrent
  <2>3. ObservedPauses'
    BY <1>0, <1>6 DEF IInv, Claim, SetLastHealthCheck, ObservedPauses
  <2>4. ObservedDue'
    BY <1>0, <1>6 DEF IInv, Claim, SetLastHealthCheck, ObservedDue
  <2>5. MostUrgentFirst'
    BY <1>0, <1>6
       DEF IInv, Claim, SetLastHealthCheck, MostUrgentFirst, ObservedDue,
           InOrder
  <2>6. SnapshotCurrent' /\ ClaimedAreNotDue' /\ PauseHonoured' /\ InOrder'
    BY <1>0, <1>6
       DEF IInv, Claim, SetLastHealthCheck, SnapshotCurrent, ClaimedAreNotDue,
           PauseHonoured, ObservedPauses, InOrder
  <2> QED BY <1>0, <2>1, <2>2, <2>3, <2>4, <2>5, <2>6 DEF IInv
<1>7. ASSUME NEW w \in Workers, EndScan(w)
      PROVE  IInv'
  <2>1. ObservedPauses'
    BY <1>0, <1>7 DEF IInv, EndScan, ObservedPauses
  <2>2. SnapshotCurrent' /\ ClaimedAreNotDue' /\ OnceEachPerInterval' /\
        RepickOnlyByRacers' /\ PauseHonoured' /\ ObservedDue' /\ InOrder' /\
        MostUrgentFirst'
    BY <1>0, <1>7
       DEF IInv, EndScan, SnapshotCurrent, ClaimedAreNotDue,
           OnceEachPerInterval, RepickOnlyByRacers, PauseHonoured,
           ObservedPauses, ObservedDue, InOrder, MostUrgentFirst
  <2> QED BY <1>0, <2>1, <2>2 DEF IInv
<1>8. ASSUME NEW w \in Workers, Finish(w)
      PROVE  IInv'
  BY <1>0, <1>8
     DEF IInv, Finish, SnapshotCurrent, ClaimedAreNotDue, OnceEachPerInterval,
         RepickOnlyByRacers, ObservedPauses, PauseHonoured, ObservedDue,
         InOrder, MostUrgentFirst
<1>9. CASE RequestReload
  BY <1>0, <1>9
     DEF IInv, RequestReload, SnapshotCurrent, ClaimedAreNotDue,
         OnceEachPerInterval, RepickOnlyByRacers, ObservedPauses,
         PauseHonoured, ObservedDue, InOrder, MostUrgentFirst
<1>10. ASSUME NEW enabled \in SUBSET Chains, NEW prio \in SUBSET enabled,
             Reload(enabled, prio)
      PROVE  IInv'
  <2>1. ClaimedAreNotDue'
    BY <1>0, <1>10 DEF IInv, Reload, NoReader, ClaimedAreNotDue
  <2>2. SnapshotCurrent' /\ OnceEachPerInterval' /\ RepickOnlyByRacers' /\
        ObservedPauses' /\ PauseHonoured' /\ ObservedDue' /\ InOrder' /\
        MostUrgentFirst'
    BY <1>0, <1>10
       DEF IInv, Reload, NoReader, SnapshotCurrent, OnceEachPerInterval,
           ClaimedAreNotDue, RepickOnlyByRacers, ObservedPauses,
           PauseHonoured, ObservedDue, InOrder, MostUrgentFirst
  <2> QED BY <1>0, <2>1, <2>2 DEF IInv
<1>11. ASSUME NEW c \in Chains, PauseCommand(c)
      PROVE  IInv'
  BY <1>0, <1>11
     DEF IInv, PauseCommand, SnapshotCurrent, ClaimedAreNotDue,
         OnceEachPerInterval, RepickOnlyByRacers, ObservedPauses,
         PauseHonoured, ObservedDue, InOrder, MostUrgentFirst
<1>12. ASSUME NEW d \in 0..Forever, ApplyPause(d)
      PROVE  IInv'
  <2>1. ObservedPauses'
    BY <1>0, <1>12 DEF IInv, ApplyPause, PauseFor, ObservedPauses
  <2>2. PauseHonoured'
    BY <1>0, <1>12
       DEF IInv, ApplyPause, PauseFor, PauseHonoured, ObservedPauses
  <2>3. ObservedDue'
    BY <1>0, <1>12 DEF IInv, ApplyPause, PauseFor, ObservedDue
  <2>4. MostUrgentFirst'
    BY <1>0, <1>12
       DEF IInv, ApplyPause, PauseFor, MostUrgentFirst, ObservedDue, InOrder
  <2>5. SnapshotCurrent' /\ ClaimedAreNotDue' /\ OnceEachPerInterval' /\
        RepickOnlyByRacers' /\ InOrder'
    BY <1>0, <1>12
       DEF IInv, ApplyPause, PauseFor, SnapshotCurrent, ClaimedAreNotDue,
           OnceEachPerInterval, RepickOnlyByRacers, InOrder
  <2> QED BY <1>0, <2>1, <2>2, <2>3, <2>4, <2>5 DEF IInv
<1>13. CASE Tick
  <2>1. ClaimedAreNotDue'
    BY <1>0, <1>13 DEF IInv, Tick, Older, Shorter, ClaimedAreNotDue
  <2>2. OnceEachPerInterval'
    BY <1>0, <1>13
       DEF IInv, Tick, Older, Shorter, OnceEachPerInterval, ClaimedAreNotDue,
           SnapshotCurrent
  <2>3. RepickOnlyByRacers'
    BY <1>0, <1>13
       DEF IInv, Tick, Older, Shorter, RepickOnlyByRacers, SnapshotCurrent
  <2>4. ObservedPauses'
    BY <1>0, <1>13 DEF IInv, Tick, Older, Shorter, ObservedPauses
  <2>5. PauseHonoured'
    BY <1>0, <1>13
       DEF IInv, Tick, Older, Shorter, PauseHonoured, ObservedPauses
  <2>6. ObservedDue'
    BY <1>0, <1>13 DEF IInv, Tick, Older, Shorter, ObservedDue
  <2>7. SnapshotCurrent' /\ InOrder' /\ MostUrgentFirst'
    BY <1>0, <1>13
       DEF IInv, Tick, Older, Shorter, SnapshotCurrent, InOrder,
           MostUrgentFirst, ObservedDue
  <2> QED BY <1>0, <2>1, <2>2, <2>3, <2>4, <2>5, <2>6, <2>7 DEF IInv
<1>14. CASE UNCHANGED vars
  BY <1>0, <1>14
     DEF IInv, vars, SnapshotCurrent, ClaimedAreNotDue, OnceEachPerInterval,
         RepickOnlyByRacers, ObservedPauses, PauseHonoured, ObservedDue,
         InOrder, MostUrgentFirst
<1> QED
  BY <1>1, <1>2, <1>3, <1>4, <1>5, <1>6, <1>7, <1>8, <1>9, <1>10, <1>11,
     <1>12, <1>13, <1>14
     DEF Next, WorkerStep, ScanStep, ReloadStep, OperatorStep

\* The invariant holds in every state of every behaviour.
LEMMA Inductive == Spec => []IInv
BY InitInductive, StepInductive, PTL DEF Spec

\* The copy a scan works on is always current (chain_registry.go:52-57).
THEOREM SnapshotAlwaysCurrent == Spec => []SnapshotCurrent
BY Inductive, PTL DEF IInv

\* Each worker claims a chain at most once after the chain became due
\* (chain_registry.go:61-63).
THEOREM DoubleChecksAreBounded == Spec => []OnceEachPerInterval
BY Inductive, PTL DEF IInv

\* Only a worker that had tested the chain before it was claimed claims it again
\* (chain_registry.go:61-63).
THEOREM RepicksAreRaces == Spec => []RepickOnlyByRacers
BY Inductive, PTL DEF IInv

\* A pause in force since before the scan keeps the chain from being claimed
\* (chain_registry.go:58).
THEOREM PausesAreHonoured == Spec => []PauseHonoured
BY Inductive, PTL DEF IInv

\* No scan overlooks a due chain or prefers a less urgent one
\* (chain_registry.go:55-66).
THEOREM ScansAreExhaustive == Spec => []MostUrgentFirst
BY Inductive, PTL DEF IInv

-----------------------------------------------------------------------------
(***************************************************************************)
(* How long a due chain waits.  Time only passes while all workers are at  *)
(* a health check, so each of them accounts for the whole wait since the   *)
(* last reload: it ended a stale health check and then served other        *)
(* chains, each of them once.  That leaves no time for a second reload:    *)
(* the whole wait is at most one such span before a reload and one after.  *)
(***************************************************************************)
\* The chains that worker w claimed no longer than t ago, when by are the workers
\* that claimed a chain since it was due, and since the time from the last claim.
Served(by, since, w, t) == {d \in Chains : w \in by[d] /\ since[d] <= t}
ServedCount(by, since, w, t) == Cardinality(Served(by, since, w, t))

\* The longest time in which a worker finishes a stale health check and serves k
\* chains, up to where it is now: b into a health check if it is checking.
Within(checking, b, k) == IF checking THEN b + MaxCheck * k ELSE MaxCheck * (k + 1)

\* While a chain is due no worker wastes time: how long the chain has been due,
\* o, is accounted for by the chains the worker served in that time, and so is
\* the time since each of those was served.
Accounted(by, since, checking, b, w, o) ==
    /\ o <= Within(checking, b, ServedCount(by, since, w, o))
    /\ \A d \in Served(by, since, w, o) :
          since[d] <= Within(checking, b, ServedCount(by, since, w, since[d]) - 1)

\* The part of the wait of chain c that lies after the last reload.
Wait(c) == IF overdue[c] <= sinceReload THEN overdue[c] ELSE sinceReload

WaitAccounted ==
    \A c \in Chains : Claimable(c) =>
        \A w \in Workers : Accounted(claimedBy, age, pc[w] = "check", busy[w], w, Wait(c))

\* The part before it is no longer than the part after it may be.
WaitBeforeReload ==
    \A c \in Chains : overdue[c] <= Cardinality(Chains) * MaxCheck + sinceReload

Measures ==
    /\ busy \in [Workers -> 0..MaxCheck]
    /\ overdue \in [Chains -> Nat]
    /\ sinceReload \in 0..ReloadInterval
    /\ reloading => sinceReload = ReloadInterval
    /\ \A w \in Workers : pc[w] # "check" => busy[w] = 0
    /\ \A c \in Chains : ~Claimable(c) => overdue[c] = 0

TimedInv == IInv /\ Measures /\ WaitAccounted /\ WaitBeforeReload

-----------------------------------------------------------------------------
\* The steps of the timed scheduler are those of the scheduler.
LEMMA TimedStep == [TimedNext]_timedVars => [Next]_vars
BY DEF TimedNext, timedVars, TimedWorker, TimedRequest, TimedReload, TimedOperator, TimedTick, Next

LEMMA ServedType ==
    ASSUME NEW by, NEW since, NEW w, NEW t
    PROVE  /\ Served(by, since, w, t) \subseteq Chains /\ IsFiniteSet(Served(by, since, w, t))
           /\ ServedCount(by, since, w, t) \in Nat
           /\ Served(by, since, w, t) # {} => ServedCount(by, since, w, t) >= 1
<1> DEFINE S == Served(by, since, w, t)
<1>1. S \subseteq Chains
  BY DEF Served
<1>2. IsFiniteSet(S)
  BY <1>1, FleetAssumption, FS_Subset
<1>3. Cardinality(S) \in Nat /\ (S # {} => Cardinality(S) # 0)
  BY <1>2, FS_CardinalityType, FS_EmptySet
<1> HIDE DEF S
<1>4. S # {} => Cardinality(S) >= 1
  BY <1>3
<1> QED BY <1>1, <1>2, <1>3, <1>4 DEF S, ServedCount

LEMMA WithinType ==
    ASSUME NEW checking, NEW b \in Nat, NEW k \in Int
    PROVE  Within(checking, b, k) \in Int /\ (k >= 0 => Within(checking, b, k) >= 0)
<1>1. MaxCheck * k \in Int /\ MaxCheck * (k + 1) \in Int
  BY TimingAssumption
<1>2. k >= 0 => MaxCheck * k >= 0 /\ MaxCheck * (k + 1) >= 0
  BY TimingAssumption
<1> QED BY <1>1, <1>2 DEF Within

\* The more chains, the more time.
LEMMA WithinGrows ==
    ASSUME NEW checking, NEW b \in Nat, NEW j \in Int, NEW k \in Int, j <= k
    PROVE  Within(checking, b, j) <= Within(checking, b, k)
<1> DEFINE p == MaxCheck * j q == MaxCheck * k
           r == MaxCheck * (j + 1) s == MaxCheck * (k + 1)
<1>1. p <= q /\ r <= s
  BY TimingAssumption
<1>2. p \in Int /\ q \in Int /\ r \in Int /\ s \in Int
  BY TimingAssumption
<1> HIDE DEF p, q, r, s
<1>3. b + p <= b + q
  BY <1>1, <1>2
<1> QED BY <1>1, <1>3 DEF Within, p, q, r, s

\* A chain that has just become due has waited for nothing.
LEMMA AccountedAtFirst ==
    ASSUME NEW by, NEW since \in [Chains -> Nat], NEW checking, NEW b \in Nat, NEW w
    PROVE  Accounted(by, since, checking, b, w, 0)
<1>1. 0 <= Within(checking, b, ServedCount(by, since, w, 0))
  BY ServedType, WithinType
<1>2. ASSUME NEW d \in Served(by, since, w, 0)
      PROVE  since[d] <= Within(checking, b, ServedCount(by, since, w, since[d]) - 1)
  <2>1. d \in Chains /\ since[d] = 0 /\ Served(by, since, w, since[d]) # {}
    BY <1>2 DEF Served
  <2>2. ServedCount(by, since, w, since[d]) - 1 \in Nat
    BY <2>1, ServedType
  <2>3. 0 <= Within(checking, b, ServedCount(by, since, w, since[d]) - 1)
    BY <2>2, WithinType
  <2> QED BY <2>1, <2>3
<1> QED BY <1>1, <1>2 DEF Accounted

\* A step that takes no time, and in which the worker serves x chains more in
\* any span, where that many give it the time it has used.
LEMMA AccountedNow ==
    ASSUME NEW by, NEW since \in [Chains -> Nat], NEW by2, NEW since2 \in [Chains -> Nat],
           NEW checking, NEW b \in Nat, NEW checking2, NEW b2 \in Nat,
           NEW w, NEW o \in Nat, NEW x \in Nat,
           Accounted(by, since, checking, b, w, o),
           \A k \in Int : Within(checking, b, k) <= Within(checking2, b2, k + x),
           \A t \in Nat : ServedCount(by, since, w, t) + x <= ServedCount(by2, since2, w, t),
           \A d \in Served(by2, since2, w, o) :
               since2[d] = 0 \/ (d \in Served(by, since, w, o) /\ since2[d] = since[d])
    PROVE  Accounted(by2, since2, checking2, b2, w, o)
<1> DEFINE N(t) == ServedCount(by, since, w, t)
           N2(t) == ServedCount(by2, since2, w, t)
           W(k) == Within(checking, b, k)
           W2(k) == Within(checking2, b2, k)
<1>1. \A t \in Nat : N(t) \in Nat /\ N2(t) \in Nat /\ N(t) + x <= N2(t)
  BY ServedType
<1>2. \A k \in Int : W(k) \in Int /\ W2(k) \in Int /\ W(k) <= W2(k + x)
  BY WithinType
<1>3. \A j, k \in Int : j <= k => W2(j) <= W2(k)
  BY WithinGrows
<1>4. o <= W(N(o)) /\ \A d \in Served(by, since, w, o) : since[d] <= W(N(since[d]) - 1)
  BY DEF Accounted
<1>5. \A d \in Served(by2, since2, w, o) : d \in Chains /\ N2(since2[d]) >= 1
  <2> SUFFICES ASSUME NEW d \in Served(by2, since2, w, o) PROVE d \in Chains /\ N2(since2[d]) >= 1
    OBVIOUS
  <2>1. d \in Chains /\ d \in Served(by2, since2, w, since2[d])
    BY DEF Served
  <2> QED BY <2>1, ServedType
<1>5a. \A k \in Nat : W2(k) >= 0
  BY WithinType
<1> HIDE DEF N, N2, W, W2
<1>6. o <= W2(N2(o))
  <2>1. W(N(o)) <= W2(N(o) + x) /\ W2(N(o) + x) <= W2(N2(o))
    BY <1>1, <1>2, <1>3
  <2>2. W(N(o)) \in Int /\ W2(N(o) + x) \in Int /\ W2(N2(o)) \in Int
    BY <1>1, <1>2
  <2> QED BY <1>4, <2>1, <2>2
<1>7. ASSUME NEW d \in Served(by2, since2, w, o)
      PROVE  since2[d] <= W2(N2(since2[d]) - 1)
  <2>1. CASE since2[d] = 0
    <3>1. N2(since2[d]) - 1 \in Nat
      BY <1>1, <1>5, <2>1
    <3> QED BY <1>5a, <2>1, <3>1
  <2>2. CASE d \in Served(by, since, w, o) /\ since2[d] = since[d]
    <3> DEFINE t == since[d]
    <3>1. t \in Nat /\ t <= W(N(t) - 1)
      BY <1>4, <1>5, <2>2
    <3> HIDE DEF t
    <3>2. N(t) - 1 \in Int /\ (N(t) - 1) + x \in Int /\ N2(t) - 1 \in Int /\ (N(t) - 1) + x <= N2(t) - 1
      BY <1>1, <3>1
    <3> DEFINE j == N(t) - 1
    <3>3. W(j) <= W2(j + x) /\ W2(j + x) <= W2(N2(t) - 1)
      BY <1>2, <1>3, <3>2
    <3>4. W(j) \in Int /\ W2(j + x) \in Int /\ W2(N2(t) - 1) \in Int
      BY <1>2, <3>2
    <3>5. t <= W2(N2(t) - 1)
      BY <3>1, <3>3, <3>4
    <3> QED BY <2>2, <3>5 DEF t
  <2> QED BY <2>1, <2>2
<1> QED BY <1>6, <1>7 DEF Accounted, N2, W2

\* A unit of time, for the claims.
Elapses(by, since, by2, since2) ==
    /\ since \in [Chains -> 0..Interval] /\ since2 \in [Chains -> 0..Interval]
    /\ \A d \in Chains :
          /\ since[d] = Interval => by[d] = {}
          /\ since2[d] = Older(since[d])
          /\ by2[d] = IF since[d] + 1 < Interval THEN by[d] ELSE {}

\* A unit of time passes while the worker is at a health check and a chain waits:
\* nothing the worker served since then becomes due again.
LEMMA AccountedLater ==
    ASSUME EnoughTime, NEW by, NEW since, NEW by2, NEW since2, Elapses(by, since, by2, since2),
           NEW b \in Nat, b < MaxCheck, NEW w, NEW o \in Nat, NEW c \in Chains, by[c] = {},
           Accounted(by, since, TRUE, b, w, o)
    PROVE  Accounted(by2, since2, TRUE, b + 1, w, o + 1)
<1>0. /\ since \in [Chains -> 0..Interval] /\ since2 \in [Chains -> 0..Interval]
      /\ \A d \in Chains : since[d] = Interval => by[d] = {}
      /\ \A d \in Chains : since2[d] = Older(since[d])
      /\ \A d \in Chains : by2[d] = IF since[d] + 1 < Interval THEN by[d] ELSE {}
  BY DEF Elapses
<1> DEFINE n == Cardinality(Chains)
           S(t) == Served(by, since, w, t)
           S2(t) == Served(by2, since2, w, t)
           N(t) == ServedCount(by, since, w, t)
           N2(t) == ServedCount(by2, since2, w, t)
<1>1. n \in Nat
  BY FleetAssumption, FS_CardinalityType
<1>2. \A t \in Nat : N(t) \in Nat /\ N2(t) \in Nat /\ N(t) <= n - 1
  <2> SUFFICES ASSUME NEW t \in Nat PROVE N(t) \in Nat /\ N2(t) \in Nat /\ N(t) <= n - 1
    OBVIOUS
  <2>1. S(t) \in SUBSET (Chains \ {c})
    BY DEF Served
  <2>2. IsFiniteSet(Chains \ {c}) /\ Cardinality(Chains \ {c}) = n - 1
    BY FleetAssumption, FS_RemoveElement
  <2>3. Cardinality(S(t)) <= n - 1
    BY <2>1, <2>2, FS_Subset
  <2> QED BY <2>3, ServedType DEF ServedCount
<1>3. o <= b + MaxCheck * N(o) /\ \A d \in S(o) : since[d] <= b + MaxCheck * (N(since[d]) - 1)
  BY DEF Accounted, Within
<1>4. \A d \in Chains : since[d] \in Nat /\ since2[d] \in Nat
  BY <1>0, Bounds
<1>5. ASSUME NEW d \in S(o) PROVE since[d] + 1 < Interval
  <2>1. d \in Chains
    BY <1>5 DEF Served
  <2> DEFINE t == since[d]
  <2>2. t \in Nat /\ t <= b + MaxCheck * (N(t) - 1)
    BY <1>3, <1>4, <1>5, <2>1
  <2> HIDE DEF t, N
  <2>3. N(t) - 1 <= n - 2 /\ N(t) - 1 \in Int /\ n - 2 \in Int
    BY <1>1, <1>2, <2>2
  <2> DEFINE p == MaxCheck * (N(t) - 1) q == MaxCheck * (n - 2) r == (n - 1) * MaxCheck
  <2>4. p <= q /\ p \in Int /\ q \in Int
    BY <2>3, TimingAssumption
  <2>5. r = q + MaxCheck /\ r \in Int
    BY <1>1, TimingAssumption
  <2>6. r < Interval /\ t <= b + p
    BY <2>2 DEF EnoughTime
  <2> HIDE DEF p, q, r
  <2>7. t + 1 < Interval
    BY <2>2, <2>4, <2>5, <2>6, TimingAssumption, Bounds
  <2> QED BY <2>7 DEF t
<1>6. \A t \in Nat : t <= o => N(t) <= N2(t + 1)
  <2> SUFFICES ASSUME NEW t \in Nat, t <= o PROVE N(t) <= N2(t + 1)
    OBVIOUS
  <2>1. ASSUME NEW d \in S(t) PROVE d \in S2(t + 1)
    <3>1. d \in Chains /\ w \in by[d] /\ since[d] <= t
      BY <2>1 DEF Served
    <3>2. since[d] <= o
      BY <1>4, <3>1
    <3>3. d \in S(o)
      BY <3>1, <3>2 DEF Served
    <3>4. since[d] + 1 < Interval
      BY <1>5, <3>3
    <3>5. since2[d] = since[d] + 1
      BY <1>0, <1>4, <3>1, <3>4, Bounds DEF Older
    <3>6. since2[d] <= t + 1
      BY <1>4, <3>1, <3>5
    <3> QED BY <1>0, <3>1, <3>4, <3>6 DEF Served
  <2>2. S(t) \in SUBSET S2(t + 1) /\ IsFiniteSet(S2(t + 1))
    BY <2>1, ServedType
  <2> QED BY <2>2, FS_Subset DEF ServedCount
<1>7. ASSUME NEW d \in S2(o + 1) PROVE d \in S(o) /\ since2[d] = since[d] + 1
  <2>1. d \in Chains /\ w \in by2[d] /\ since2[d] <= o + 1
    BY <1>7 DEF Served
  <2>2. since[d] + 1 < Interval /\ w \in by[d]
    BY <1>0, <2>1
  <2>3. since2[d] = since[d] + 1
    BY <1>0, <1>4, <2>1, <2>2, Bounds DEF Older
  <2>4. since[d] <= o
    BY <1>4, <2>1, <2>3
  <2> QED BY <2>1, <2>2, <2>3, <2>4 DEF Served
<1> HIDE DEF N, N2, S, S2
<1>8. \A j, k \in Int : j <= k => /\ MaxCheck * j <= MaxCheck * k
                                  /\ MaxCheck * j \in Int /\ MaxCheck * k \in Int
  BY TimingAssumption
<1>9. o + 1 <= (b + 1) + MaxCheck * N2(o + 1)
  <2> DEFINE p == MaxCheck * N(o) q == MaxCheck * N2(o + 1)
  <2>1. p <= q /\ p \in Int /\ q \in Int
    BY <1>2, <1>6, <1>8
  <2>2. o <= b + p
    BY <1>3
  <2> HIDE DEF p, q
  <2>3. o + 1 <= (b + 1) + q
    BY <2>1, <2>2
  <2> QED BY <2>3 DEF q
<1>10. ASSUME NEW d \in S2(o + 1) PROVE since2[d] <= (b + 1) + MaxCheck * (N2(since2[d]) - 1)
  <2>1. d \in S(o) /\ since2[d] = since[d] + 1 /\ d \in Chains
    BY <1>7, <1>10 DEF S2, Served
  <2> DEFINE t == since[d]
  <2>2. t \in Nat /\ t <= o
    BY <1>4, <2>1 DEF S, Served
  <2>3. t <= b + MaxCheck * (N(t) - 1)
    BY <1>3, <2>1
  <2>4. N(t) - 1 <= N2(t + 1) - 1 /\ N(t) - 1 \in Int /\ N2(t + 1) - 1 \in Int
    BY <1>2, <1>6, <2>2
  <2> HIDE DEF t
  <2> DEFINE p == MaxCheck * (N(t) - 1) q == MaxCheck * (N2(t + 1) - 1)
  <2>5. p <= q /\ p \in Int /\ q \in Int /\ t <= b + p
    BY <1>8, <2>3, <2>4
  <2> HIDE DEF p, q
  <2>6. t + 1 <= (b + 1) + q
    BY <2>2, <2>5
  <2> QED BY <2>1, <2>6 DEF q, t
<1> QED BY <1>9, <1>10 DEF Accounted, Within, N2, S2

\* What the account says in the end: while chain c is not among the served, o is
\* at most a health check of every chain.
LEMMA WaitBound ==
    ASSUME NEW by, NEW since, NEW checking, NEW b \in Nat, b <= MaxCheck, NEW w, NEW o \in Nat,
           NEW c \in Chains, by[c] = {}, Accounted(by, since, checking, b, w, o)
    PROVE  o <= Cardinality(Chains) * MaxCheck
<1> DEFINE n == Cardinality(Chains)
           S == Served(by, since, w, o)
           k == Cardinality(S)
<1>1. n \in Nat
  BY FleetAssumption, FS_CardinalityType
<1>2. k \in Nat /\ k <= n - 1
  <2>1. S \in SUBSET (Chains \ {c})
    BY DEF Served
  <2>2. IsFiniteSet(Chains \ {c}) /\ Cardinality(Chains \ {c}) = n - 1
    BY FleetAssumption, FS_RemoveElement
  <2>3. k <= n - 1
    BY <2>1, <2>2, FS_Subset
  <2> QED BY <2>3, ServedType DEF ServedCount
<1>3. o <= Within(checking, b, k)
  BY DEF Accounted, ServedCount
<1> HIDE DEF n, k
<1> DEFINE p == MaxCheck * k q == MaxCheck * (k + 1) r == n * MaxCheck
<1>4. p \in Nat /\ q = p + MaxCheck /\ r \in Nat /\ q <= r
  <2>1. MaxCheck * (k + 1) <= MaxCheck * n
    BY <1>1, <1>2, TimingAssumption
  <2> QED BY <1>1, <1>2, <2>1, TimingAssumption
<1>5. o <= b + p \/ o <= q
  BY <1>3 DEF Within
<1> HIDE DEF p, q, r
<1>6. o <= r
  BY <1>4, <1>5, TimingAssumption
<1> QED BY <1>6 DEF r, n

LEMMA SpanType == Cardinality(Chains) * MaxCheck \in Nat
<1>1. Cardinality(Chains) \in Nat
  BY FleetAssumption, FS_CardinalityType
<1> QED BY <1>1, TimingAssumption

\* What has been accounted for is less than the time between two reloads.
LEMMA WaitInSpan ==
    ASSUME EnoughTime, TimedInv, NEW c \in Chains
    PROVE  /\ Wait(c) \in Nat /\ Wait(c) <= Cardinality(Chains) * MaxCheck
           /\ Wait(c) = overdue[c] \/ (Wait(c) = sinceReload /\ sinceReload < ReloadInterval)
<1>0. /\ overdue[c] \in Nat /\ sinceReload \in Nat /\ sinceReload <= ReloadInterval
      /\ ~Claimable(c) => overdue[c] = 0
  BY TimingAssumption DEF TimedInv, Measures
<1>1. Wait(c) \in Nat
  BY <1>0 DEF Wait
<1>2. Wait(c) <= Cardinality(Chains) * MaxCheck
  <2>1. CASE ~Claimable(c)
    <3>1. Wait(c) = 0
      BY <1>0, <2>1 DEF Wait
    <3> QED BY <3>1, SpanType
  <2>2. CASE Claimable(c)
    <3>1. PICK w \in Workers : Accounted(claimedBy, age, pc[w] = "check", busy[w], w, Wait(c))
      BY <2>2, FleetAssumption DEF TimedInv, WaitAccounted
    <3>2. claimedBy[c] = {}
      BY <2>2 DEF TimedInv, IInv, ClaimedAreNotDue, Claimable
    <3>3. busy[w] \in Nat /\ busy[w] <= MaxCheck
      BY TimingAssumption DEF TimedInv, Measures
    <3> QED BY <1>1, <3>1, <3>2, <3>3, WaitBound
  <2> QED BY <2>1, <2>2
<1> DEFINE q == Cardinality(Chains) * MaxCheck
<1>3. q \in Nat /\ q < ReloadInterval /\ Wait(c) <= q
  BY <1>2, SpanType DEF EnoughTime
<1> HIDE DEF q
<1>4. Wait(c) = overdue[c] \/ (Wait(c) = sinceReload /\ sinceReload < ReloadInterval)
  BY <1>0, <1>1, <1>3, TimingAssumption DEF Wait
<1> QED BY <1>1, <1>2, <1>4

\* A unit of time later, that part is a unit longer.
LEMMA WaitGrows ==
    ASSUME EnoughTime, TimedInv, NEW c \in Chains, TimedTick, Claimable(c), overdue[c] < MaxOverdue
    PROVE  Wait(c)' = Wait(c) + 1
<1>1. /\ overdue[c] \in Nat /\ sinceReload \in Nat /\ sinceReload <= ReloadInterval
      /\ ReloadInterval \in Nat
  BY TimingAssumption DEF TimedInv, Measures
<1>2. /\ overdue'[c] = overdue[c] + 1
      /\ sinceReload' = IF sinceReload < ReloadInterval THEN sinceReload + 1 ELSE sinceReload
  BY DEF TimedTick
<1>3. sinceReload = ReloadInterval => overdue[c] < ReloadInterval
  <2> DEFINE q == Cardinality(Chains) * MaxCheck
  <2>1. q \in Nat /\ q < ReloadInterval /\ Wait(c) <= q
    BY WaitInSpan, SpanType DEF EnoughTime
  <2> HIDE DEF q
  <2> QED BY <1>1, <2>1 DEF Wait
<1> QED BY <1>1, <1>2, <1>3 DEF Wait

\* The bound on the wait.
LEMMA InTime == EnoughTime /\ TimedInv => ClaimedInTime
<1> SUFFICES ASSUME EnoughTime, TimedInv, NEW c \in Chains
             PROVE  overdue[c] <= 2 * (Cardinality(Chains) * MaxCheck)
  BY DEF ClaimedInTime
<1> DEFINE q == Cardinality(Chains) * MaxCheck
<1>1. q \in Nat /\ Wait(c) <= q /\ (Wait(c) = overdue[c] \/ Wait(c) = sinceReload)
  BY WaitInSpan, SpanType
<1>2. overdue[c] \in Nat /\ sinceReload \in Nat /\ overdue[c] <= q + sinceReload
  BY TimingAssumption DEF TimedInv, Measures, WaitBeforeReload
<1> HIDE DEF q
<1>3. overdue[c] <= 2 * q
  BY <1>1, <1>2
<1> QED BY <1>3 DEF q

\* The measure of the wait does not saturate.
LEMMA NotSaturated ==
    ASSUME EnoughTime, TimedInv, NEW c \in Chains
    PROVE  overdue[c] < MaxOverdue
<1> DEFINE q == Cardinality(Chains) * MaxCheck
<1>1. q \in Nat /\ overdue[c] \in Nat /\ overdue[c] <= 2 * q
  BY InTime, SpanType DEF ClaimedInTime, TimedInv, Measures
<1> HIDE DEF q
<1>2. overdue[c] < 2 * q + 1
  BY <1>1
<1> QED BY <1>2 DEF q, MaxOverdue

LEMMA TimedInitInv == TimedInit => TimedInv
<1> SUFFICES ASSUME TimedInit PROVE TimedInv
  OBVIOUS
<1>1. IInv
  BY InitInductive DEF TimedInit
<1>2. Measures
  BY TimingAssumption DEF TimedInit, Init, Measures
<1>3. WaitAccounted
  BY DEF TimedInit, Init, WaitAccounted, Claimable
<1>4. WaitBeforeReload
  <2> DEFINE q == Cardinality(Chains) * MaxCheck
  <2>1. q \in Nat
    BY SpanType
  <2> HIDE DEF q
  <2>2. \A c \in Chains : overdue[c] <= q + sinceReload
    BY <2>1, TimingAssumption DEF TimedInit
  <2> QED BY <2>2 DEF q, WaitBeforeReload
<1> QED BY <1>1, <1>2, <1>3, <1>4 DEF TimedInv

\* A worker's step other than Claim, a request and a command leave the claims and
\* their times alone, and a worker's step leaves the other workers alone.
LEMMA QuietSteps ==
    ASSUME TypeOK, NEW v \in Workers, WorkerStep(v)
    PROVE  /\ \A w \in Workers : w # v => pc'[w] = pc[w]
           /\ Claim(v) \/ UNCHANGED <<age, claimedBy>>
           /\ pc[v] = "check" => Finish(v)
           /\ pc[v] # "check" => Claim(v) \/ pc'[v] # "check"
           /\ reloading' = reloading
<1> USE DEF TypeOK, observed, registry
<1>1. CASE StartScan(v) \/ NotDue(v) \/ Due(v) \/ EndScan(v) \/ Finish(v)
  BY <1>1 DEF StartScan, NotDue, Due, EndScan, Finish
<1>2. ASSUME NEW c \in Chains, SkipPaused(v, c) \/ NotPaused(v, c)
      PROVE  /\ \A w \in Workers : w # v => pc'[w] = pc[w]
             /\ UNCHANGED <<age, claimedBy>>
             /\ pc[v] # "check" /\ pc'[v] # "check" /\ reloading' = reloading
  BY <1>2 DEF SkipPaused, NotPaused
<1>3. CASE Claim(v)
  BY <1>3 DEF Claim
<1> QED BY <1>1, <1>2, <1>3 DEF WorkerStep, ScanStep

LEMMA QuietCommands ==
    RequestReload \/ OperatorStep =>
        UNCHANGED <<age, claimedBy, pc>> /\ (OperatorStep => reloading' = reloading)
BY DEF RequestReload, OperatorStep, PauseCommand, ApplyPause, observed

\* A step of the timed scheduler either takes no time or is a unit of time.
LEMMA TimedStepKinds ==
    [TimedNext]_timedVars =>
        \/ Restart /\ (\/ TimedReload \/ TimedRequest
                       \/ UNCHANGED sinceReload /\ ((\E v \in Workers : WorkerStep(v)) \/ OperatorStep))
        \/ TimedTick
        \/ UNCHANGED timedVars
BY DEF TimedNext, TimedWorker, TimedRequest, TimedReload, TimedOperator

LEMMA MeasuresNext == TimedInv /\ [TimedNext]_timedVars => Measures'
<1> SUFFICES ASSUME TimedInv, [TimedNext]_timedVars PROVE Measures'
  OBVIOUS
<1> USE TimingAssumption DEF TimedInv, Measures
<1>1. CASE Restart /\ (\/ TimedReload \/ TimedRequest
                       \/ UNCHANGED sinceReload /\ ((\E v \in Workers : WorkerStep(v)) \/ OperatorStep))
  <2>1. /\ busy' = [w \in Workers |-> IF pc'[w] = "check" THEN busy[w] ELSE 0]
        /\ overdue' = [c \in Chains |-> IF Claimable(c)' THEN overdue[c] ELSE 0]
    BY <1>1 DEF Restart
  <2>2. /\ busy' \in [Workers -> 0..MaxCheck] /\ overdue' \in [Chains -> Nat]
        /\ \A w \in Workers : pc'[w] # "check" => busy'[w] = 0
        /\ \A c \in Chains : ~Claimable(c)' => overdue'[c] = 0
    BY <2>1
  <2>3. CASE TimedReload
    <3>1. sinceReload' = 0 /\ ~reloading'
      BY <2>3 DEF TimedReload, ReloadStep, Reload
    <3> QED BY <2>2, <3>1
  <2>4. CASE TimedRequest
    <3>1. sinceReload' = sinceReload /\ sinceReload = ReloadInterval
      BY <2>4 DEF TimedRequest
    <3> QED BY <2>2, <3>1
  <2>5. CASE UNCHANGED sinceReload /\ ((\E v \in Workers : WorkerStep(v)) \/ OperatorStep)
    <3>1. reloading' = reloading
      BY <2>5, QuietSteps, QuietCommands DEF IInv
    <3> QED BY <2>2, <2>5, <3>1
  <2> QED BY <1>1, <2>3, <2>4, <2>5
<1>3. CASE TimedTick
  <2>1. busy' = [w \in Workers |-> IF pc[w] = "check" THEN busy[w] + 1 ELSE 0] /\ pc' = pc
    BY <1>3 DEF TimedTick, Tick
  <2>2. overdue' = [c \in Chains |-> IF Claimable(c) /\ overdue[c] < MaxOverdue
                                    THEN overdue[c] + 1 ELSE overdue[c]]
    BY <1>3 DEF TimedTick
  <2>3. ASSUME NEW w \in Workers, pc[w] = "check" PROVE busy[w] < MaxCheck
    BY <1>3, <2>3 DEF TimedTick
  <2>4. ASSUME NEW c \in Chains, Claimable(c) PROVE Claimable(c)'
    <3>1. age'[c] = Interval /\ pauseLeft'[c] = 0 /\ registered' = registered
      BY <1>3, <2>4, Bounds DEF TimedTick, Tick, Claimable, Older, Shorter, registry
    <3> QED BY <2>4, <3>1 DEF Claimable
  <2>5. busy' \in [Workers -> 0..MaxCheck] /\ \A w \in Workers : pc'[w] # "check" => busy'[w] = 0
    BY <2>1, <2>3
  <2>6. overdue' \in [Chains -> Nat] /\ \A c \in Chains : ~Claimable(c)' => overdue'[c] = 0
    BY <2>2, <2>4
  <2>7. sinceReload' \in 0..ReloadInterval /\ ~reloading'
    BY <1>3 DEF TimedTick, Tick
  <2> QED BY <2>5, <2>6, <2>7
<1>4. CASE UNCHANGED timedVars
  BY <1>4 DEF timedVars, vars, Claimable, registry
<1> QED BY <1>1, <1>3, <1>4, TimedStepKinds

LEMMA WaitNext ==
    EnoughTime /\ TimedInv /\ [TimedNext]_timedVars => WaitAccounted'
<1> SUFFICES ASSUME EnoughTime, TimedInv, [TimedNext]_timedVars,
                    NEW c \in Chains, Claimable(c)', NEW w \in Workers
             PROVE  Accounted(claimedBy', age', pc'[w] = "check", busy'[w], w, Wait(c)')
  BY DEF WaitAccounted
<1>0. IInv /\ IInv' /\ Measures /\ Measures' /\ TypeOK /\ TypeOK'
  BY StepInductive, TimedStep, MeasuresNext DEF TimedInv, IInv
<1>1. /\ age \in [Chains -> 0..Interval] /\ age' \in [Chains -> 0..Interval]
      /\ age \in [Chains -> Nat] /\ age' \in [Chains -> Nat]
  BY <1>0, Bounds DEF TypeOK
<1>2. /\ busy[w] \in Nat /\ busy'[w] \in Nat /\ Wait(c) \in Nat
      /\ (pc[w] # "check" => busy[w] = 0) /\ (busy[w] <= MaxCheck)
      /\ overdue[c] \in Nat /\ sinceReload \in Nat /\ (overdue[c] = 0 => Wait(c) = 0)
  BY <1>0, TimingAssumption DEF Measures, Wait
<1>3. CASE Wait(c)' = 0
  BY <1>1, <1>2, <1>3, AccountedAtFirst
<1>4. Claimable(c) => Accounted(claimedBy, age, pc[w] = "check", busy[w], w, Wait(c))
  BY DEF TimedInv, WaitAccounted
<1>5. ASSUME Restart, Wait(c)' # 0, UNCHANGED sinceReload,
             (\E v \in Workers : WorkerStep(v)) \/ RequestReload \/ OperatorStep
      PROVE  Accounted(claimedBy', age', pc'[w] = "check", busy'[w], w, Wait(c)')
  <2>1. Wait(c)' = Wait(c) /\ busy'[w] = IF pc'[w] = "check" THEN busy[w] ELSE 0
    BY <1>5 DEF Restart, Wait
  <2>2. Accounted(claimedBy, age, pc[w] = "check", busy[w], w, Wait(c))
    BY <1>0, <1>2, <1>4, <1>5, <2>1 DEF Measures
  <2>3. CASE UNCHANGED <<age, claimedBy, pc>>
    BY <1>2, <2>1, <2>2, <2>3
  <2>4. ASSUME NEW v \in Workers, WorkerStep(v), ~Claim(v)
        PROVE  Accounted(claimedBy', age', pc'[w] = "check", busy'[w], w, Wait(c)')
    <3>1. UNCHANGED <<age, claimedBy>> /\ (v # w => pc'[w] = pc[w])
      BY <1>0, <2>4, QuietSteps
    <3>2. CASE pc[w] # "check" /\ pc'[w] # "check"
      BY <1>2, <2>1, <2>2, <3>1, <3>2
    <3>3. CASE pc'[w] = pc[w]
      BY <1>2, <2>1, <2>2, <3>1, <3>3
    <3>4. CASE pc[w] = "check" /\ pc'[w] # "check"
      <4>1. \A k \in Int : Within(TRUE, busy[w], k) <= Within(FALSE, busy'[w], k + 0)
        <5> SUFFICES ASSUME NEW k \in Int PROVE busy[w] + MaxCheck * k <= MaxCheck * (k + 0 + 1)
          BY DEF Within
        <5> DEFINE p == MaxCheck * k q == MaxCheck * (k + 0 + 1)
        <5>1. p \in Int /\ q = p + MaxCheck
          BY TimingAssumption
        <5> HIDE DEF p, q
        <5>2. busy[w] + p <= q
          BY <1>2, <5>1, TimingAssumption
        <5> QED BY <5>2 DEF p, q
      <4>2. \A t \in Nat : ServedCount(claimedBy, age, w, t) + 0 <= ServedCount(claimedBy', age', w, t)
        BY <3>1, ServedType
      <4>3. \A d \in Served(claimedBy', age', w, Wait(c)) :
               age'[d] = 0 \/ (d \in Served(claimedBy, age, w, Wait(c)) /\ age'[d] = age[d])
        BY <3>1
      <4>4. Accounted(claimedBy, age, TRUE, busy[w], w, Wait(c))
        BY <2>2, <3>4
      <4>5. Accounted(claimedBy', age', FALSE, busy'[w], w, Wait(c))
        BY <1>1, <1>2, <4>1, <4>2, <4>3, <4>4, AccountedNow
      <4> QED BY <2>1, <3>4, <4>5
    <3> QED BY <1>0, <2>4, <3>1, <3>2, <3>3, <3>4, QuietSteps
  <2>5. ASSUME NEW v \in Workers, Claim(v)
        PROVE  Accounted(claimedBy', age', pc'[w] = "check", busy'[w], w, Wait(c)')
    <3> DEFINE e == job[v]
               x == IF v = w THEN 1 ELSE 0
    <3>1. /\ e \in Chains /\ v \notin claimedBy[e] /\ pc[v] = "claim"
          /\ pc' = [pc EXCEPT ![v] = "check"]
      BY <1>0, <2>5 DEF IInv, TypeOK, Claim, OnceEachPerInterval, SnapshotCurrent, Holding
    <3>2. /\ age' = [age EXCEPT ![e] = 0]
          /\ claimedBy' = [claimedBy EXCEPT ![e] = @ \cup {v}]
      BY <2>5 DEF Claim, SetLastHealthCheck
    <3> HIDE DEF e
    <3>3. /\ age'[e] = 0 /\ claimedBy'[e] = claimedBy[e] \cup {v}
          /\ \A d \in Chains : d # e => age'[d] = age[d] /\ claimedBy'[d] = claimedBy[d]
      BY <1>0, <3>1, <3>2 DEF TypeOK
    <3>4. \A t \in Nat : ServedCount(claimedBy, age, w, t) + x <= ServedCount(claimedBy', age', w, t)
      <4> SUFFICES ASSUME NEW t \in Nat
                   PROVE  ServedCount(claimedBy, age, w, t) + x <= ServedCount(claimedBy', age', w, t)
        OBVIOUS
      <4> DEFINE S == Served(claimedBy, age, w, t) S2 == Served(claimedBy', age', w, t)
      <4>1. S \subseteq S2 /\ IsFiniteSet(S) /\ IsFiniteSet(S2)
            /\ Cardinality(S) \in Nat /\ Cardinality(S2) \in Nat
        <5>1. S \subseteq S2
          BY <1>1, <3>3 DEF Served
        <5> QED BY <5>1, ServedType DEF ServedCount
      <4>2. v = w => e \in S2 /\ e \notin S
        BY <3>1, <3>3 DEF Served
      <4> HIDE DEF S, S2
      <4>3. CASE v # w
        <5>1. Cardinality(S) <= Cardinality(S2)
          BY <4>1, FS_Subset
        <5> QED BY <4>1, <4>3, <5>1 DEF ServedCount, S, S2
      <4>4. CASE v = w
        <5>1. S \cup {e} \in SUBSET S2 /\ Cardinality(S \cup {e}) = Cardinality(S) + 1
          BY <4>1, <4>2, <4>4, FS_AddElement
        <5>2. Cardinality(S) + 1 <= Cardinality(S2)
          BY <4>1, <5>1, FS_Subset
        <5> QED BY <4>4, <5>2 DEF ServedCount, S, S2
      <4> QED BY <4>3, <4>4
    <3>5. \A d \in Served(claimedBy', age', w, Wait(c)) :
             age'[d] = 0 \/ (d \in Served(claimedBy, age, w, Wait(c)) /\ age'[d] = age[d])
      BY <3>3 DEF Served
    <3>6. \A k \in Int : Within(pc[w] = "check", busy[w], k) <= Within(pc'[w] = "check", busy'[w], k + x)
      <4>1. CASE v = w
        <5>1. pc[w] # "check" /\ pc'[w] = "check" /\ busy'[w] = 0
          BY <1>0, <1>2, <2>1, <3>1, <4>1 DEF TypeOK
        <5> SUFFICES ASSUME NEW k \in Int PROVE MaxCheck * (k + 1) <= 0 + MaxCheck * (k + 1)
          BY <4>1, <5>1 DEF Within
        <5> QED BY TimingAssumption
      <4>2. CASE v # w
        <5>1. pc'[w] = pc[w] /\ busy'[w] = busy[w]
          BY <1>0, <1>2, <2>1, <3>1, <4>2 DEF TypeOK
        <5> SUFFICES ASSUME NEW k \in Int
                     PROVE Within(pc[w] = "check", busy[w], k) <= Within(pc[w] = "check", busy[w], k + 0)
          BY <4>2, <5>1
        <5> QED BY <1>2, WithinGrows
      <4> QED BY <4>1, <4>2
    <3>7. x \in Nat
      OBVIOUS
    <3> HIDE DEF x
    <3>8. Accounted(claimedBy', age', pc'[w] = "check", busy'[w], w, Wait(c))
      BY <1>1, <1>2, <2>2, <3>4, <3>5, <3>6, <3>7, AccountedNow
    <3> QED BY <2>1, <3>8
  <2> QED BY <1>5, <2>3, <2>4, <2>5, QuietCommands
<1>6. CASE TimedReload
  <2>1. sinceReload' = 0 /\ overdue'[c] \in Nat
    BY <1>0, <1>6 DEF TimedReload, Measures
  <2>2. Wait(c)' = 0
    BY <2>1 DEF Wait
  <2> QED BY <1>3, <2>2
<1>7. CASE TimedTick
  <2>1. /\ \A d \in Chains : age'[d] = Older(age[d])
        /\ \A d \in Chains : claimedBy'[d] = IF age[d] + 1 < Interval THEN claimedBy[d] ELSE {}
        /\ pc' = pc /\ registered' = registered
        /\ pauseLeft' = [d \in Chains |-> Shorter(pauseLeft[d])]
    BY <1>7 DEF TimedTick, Tick, registry
  <2>2. busy'[w] = IF pc[w] = "check" THEN busy[w] + 1 ELSE 0
    BY <1>7 DEF TimedTick
  <2>4. CASE ~Claimable(c)
    <3>1. overdue'[c] = 0 /\ sinceReload' \in Nat
      BY <1>0, <1>7, <2>4, TimingAssumption DEF Measures, TimedTick
    <3> QED BY <1>3, <3>1 DEF Wait
  <2>5. CASE Claimable(c)
    <3>1. pc[w] = "check" /\ busy[w] < MaxCheck
      BY <1>7, <2>5 DEF TimedTick
    <3>2. claimedBy[c] = {} /\ \A d \in Chains : age[d] = Interval => claimedBy[d] = {}
      BY <1>0, <2>5 DEF IInv, ClaimedAreNotDue, Claimable
    <3>3. Accounted(claimedBy, age, TRUE, busy[w], w, Wait(c))
      BY <1>4, <2>5, <3>1
    <3>4. Accounted(claimedBy', age', TRUE, busy[w] + 1, w, Wait(c) + 1)
      <4>1. /\ \A d \in Chains : age'[d] = Older(age[d])
            /\ \A d \in Chains : claimedBy'[d] = IF age[d] + 1 < Interval THEN claimedBy[d] ELSE {}
        BY <2>1
      <4> DEFINE b == busy[w] o == Wait(c) since == age since2 == age'
                 by == claimedBy by2 == claimedBy'
      <4>2. b \in Nat /\ b < MaxCheck /\ o \in Nat /\ by[c] = {} /\ Accounted(by, since, TRUE, b, w, o)
        BY <1>2, <3>1, <3>2, <3>3
      <4>3. Elapses(by, since, by2, since2)
        BY <1>1, <3>2, <4>1 DEF Elapses
      <4> HIDE DEF b, o, since, since2, by, by2
      <4>4. Accounted(by2, since2, TRUE, b + 1, w, o + 1)
        BY <4>2, <4>3, AccountedLater
      <4> QED BY <4>4 DEF b, o, since2, by2
    <3>5. Wait(c)' = Wait(c) + 1
      BY <1>7, <2>5, WaitGrows, NotSaturated
    <3> QED BY <2>1, <2>2, <2>5, <3>1, <3>4, <3>5
  <2> QED BY <2>4, <2>5
<1>8. CASE UNCHANGED timedVars
  <2>1. /\ UNCHANGED <<age, claimedBy, pc>>
        /\ busy' = busy /\ Wait(c)' = Wait(c) /\ Claimable(c)
    BY <1>8 DEF timedVars, vars, Claimable, registry, Wait
  <2> QED BY <1>4, <2>1
<1> QED
  <2>1. CASE TimedRequest
    <3>1. Restart /\ UNCHANGED sinceReload /\ RequestReload
      BY <2>1 DEF TimedRequest
    <3> QED BY <1>3, <1>5, <3>1
  <2> QED BY <1>3, <1>5, <1>6, <1>7, <1>8, <2>1, TimedStepKinds

\* A reload comes when a whole interval has passed since the last one: what was
\* accounted for then was the whole wait.
LEMMA WaitBeforeNext ==
    EnoughTime /\ TimedInv /\ [TimedNext]_timedVars => WaitBeforeReload'
<1> SUFFICES ASSUME EnoughTime, TimedInv, [TimedNext]_timedVars, NEW c \in Chains
             PROVE  overdue'[c] <= Cardinality(Chains) * MaxCheck + sinceReload'
  BY DEF WaitBeforeReload
<1> DEFINE q == Cardinality(Chains) * MaxCheck
<1>1. /\ q \in Nat /\ overdue[c] \in Nat /\ sinceReload \in Nat
      /\ sinceReload <= ReloadInterval /\ ReloadInterval \in Nat
      /\ overdue[c] <= q + sinceReload
      /\ Wait(c) \in Nat /\ Wait(c) <= q
      /\ Wait(c) = overdue[c] \/ (Wait(c) = sinceReload /\ sinceReload < ReloadInterval)
  BY SpanType, WaitInSpan, TimingAssumption DEF TimedInv, Measures, WaitBeforeReload
<1> HIDE DEF q
<1>2. Restart => overdue'[c] = overdue[c] \/ overdue'[c] = 0
  BY DEF Restart
<1>3. CASE Restart /\ UNCHANGED sinceReload
  BY <1>1, <1>2, <1>3 DEF q
<1>4. CASE TimedReload
  <2>1. sinceReload = ReloadInterval /\ sinceReload' = 0 /\ Restart
    BY <1>4 DEF TimedReload, ReloadStep, Reload, TimedInv, Measures
  <2>2. overdue[c] <= q
    BY <1>1, <2>1
  <2> QED BY <1>1, <1>2, <2>1, <2>2 DEF q
<1>5. CASE TimedTick
  <2>1. /\ overdue'[c] = overdue[c] \/ overdue'[c] = overdue[c] + 1
        /\ sinceReload' = IF sinceReload < ReloadInterval THEN sinceReload + 1 ELSE sinceReload
    BY <1>5 DEF TimedTick
  <2>2. CASE sinceReload < ReloadInterval
    <3>1. overdue'[c] <= q + sinceReload'
      BY <1>1, <2>1, <2>2
    <3> QED BY <3>1 DEF q
  <2>3. CASE sinceReload = ReloadInterval
    <3>1. overdue[c] <= q /\ ReloadInterval >= 1
      BY <1>1, <2>3, TimingAssumption
    <3>2. overdue'[c] <= q + sinceReload'
      BY <1>1, <2>1, <2>3, <3>1
    <3> QED BY <3>2 DEF q
  <2> QED BY <1>1, <2>2, <2>3
<1>6. CASE UNCHANGED timedVars
  BY <1>1, <1>6 DEF q, timedVars
<1>7. TimedRequest => UNCHANGED sinceReload
  BY DEF TimedRequest
<1> QED BY <1>3, <1>4, <1>5, <1>6, <1>7, TimedStepKinds

LEMMA TimedNextInv ==
    EnoughTime /\ TimedInv /\ [TimedNext]_timedVars => TimedInv'
BY MeasuresNext, WaitNext, WaitBeforeNext, StepInductive, TimedStep DEF TimedInv

\* The steps of the timed scheduler are steps of the scheduler: what is proved
\* of every behaviour of ChainScheduler holds with the timing, too.
THEOREM TimedIsScheduler == TimedSpec => Spec
<1>1. TimedInit => Init
  BY DEF TimedInit
<1> QED BY <1>1, TimedStep, PTL DEF TimedSpec, Spec

\* Whatever the number of workers and chains, and however often the chains are
\* reloaded: as long as the health checks of the other chains fit in the interval
\* and those of all chains between two reloads, no due chain waits longer than two
\* health checks of every chain (chain_registry.go:57-66, start.go:110-165).
THEOREM DueChainsAreClaimedInTime ==
    ASSUME EnoughTime
    PROVE  TimedSpec => []ClaimedInTime
<1>1. TimedInv /\ [TimedNext]_timedVars => TimedInv'
  BY TimedNextInv
<1> QED BY <1>1, TimedInitInv, InTime, PTL DEF TimedSpec
=============================================================================
