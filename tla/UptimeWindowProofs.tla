------------------------- MODULE UptimeWindowProofs ------------------------
(***************************************************************************)
(* The properties of UptimeWindow for every window, every decimal          *)
(* precision and every choice of the durations.                            *)
(***************************************************************************)
EXTENDS UptimeWindow, TLAPS

(***************************************************************************)
(* Arithmetic of the thresholds.                                           *)
(***************************************************************************)
LEMMA MustSignType ==
    ASSUME NEW p \in Params
    PROVE  MustSign(p) \in Nat
<1>1. p.min \in Nat /\ p.window \in Nat /\ One \in Nat \ {0}
  BY OneAssumption DEF Params
<1>2. p.min * p.window \in Nat
  BY <1>1
<1>3. \A n \in Nat : (n + One - 1) \div One \in Nat
  BY <1>1, SMT
<1>4. QED
  BY <1>2, <1>3 DEF MustSign

\* The allowed blocks are at most the window.
LEMMA ExcessType ==
    ASSUME NEW p \in Params
    PROVE  Excess(p) \in Int /\ Excess(p) <= p.window
<1>1. MustSign(p) \in Nat
  BY MustSignType
<1>2. p.window \in Nat
  BY DEF Params
<1>3. QED
  BY <1>1, <1>2 DEF Excess

\* A counter past a threshold stays past it when it grows.
LEMMA RatioGrows ==
    ASSUME NEW m \in Nat, NEW n \in Nat, m <= n, NEW e \in Int, NEW percent \in Nat,
           RatioExceeds(m, e, percent)
    PROVE  RatioExceeds(n, e, percent)
<1>1. percent * e \in Int
  OBVIOUS
<1>2. 100 * m <= 100 * n
  OBVIOUS
<1>3. QED
  BY <1>1, <1>2 DEF RatioExceeds

LEMMA UptimeFalls ==
    ASSUME NEW m \in Nat, NEW n \in Nat, m <= n, NEW p \in Params, NEW percent \in 0..100,
           UptimeAtMost(m, p, percent)
    PROVE  UptimeAtMost(n, p, percent)
<1>1. (100 - percent) * p.window \in Int
  BY DEF Params
<1>2. 100 * m <= 100 * n
  OBVIOUS
<1>3. QED
  BY <1>1, <1>2 DEF UptimeAtMost

(***************************************************************************)
(* The alerts of both kinds grow with the counter.                         *)
(***************************************************************************)
LEMMA Durations ==
    /\ M15 \in Nat /\ M30 \in Nat /\ H1 \in Nat /\ H2 \in Nat
    /\ M15 <= M30 /\ M30 <= H1 /\ H1 <= H2
    /\ M15 <= H1 /\ M15 <= H2
BY DurationsAssumption

LEMMA MissedAlertsGrow ==
    ASSUME NEW m \in Nat, NEW n \in Nat, m <= n, NEW p \in Params,
           NEW b \in MissedAlerts(m, p)
    PROVE  \E a \in MissedAlerts(n, p) : AsUrgent(a, b)
<1> DEFINE e == Excess(p)
<1>1. e \in Int
  BY ExcessType
<1> HIDE DEF e
<1>2. CASE RatioExceeds(n, e, 50)
  <2> DEFINE a == Alert("missedBlocks", M15, TRUE)
  <2>1. a \in MissedAlerts(n, p)
    BY <1>2 DEF MissedAlerts, e
  <2>2. b \in {a, Alert("missedBlocks", H2, FALSE)}
    BY DEF MissedAlerts
  <2>3. AsUrgent(a, b)
    BY <2>2, Durations DEF AsUrgent, Alert
  <2>4. QED
    BY <2>1, <2>3
<1>3. CASE ~RatioExceeds(n, e, 50)
  <2>1. ~RatioExceeds(m, e, 50)
    BY <1>1, <1>3, RatioGrows
  <2>2. RatioExceeds(m, e, 10) /\ b = Alert("missedBlocks", H2, FALSE)
    BY <2>1 DEF MissedAlerts, e
  <2>3. RatioExceeds(n, e, 10)
    BY <1>1, <2>2, RatioGrows
  <2>4. b \in MissedAlerts(n, p)
    BY <1>3, <2>2, <2>3 DEF MissedAlerts, e
  <2>5. AsUrgent(b, b)
    BY <2>2, Durations DEF AsUrgent, Alert
  <2>6. QED
    BY <2>4, <2>5
<1>4. QED
  BY <1>2, <1>3

LEMMA LowUptimeAlertsGrow ==
    ASSUME NEW m \in Nat, NEW n \in Nat, m <= n, NEW p \in Params,
           NEW b \in LowUptimeAlerts(m, p)
    PROVE  \E a \in LowUptimeAlerts(n, p) : AsUrgent(a, b)
<1> DEFINE Limit(k) == IF UptimeAtMost(k, p, 65) THEN M15
                       ELSE IF UptimeAtMost(k, p, 75) THEN M30 ELSE H1
           Low(k)   == Alert("lowUptime", Limit(k), UptimeAtMost(k, p, 70))
<1>1. UptimeAtMost(m, p, 90) /\ b = Low(m)
  BY DEF LowUptimeAlerts
<1>2. UptimeAtMost(n, p, 90)
  BY <1>1, UptimeFalls
<1>3. Low(n) \in LowUptimeAlerts(n, p)
  BY <1>2 DEF LowUptimeAlerts
<1>4. /\ UptimeAtMost(m, p, 65) => UptimeAtMost(n, p, 65)
      /\ UptimeAtMost(m, p, 75) => UptimeAtMost(n, p, 75)
      /\ UptimeAtMost(m, p, 70) => UptimeAtMost(n, p, 70)
  BY UptimeFalls
<1>5. Limit(n) <= Limit(m)
  BY <1>4, Durations
<1>6. AsUrgent(Low(n), Low(m))
  BY <1>4, <1>5 DEF AsUrgent, Alert
<1>7. QED
  BY <1>1, <1>3, <1>6

LEMMA BlockAlertsGrow ==
    ASSUME NEW m \in Nat, NEW n \in Nat, m <= n, NEW p \in Params,
           NEW b \in BlockAlerts(m, p)
    PROVE  \E a \in BlockAlerts(n, p) : AsUrgent(a, b)
<1>1. m > 0 /\ Applies(p) /\ b \in MissedAlerts(m, p) \cup LowUptimeAlerts(m, p)
  BY DEF BlockAlerts
<1>2. n > 0
  BY <1>1
<1>3. BlockAlerts(n, p) = MissedAlerts(n, p) \cup LowUptimeAlerts(n, p)
  BY <1>1, <1>2 DEF BlockAlerts
<1>4. QED
  BY <1>1, <1>3, MissedAlertsGrow, LowUptimeAlertsGrow

(***************************************************************************)
(* Missing more blocks never makes the alerts less urgent.                 *)
(***************************************************************************)
LEMMA GovernedType ==
    ASSUME NEW p \in Governed
    PROVE  p \in Params /\ p.window \in Nat /\ 0..p.window \subseteq Nat
BY WindowAssumption DEF Governed, Params

LEMMA ParamsStep ==
    ASSUME [Next]_vars
    PROVE  params' = params \/ params' \in ParamsChoices
<1>1. World => params' = params \/ params' \in ParamsChoices
  BY DEF World, ReloadUsers, PauseValidator, ChangeChain
<1>2. Tick => params' = params
  BY DEF Tick, env
<1>3. ASSUME NEW w \in Workers, Round(w) PROVE params' = params
  <2>1. UNCHANGED env
    BY <1>3 DEF Round, StartRound, PickRpc, Fail, FetchValidators, FetchSigningInfos, FetchParams,
                CheckStep, SkipPaused, NotFound, CheckValidator, CheckOptionalRPC, EndValidators,
                CheckManagedRPC
  <2> QED BY <2>1 DEF env
<1>4. UNCHANGED vars => params' = params
  BY DEF vars, env
<1> QED BY <1>1, <1>2, <1>3, <1>4 DEF Next

\* The parameters in force are among those that governance may set.
LEMMA InForce == Spec => [](params \in Governed)
<1>1. Init => params \in Governed
  BY WindowAssumption DEF Init
<1>2. params \in Governed /\ [Next]_vars => (params \in Governed)'
  <2> SUFFICES ASSUME params \in Governed, [Next]_vars PROVE params' \in Governed
    OBVIOUS
  <2>1. params' = params \/ params' \in ParamsChoices
    BY ParamsStep
  <2> QED BY <2>1, WindowAssumption
<1> QED BY <1>1, <1>2, PTL DEF Spec

LEMMA UrgencyGrows == Graded
<1>1. SUFFICES ASSUME NEW p \in Governed, NEW m \in 0..p.window, NEW n \in 0..p.window, m <= n,
                      NEW b \in BlockAlerts(m, p)
               PROVE  \E a \in BlockAlerts(n, p) : AsUrgent(a, b)
  BY DEF Graded
<1>2. p \in Params /\ m \in Nat /\ n \in Nat
  BY GovernedType
<1>3. QED
  BY <1>1, <1>2, BlockAlertsGrow

\* For all parameters and for those in force, missing more blocks never makes
\* an alert less urgent (worker.go:363-436).
THEOREM MoreMissedMoreUrgent == Spec => []WorseIsMoreUrgent
<1>1. params \in Governed => WorseIsMoreUrgent
  BY UrgencyGrows DEF WorseIsMoreUrgent
<1> QED BY <1>1, InForce, PTL

(***************************************************************************)
(* A validator is not jailed for downtime without a FATAL alert.           *)
(***************************************************************************)
LEMMA FatalAlert ==
    ASSUME NEW m \in Nat, m > 0, NEW p \in Params, m >= Excess(p), Applies(p)
    PROVE  Alert("missedBlocks", M15, TRUE) \in BlockAlerts(m, p)
<1>1. Excess(p) \in Int
  BY ExcessType
<1>2. RatioExceeds(m, Excess(p), 50)
  BY <1>1 DEF RatioExceeds
<1>3. QED
  BY <1>2 DEF BlockAlerts, MissedAlerts

LEMMA FatalIsTold == WarnsOfJail
<1>1. SUFFICES ASSUME NEW p \in Governed, NEW missed \in 1..p.window,
                      Applies(p), missed >= Excess(p)
               PROVE  \E a \in BlockAlerts(missed, p) : a.case = "missedBlocks" /\ a.fatal
  BY DEF WarnsOfJail
<1>2. p \in Params /\ missed \in Nat /\ missed > 0
  BY GovernedType
<1>3. Alert("missedBlocks", M15, TRUE) \in BlockAlerts(missed, p)
  BY <1>1, <1>2, FatalAlert
<1>4. /\ Alert("missedBlocks", M15, TRUE).case = "missedBlocks"
      /\ Alert("missedBlocks", M15, TRUE).fatal
  BY DEF Alert
<1>5. QED
  BY <1>3, <1>4

\* For all parameters and for those in force, a validator that missed all the
\* blocks it may is under a FATAL alert (worker.go:353-386).
THEOREM NoJailWithoutFatal == Spec => []FatalBeforeJail
<1>1. params \in Governed => FatalBeforeJail
  BY FatalIsTold DEF FatalBeforeJail
<1> QED BY <1>1, InForce, PTL

(***************************************************************************)
(* A validator that signs nothing is under FATAL alerts of both kinds.     *)
(***************************************************************************)
LEMMA SilentIsFatal == KindsAgree
<1>1. SUFFICES ASSUME NEW p \in Governed, Applies(p), NEW c \in {"missedBlocks", "lowUptime"}
               PROVE  \E a \in BlockAlerts(p.window, p) : a.case = c /\ a.fatal /\ a.window = M15
  BY DEF KindsAgree
<1> DEFINE missed == p.window
<1>2. p \in Params /\ missed \in Nat /\ missed > 0
  BY <1>1, GovernedType DEF Applies
<1>3. missed >= Excess(p)
  BY <1>2, ExcessType
<1>4. Alert("missedBlocks", M15, TRUE) \in BlockAlerts(missed, p)
  BY <1>1, <1>2, <1>3, FatalAlert
<1>5. UptimeAtMost(missed, p, 65) /\ UptimeAtMost(missed, p, 70) /\ UptimeAtMost(missed, p, 90)
  BY <1>2 DEF UptimeAtMost
<1>6. Alert("lowUptime", M15, TRUE) \in BlockAlerts(missed, p)
  BY <1>1, <1>2, <1>5 DEF BlockAlerts, LowUptimeAlerts
<1>7. \A k : LET a == Alert(k, M15, TRUE) IN a.case = k /\ a.fatal /\ a.window = M15
  BY DEF Alert
<1>8. Alert(c, M15, TRUE) \in BlockAlerts(missed, p)
  BY <1>4, <1>6
<1>9. QED
  BY <1>7, <1>8

\* For all parameters and for those in force, a validator that signs nothing is
\* under FATAL alerts of both kinds (worker.go:353-439).
THEOREM SilenceIsFatal == Spec => []SilentValidatorFatal
<1>1. params \in Governed => SilentValidatorFatal
  BY SilentIsFatal DEF SilentValidatorFatal
<1> QED BY <1>1, InForce, PTL
=============================================================================
