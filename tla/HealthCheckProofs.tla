------------------------- MODULE HealthCheckProofs -------------------------
(***************************************************************************)
(* The spacing of alerts, and what silence and the call center say of a    *)
(* validator: for any number of workers whose rounds overlap, any          *)
(* validators and any watchers.                                            *)
(***************************************************************************)
EXTENDS HealthCheck, TLAPS

(***************************************************************************)
(* Every alert has a window.                                               *)
(***************************************************************************)
LEMMA Durations == M10 \in Nat /\ M15 \in Nat /\ M30 \in Nat /\ H1 \in Nat /\ H2 \in Nat /\ H12 \in Nat
BY DurationsAssumption

LEMMA AlertWindow ==
    ASSUME NEW c, NEW n \in Nat, NEW f
    PROVE  Alert(c, n, f).window \in Nat
BY DEF Alert

LEMMA BlockAlertsWindow ==
    ASSUME NEW missed, NEW p, NEW a \in BlockAlerts(missed, p)
    PROVE  a.window \in Nat
<1>1. CASE a \in MissedAlerts(missed, p)
  <2>1. a \in {Alert("missedBlocks", M15, TRUE), Alert("missedBlocks", H2, FALSE)}
    BY <1>1 DEF MissedAlerts
  <2>2. QED
    BY <2>1, AlertWindow, Durations
<1>2. CASE a \in LowUptimeAlerts(missed, p)
  <2>1. PICK n \in {M15, M30, H1} : \E f : a = Alert("lowUptime", n, f)
    BY <1>2 DEF LowUptimeAlerts
  <2>2. QED
    BY <2>1, AlertWindow, Durations
<1>3. QED
  BY <1>1, <1>2 DEF BlockAlerts

LEMMA SigningAlertsWindow ==
    ASSUME NEW info, info.sign \in Signs, NEW p, NEW a \in SigningAlerts(info, p)
    PROVE  a.window \in Nat
<1>1. CASE a \in {Alert("tombstoned", H1, TRUE), Alert("jailed", M30, TRUE),
                  Alert("signingInfoNotFound", 0, FALSE), Alert("uptimeSkipped", 0, FALSE)}
  BY <1>1, AlertWindow, Durations
<1>2. CASE a \in BlockAlerts(info.missed, p)
  BY <1>2, BlockAlertsWindow
<1>3. QED
  BY <1>1, <1>2 DEF SigningAlerts, UptimeAlerts, Signs

(***************************************************************************)
(* What a step does to the stamps and messages: it sends alerts, it sends  *)
(* nothing, or time passes.                                                *)
(***************************************************************************)
Subjects == Validators \cup {TheChain}

SendsTo(w, about, identities) ==
    \E alerts : (\A a \in alerts : a.window \in Nat) /\ Send(w, about, alerts, identities)

Sends == \E w \in Workers, about \in Subjects, identities \in SUBSET Identities :
            SendsTo(w, about, identities)

Quiet ==
    /\ sent' = {}
    /\ UNCHANGED <<throttle, told, blind>>
    /\ UNCHANGED heard \/ \E w \in Workers : heard' = [heard EXCEPT ![w] = {}]

Limited == \A m \in sent' : m.alert.case \in Cases => told[<<m.alert.case, m.to>>] >= m.alert.window

SentBy(m, w, about, alerts, identities) ==
    \E a \in alerts, i \in identities \cap hc[w].known :
        m = Message(i, about, a) /\ (a.case \in Cases => throttle[<<a.case, i>>] >= a.window)

\* An alert reaches whom SendTo names and the round knows.
LEMMA SentTo ==
    ASSUME NEW w, NEW about, NEW alerts, NEW identities, Send(w, about, alerts, identities),
           NEW m \in sent'
    PROVE  SentBy(m, w, about, alerts, identities)
<1>1. PICK a \in alerts : m \in {Message(i, about, a) : i \in Recipients(a, identities) \cap hc[w].known}
  BY DEF Send
<1>2. PICK i \in Recipients(a, identities) \cap hc[w].known : m = Message(i, about, a)
  BY <1>1
<1>3. i \in identities /\ (a.case \in Cases => throttle[<<a.case, i>>] >= a.window)
  BY <1>2 DEF Recipients, SendTo
<1>4. i \in identities \cap hc[w].known
  BY <1>2, <1>3
<1>5. QED
  BY <1>2, <1>3, <1>4 DEF SentBy

\* The keys of the stamps after a message or a stamp.
LEMMA SendKey ==
    ASSUME StampType, StampsAreMessages,
           NEW w, NEW about, NEW alerts, NEW identities \in SUBSET Identities,
           Send(w, about, alerts, identities),
           NEW c \in Cases, NEW i \in Identities
    PROVE  /\ throttle'[<<c, i>>] \in Ages /\ told'[<<c, i>>] \in Ages
           /\ throttle'[<<c, i>>] <= told'[<<c, i>>]
           /\ throttle'[<<c, i>>] # told'[<<c, i>>] => <<c, i>> \in blind'
<1> DEFINE k == <<c, i>>
           Hit == \E a \in alerts : a.case = k[1] /\ k[2] \in SendTo(throttle, a, identities)
           Reached == \E m \in sent' : m.alert.case = k[1] /\ m.to = k[2]
<1>1. k \in DOMAIN throttle /\ k \in DOMAIN told /\ k[1] = c /\ k[2] = i
  BY DEF StampType
<1>2. throttle'[k] = IF Hit THEN 0 ELSE throttle[k]
  <2>1. throttle' = Stamped(throttle, alerts, identities)
    BY DEF Send
  <2>2. QED
    BY <1>1, <2>1 DEF Stamped
<1>3. told'[k] = IF Reached THEN 0 ELSE told[k]
  <2>1. told' = [x \in DOMAIN told |->
                   IF \E m \in sent' : m.alert.case = x[1] /\ m.to = x[2] THEN 0 ELSE told[x]]
    BY DEF Send
  <2>2. QED
    BY <1>1, <2>1
<1>4. throttle[k] \in Ages /\ told[k] \in Ages /\ 0 \in Ages /\ Ages \subseteq Nat
  BY <1>1, Durations DEF StampType, Ages, LongAgo
<1>5. throttle[k] <= told[k] /\ (throttle[k] # told[k] => k \in blind)
  BY DEF StampsAreMessages
<1>6. Reached => Hit
  <2> SUFFICES ASSUME NEW m \in sent', m.alert.case = c, m.to = i
               PROVE  Hit
    BY <1>1
  <2>0. SentBy(m, w, about, alerts, identities)
    BY SentTo
  <2>1. PICK a \in alerts, j \in identities \cap hc[w].known :
           m = Message(j, about, a) /\ (a.case \in Cases => throttle[<<a.case, j>>] >= a.window)
    BY <2>0 DEF SentBy
  <2>2. m.alert = a /\ m.to = j
    BY <2>1 DEF Message
  <2>3. i \in SendTo(throttle, a, identities)
    BY <2>1, <2>2 DEF SendTo
  <2>4. QED
    BY <1>1, <2>2, <2>3
<1>7. ASSUME Hit, ~Reached
      PROVE  k \in blind'
  <2>1. PICK a \in alerts : a.case = c /\ i \in SendTo(throttle, a, identities)
    BY <1>1, <1>7
  <2>2. i \in Recipients(a, identities)
    BY <2>1 DEF Recipients
  <2>3. i \notin hc[w].known
    <3> SUFFICES ASSUME i \in hc[w].known
                 PROVE  FALSE
      OBVIOUS
    <3>1. Message(i, about, a) \in {Message(j, about, a) : j \in Recipients(a, identities) \cap hc[w].known}
      BY <2>2
    <3>2. Message(i, about, a) \in sent'
      BY <3>1 DEF Send
    <3>3. Message(i, about, a).alert.case = c /\ Message(i, about, a).to = i
      BY <2>1 DEF Message
    <3>4. QED
      BY <1>1, <1>7, <3>2, <3>3
  <2>4. \E b \in alerts : b.case = k[1] /\ k[2] \in Recipients(b, identities) \ hc[w].known
    BY <1>1, <2>1, <2>2, <2>3
  <2>5. QED
    BY <1>1, <2>4 DEF Send
<1>8. ASSUME ~Hit, throttle[k] # told[k]
      PROVE  k \in blind'
  <2>1. k \in blind /\ told'[k] = told[k]
    BY <1>3, <1>5, <1>6, <1>8
  <2>2. told[k] # 0
    <3>1. throttle[k] \in Nat /\ told[k] \in Nat
      BY <1>4
    <3>2. throttle[k] <= told[k] /\ throttle[k] # told[k]
      BY <1>5, <1>8
    <3>3. QED
      BY <3>1, <3>2
  <2>3. k \in blind /\ told'[k] # 0
    BY <2>1, <2>2
  <2>4. QED
    BY <1>1, <2>3 DEF Send
<1>9. CASE Reached
  <2>1. throttle'[k] = 0 /\ told'[k] = 0
    BY <1>2, <1>3, <1>6, <1>9
  <2>2. QED
    BY <1>4, <2>1
<1>10. CASE Hit /\ ~Reached
  <2>1. throttle'[k] = 0 /\ told'[k] = told[k]
    BY <1>2, <1>3, <1>10
  <2>2. 0 <= told[k]
    <3>1. told[k] \in Nat
      BY <1>4
    <3>2. QED
      BY <3>1
  <2>3. k \in blind'
    BY <1>7, <1>10
  <2>4. QED
    BY <1>4, <2>1, <2>2, <2>3
<1>11. CASE ~Hit
  <2>1. throttle'[k] = throttle[k] /\ told'[k] = told[k]
    BY <1>2, <1>3, <1>6, <1>11
  <2>2. throttle[k] # told[k] => k \in blind'
    BY <1>8, <1>11
  <2>3. QED
    BY <1>4, <1>5, <2>1, <2>2
<1>12. QED
  BY <1>9, <1>10, <1>11

LEMMA SendKeeps ==
    ASSUME StampType, StampsAreMessages, Sends
    PROVE  StampType' /\ StampsAreMessages' /\ Limited
<1>0. PICK w \in Workers, about \in Subjects, identities \in SUBSET Identities :
         SendsTo(w, about, identities)
  BY DEF Sends
<1>1. PICK alerts : (\A a \in alerts : a.window \in Nat) /\ Send(w, about, alerts, identities)
  BY <1>0 DEF SendsTo
<1>2. \A c \in Cases, i \in Identities :
         /\ throttle'[<<c, i>>] \in Ages /\ told'[<<c, i>>] \in Ages
         /\ throttle'[<<c, i>>] <= told'[<<c, i>>]
         /\ throttle'[<<c, i>>] # told'[<<c, i>>] => <<c, i>> \in blind'
  BY <1>1, SendKey
<1>3. /\ throttle' = [k \in Cases \X Identities |-> throttle'[k]]
      /\ told' = [k \in Cases \X Identities |-> told'[k]]
      /\ blind' \subseteq Cases \X Identities
  BY <1>1 DEF Send, Stamped, StampType
<1>4. \A k \in Cases \X Identities :
         /\ throttle'[k] \in Ages /\ told'[k] \in Ages
         /\ throttle'[k] <= told'[k]
         /\ throttle'[k] # told'[k] => k \in blind'
  BY <1>2
<1>5. StampType'
  BY <1>3, <1>4 DEF StampType
<1>6. StampsAreMessages'
  BY <1>4 DEF StampsAreMessages
<1>7. ASSUME NEW m \in sent', m.alert.case \in Cases
      PROVE  told[<<m.alert.case, m.to>>] >= m.alert.window
  <2>0. SentBy(m, w, about, alerts, identities)
    BY <1>1, SentTo
  <2>1. PICK a \in alerts, i \in identities \cap hc[w].known :
           m = Message(i, about, a) /\ (a.case \in Cases => throttle[<<a.case, i>>] >= a.window)
    BY <2>0 DEF SentBy
  <2>2. m.alert = a /\ m.to = i /\ i \in Identities /\ a.window \in Nat
    BY <1>1, <2>1 DEF Message
  <2>3. throttle[<<a.case, i>>] >= a.window
    BY <1>7, <2>1, <2>2
  <2>4. <<a.case, i>> \in Cases \X Identities
    BY <1>7, <2>2
  <2>5. throttle[<<a.case, i>>] <= told[<<a.case, i>>]
    BY <2>4 DEF StampsAreMessages
  <2>6. throttle[<<a.case, i>>] \in Nat /\ told[<<a.case, i>>] \in Nat
    BY <2>4, Durations DEF StampType, Ages, LongAgo
  <2>7. told[<<a.case, i>>] >= a.window
    BY <2>2, <2>3, <2>5, <2>6
  <2>8. QED
    BY <2>2, <2>7
<1>8. QED
  BY <1>5, <1>6, <1>7 DEF Limited

LEMMA TickKeeps ==
    ASSUME StampType, StampsAreMessages, Tick
    PROVE  StampType' /\ StampsAreMessages'
<1>1. \A n \in Ages : OlderBy1(n) \in Ages
  BY Durations DEF OlderBy1, Ages, LongAgo
<1>2. \A m, n \in Ages : m <= n => OlderBy1(m) <= OlderBy1(n)
  BY Durations DEF OlderBy1, Ages, LongAgo
<1>3. /\ throttle' = [k \in Cases \X Identities |-> OlderBy1(throttle[k])]
      /\ told' = [k \in Cases \X Identities |-> OlderBy1(told[k])]
      /\ blind' = blind
  BY DEF Tick, StampType
<1>4. \A k \in Cases \X Identities : throttle[k] \in Ages /\ told[k] \in Ages
  BY DEF StampType
<1>5. StampType'
  BY <1>1, <1>3, <1>4 DEF StampType
<1>6. ASSUME NEW k \in Cases \X Identities
      PROVE  throttle'[k] <= told'[k] /\ (throttle'[k] # told'[k] => k \in blind')
  BY <1>2, <1>3, <1>4 DEF StampsAreMessages
<1>7. QED
  BY <1>5, <1>6 DEF StampsAreMessages

(***************************************************************************)
(* What a round knows of the chain keeps its type.                         *)
(***************************************************************************)
LEMMA RoundFields ==
    ASSUME RoundType, NEW w \in Workers
    PROVE  /\ hc[w].known \in SUBSET Identities
           /\ hc[w].bonds \in [Validators -> Bonds \cup {"absent"}] \cup {Failed}
           /\ hc[w].signs \in [Validators -> [sign : Signs, missed : Nat]] \cup {Failed}
           /\ hc[w].entry \in Condition
           /\ hc[w].roots \in SUBSET Root
           /\ hc[w].checking \in Subjects
BY DEF RoundType, Rounds, Subjects

\* The alerts about a validator have windows.
LEMMA ValidatorAlertsWindow ==
    ASSUME RoundType, NEW w \in Workers, NEW v \in Validators, NEW a \in ValidatorAlerts(w, v)
    PROVE  a.window \in Nat
<1>1. CASE a \in BondAlerts(hc[w].bonds[v])
  <2>1. a = Alert("bond", 0, TRUE)
    BY <1>1 DEF BondAlerts
  <2>2. QED
    BY <2>1, AlertWindow
<1>2. CASE a = Alert("notInMapping", 0, FALSE)
  BY <1>2, AlertWindow
<1>3. CASE hc[w].signs # Failed /\ a \in SigningAlerts(hc[w].signs[v], hc[w].params)
  <2>1. hc[w].signs[v].sign \in Signs
    BY <1>3, RoundFields
  <2>2. QED
    BY <1>3, <2>1, SigningAlertsWindow
<1>4. QED
  BY <1>1, <1>2, <1>3 DEF ValidatorAlerts

(***************************************************************************)
(* The effect of every step on the stamps.                                 *)
(***************************************************************************)
LEMMA WatchersAreIdentities ==
    /\ \A v \in Validators : Watchers[v] \in SUBSET Identities
    /\ AllWatchers \in SUBSET Identities
    /\ Root \in SUBSET Identities
<1>1. \A v \in Validators : Watchers[v] \in SUBSET Identities
  BY HealthCheckAssumption
<1>2. Root \in SUBSET Identities
  BY HealthCheckAssumption
<1>3. QED
  BY <1>1, <1>2 DEF AllWatchers

LEMMA BroadcastSends ==
    ASSUME NEW w \in Workers, NEW c, Broadcast(w, c)
    PROVE  Sends
<1>1. \A a \in {Alert(c, 0, FALSE)} : a.window \in Nat
  BY AlertWindow
<1>2. SendsTo(w, TheChain, AllWatchers)
  BY <1>1 DEF Broadcast, SendsTo
<1>3. QED
  BY <1>2, WatchersAreIdentities DEF Sends, Subjects

Effect == Sends \/ Quiet \/ Tick

LEMMA SendsToEffect ==
    ASSUME NEW w \in Workers, NEW about \in Subjects, NEW identities \in SUBSET Identities,
           SendsTo(w, about, identities)
    PROVE  Effect
BY DEF Sends, Effect

\* The steps before the loop tell everybody or nobody.
Tells(w) == SendNothing \/ \E c : Broadcast(w, c)

LEMMA TellsEffect ==
    ASSUME NEW w \in Workers, Tells(w)
    PROVE  Effect
<1>1. CASE SendNothing
  BY <1>1 DEF SendNothing, Effect, Quiet
<1>2. ASSUME NEW c, Broadcast(w, c)
      PROVE  Effect
  BY <1>2, BroadcastSends DEF Effect
<1>3. QED
  BY <1>1, <1>2 DEF Tells

LEMMA RoundEffect ==
    ASSUME RoundType, NEW w \in Workers, Round(w)
    PROVE  Effect
<1>1. CASE StartRound(w)
  BY <1>1 DEF StartRound, Effect, Quiet
<1>2. CASE PickRpc(w)
  <2>1. Tells(w)
    BY <1>2 DEF PickRpc, Fail, Tells
  <2>2. QED
    BY <2>1, TellsEffect
<1>3. CASE FetchValidators(w)
  <2>1. Tells(w)
    BY <1>3 DEF FetchValidators, Fail, Tells
  <2>2. QED
    BY <2>1, TellsEffect
<1>4. CASE FetchSigningInfos(w)
  <2>1. Tells(w)
    BY <1>4 DEF FetchSigningInfos, Tells
  <2>2. QED
    BY <2>1, TellsEffect
<1>5. CASE FetchParams(w)
  <2>1. Tells(w)
    BY <1>5 DEF FetchParams, Tells
  <2>2. QED
    BY <2>1, TellsEffect
<1>6. ASSUME NEW v \in Validators, SkipPaused(w, v)
      PROVE  Effect
  BY <1>6 DEF SkipPaused, SendNothing, Effect, Quiet
<1>7. ASSUME NEW v \in Validators, NotFound(w, v)
      PROVE  Effect
  <2>1. Send(w, v, {Alert("notFound", 0, FALSE)}, Watchers[v])
    BY <1>7 DEF NotFound
  <2>2. \A a \in {Alert("notFound", 0, FALSE)} : a.window \in Nat
    BY AlertWindow
  <2>3. SendsTo(w, v, Watchers[v])
    BY <2>1, <2>2 DEF SendsTo
  <2>4. v \in Subjects /\ Watchers[v] \in SUBSET Identities
    BY WatchersAreIdentities DEF Subjects
  <2>5. QED
    BY <2>3, <2>4, SendsToEffect
<1>8. ASSUME NEW v \in Validators, CheckValidator(w, v)
      PROVE  Effect
  <2>1. Send(w, v, ValidatorAlerts(w, v), Watchers[v])
    BY <1>8 DEF CheckValidator
  <2>2. \A a \in ValidatorAlerts(w, v) : a.window \in Nat
    BY ValidatorAlertsWindow
  <2>3. v \in Subjects /\ Watchers[v] \in SUBSET Identities
    BY WatchersAreIdentities DEF Subjects
  <2>4. SendsTo(w, v, Watchers[v])
    BY <2>1, <2>2 DEF SendsTo
  <2>5. QED
    BY <2>3, <2>4, SendsToEffect
<1>9. ASSUME NEW v \in Validators, v = hc[w].checking, CheckOptionalRPC(w)
      PROVE  Effect
  <2>1. CASE SendNothing
    BY <2>1 DEF SendNothing, Effect, Quiet
  <2>2. ASSUME NEW a \in OptionalAlerts, Send(w, v, {a}, Watchers[v])
        PROVE  Effect
    <3>1. \A b \in {a} : b.window \in Nat
      BY AlertWindow, Durations DEF OptionalAlerts
    <3>2. SendsTo(w, v, Watchers[v])
      BY <2>2, <3>1 DEF SendsTo
    <3>3. v \in Subjects /\ Watchers[v] \in SUBSET Identities
      BY WatchersAreIdentities DEF Subjects
    <3>4. QED
      BY <3>2, <3>3, SendsToEffect
  <2>3. QED
    BY <1>9, <2>1, <2>2 DEF CheckOptionalRPC
<1>10. CASE EndValidators(w)
  BY <1>10 DEF EndValidators, SendNothing, Effect, Quiet
<1>11. ASSUME NEW r \in ManagedRPCs, CheckManagedRPC(w, r)
       PROVE  Effect
  <2>1. CASE SendNothing
    BY <2>1 DEF SendNothing, Effect, Quiet
  <2>2. CASE Send(w, TheChain, {Alert("managedRPC", M30, FALSE)}, hc[w].roots)
    <3>1. \A b \in {Alert("managedRPC", M30, FALSE)} : b.window \in Nat
      BY AlertWindow, Durations
    <3>2. SendsTo(w, TheChain, hc[w].roots)
      BY <2>2, <3>1 DEF SendsTo
    <3>3. TheChain \in Subjects /\ hc[w].roots \in SUBSET Identities
      BY RoundFields, WatchersAreIdentities DEF Subjects
    <3>4. QED
      BY <3>2, <3>3, SendsToEffect
  <2>3. QED
    BY <1>11, <2>1, <2>2 DEF CheckManagedRPC
<1>12. ASSUME CheckOptionalRPC(w)
       PROVE  hc[w].checking \in Validators
  BY <1>12 DEF CheckOptionalRPC, RoundType
<1>13. QED
  BY <1>1, <1>2, <1>3, <1>4, <1>5, <1>6, <1>7, <1>8, <1>9, <1>10, <1>11, <1>12 DEF Round, CheckStep

LEMMA StepEffect ==
    ASSUME RoundType, Next
    PROVE  Effect
<1>1. CASE World
  BY <1>1 DEF World, ReloadUsers, PauseValidator, ChangeChain, Effect, Quiet
<1>2. CASE Tick
  BY <1>2 DEF Effect
<1>3. CASE \E w \in Workers : Round(w)
  BY <1>3, RoundEffect
<1>4. QED
  BY <1>1, <1>2, <1>3 DEF Next

(***************************************************************************)
(* The types of the rounds, step by step.                                  *)
(***************************************************************************)
\* A round, and what it knows when it has fetched the validators.
Coherent(r) ==
    /\ r \in Rounds
    /\ r.pc = "optional" => r.checking \in Validators
    /\ r.pc \in {"signingInfos", "params", "check", "optional"} =>
          r.bonds \in [Validators -> Bonds \cup {"absent"}]

LEMMA RestingType == Coherent(Resting)
BY DEF Coherent, Resting, Rounds, NoEntry, Condition, Bonds, Signs

\* The round that goes on to the managed RPCs.
LEMMA ManagedRoundType ==
    ASSUME NEW known \in SUBSET Identities, NEW roots \in SUBSET Root
    PROVE  Coherent([Resting EXCEPT !.pc = "managed", !.todo = ManagedRPCs,
                                    !.known = known, !.roots = roots])
<1>1. Resting \in Rounds
  BY RestingType DEF Coherent
<1>2. \A q \in Rounds : [q EXCEPT !.pc = "managed"] \in Rounds /\ [q EXCEPT !.pc = "managed"].pc = "managed"
  BY DEF Rounds
<1>3. \A q \in Rounds : [q EXCEPT !.todo = ManagedRPCs] \in Rounds /\ [q EXCEPT !.todo = ManagedRPCs].pc = q.pc
  BY DEF Rounds
<1>4. \A q \in Rounds : [q EXCEPT !.known = known] \in Rounds /\ [q EXCEPT !.known = known].pc = q.pc
  BY DEF Rounds
<1>5. \A q \in Rounds : [q EXCEPT !.roots = roots] \in Rounds /\ [q EXCEPT !.roots = roots].pc = q.pc
  BY DEF Rounds
<1>6. QED
  BY <1>1, <1>2, <1>3, <1>4, <1>5 DEF Coherent

\* A step that changes one round only, to another of its type.
LEMMA OneRound ==
    ASSUME RoundType, NEW w \in Workers, NEW r, Coherent(r),
           hc' = [hc EXCEPT ![w] = r], steady' \in SUBSET Workers
    PROVE  RoundType'
BY DEF RoundType, Coherent

LEMMA RoundsCoherent ==
    ASSUME RoundType, NEW w \in Workers
    PROVE  Coherent(hc[w])
BY DEF RoundType, Coherent

LEMMA EntryType ==
    ASSUME WorldType, RoundType, NEW w \in Workers, NEW v \in Validators,
           hc[w].bonds \in [Validators -> Bonds \cup {"absent"}]
    PROVE  Entry(w, v) \in Condition
<1>1. \A bond \in Bonds \cup {"absent"}, info \in [sign : Signs, missed : Nat] :
         Shown(bond, info) \in Condition
  BY DEF Shown, Condition, Signs
<1>2. hc[w].signs # Failed => hc[w].signs[v] \in [sign : Signs, missed : Nat]
  BY RoundFields
<1>3. [sign |-> "noInfo", missed |-> 0] \in [sign : Signs, missed : Nat]
  BY DEF Signs
<1>4. hc[w].bonds[v] \in Bonds \cup {"absent"}
  OBVIOUS
<1>5. QED
  BY <1>1, <1>2, <1>3, <1>4 DEF Entry

LEMMA EndRoundType ==
    ASSUME RoundType, NEW w \in Workers, EndRound(w), UNCHANGED steady
    PROVE  RoundType'
BY RestingType, OneRound DEF EndRound, RoundType

LEMMA FetchTypes ==
    ASSUME WorldType, RoundType, NEW w \in Workers,
           \/ StartRound(w) \/ PickRpc(w) \/ FetchValidators(w)
           \/ FetchSigningInfos(w) \/ FetchParams(w)
    PROVE  RoundType'
<1> DEFINE c == hc[w]
<1>1. Coherent(c) /\ hc \in [Workers -> Rounds] /\ steady \in SUBSET Workers
  BY RoundsCoherent DEF RoundType
<1>2. CASE StartRound(w)
  <2> DEFINE r == [c EXCEPT !.pc = "rpc", !.known = users \cap AllWatchers]
  <2>1. hc' = [hc EXCEPT ![w] = r] /\ steady' \in SUBSET Workers
    BY <1>1, <1>2 DEF StartRound
  <2>2. Coherent(r)
    BY <1>1 DEF Coherent, Rounds, WorldType
  <2>3. QED
    BY <2>1, <2>2, OneRound
<1>3. CASE Fail(w)
  BY <1>3, EndRoundType DEF Fail
<1>4. CASE Go(w, "validators") /\ UNCHANGED steady
  <2> DEFINE r == [c EXCEPT !.pc = "validators"]
  <2>1. hc' = [hc EXCEPT ![w] = r] /\ steady' \in SUBSET Workers
    BY <1>1, <1>4 DEF Go
  <2>2. Coherent(r)
    BY <1>1 DEF Coherent, Rounds
  <2>3. QED
    BY <2>1, <2>2, OneRound
<1>5. CASE /\ hc' = [hc EXCEPT ![w].pc = "signingInfos",
                               ![w].bonds = AllValidators]
           /\ UNCHANGED steady
  <2> DEFINE r == [c EXCEPT !.pc = "signingInfos", !.bonds = AllValidators]
  <2>1. hc' = [hc EXCEPT ![w] = r] /\ steady' \in SUBSET Workers
    BY <1>1, <1>5
  <2>2. AllValidators \in [Validators -> Bonds \cup {"absent"}]
    BY DEF AllValidators, WorldType, Condition
  <2>3. Coherent(r)
    BY <1>1, <2>2 DEF Coherent, Rounds
  <2>4. QED
    BY <2>1, <2>3, OneRound
<1>6. CASE FetchSigningInfos(w)
  <2>1. c.bonds \in [Validators -> Bonds \cup {"absent"}]
    BY <1>1, <1>6 DEF FetchSigningInfos, Coherent
  <2>2. CASE Go(w, "params")
    <3> DEFINE r == [c EXCEPT !.pc = "params"]
    <3>1. hc' = [hc EXCEPT ![w] = r] /\ steady' \in SUBSET Workers
      BY <1>1, <1>6, <2>2 DEF Go, FetchSigningInfos
    <3>2. Coherent(r)
      BY <1>1, <2>1 DEF Coherent, Rounds
    <3>3. QED
      BY <3>1, <3>2, OneRound
  <2>3. CASE ~Go(w, "params")
    <3> DEFINE r == [c EXCEPT !.pc = "params", !.signs = AllSigningInfos]
    <3>1. hc' = [hc EXCEPT ![w] = r] /\ steady' \in SUBSET Workers
      BY <1>1, <1>6, <2>3 DEF FetchSigningInfos
    <3>2. AllSigningInfos \in [Validators -> [sign : Signs, missed : Nat]]
      BY DEF AllSigningInfos, WorldType, Condition
    <3>3. Coherent(r)
      BY <1>1, <2>1, <3>2 DEF Coherent, Rounds
    <3>4. QED
      BY <3>1, <3>3, OneRound
  <2>4. QED
    BY <2>2, <2>3
<1>7. CASE FetchParams(w)
  <2>1. c.bonds \in [Validators -> Bonds \cup {"absent"}]
    BY <1>1, <1>7 DEF FetchParams, Coherent
  <2>2. PICK p \in {c.params, params} :
           hc' = [hc EXCEPT ![w] = [c EXCEPT !.pc = "check", !.todo = Validators, !.params = p]]
    <3>1. CASE hc' = [hc EXCEPT ![w].pc = "check", ![w].todo = Validators, ![w].params = params]
      BY <1>1, <3>1
    <3>2. CASE hc' = [hc EXCEPT ![w].pc = "check", ![w].todo = Validators]
      <4>1. c = [c EXCEPT !.params = c.params]
        BY <1>1 DEF Coherent, Rounds
      <4>2. hc' = [hc EXCEPT ![w] = [c EXCEPT !.pc = "check", !.todo = Validators, !.params = c.params]]
        BY <1>1, <3>2 DEF Coherent, Rounds
      <4>3. QED
        BY <4>2
    <3>3. QED
      BY <1>7, <3>1, <3>2 DEF FetchParams, SlashingParams
  <2> DEFINE r == [c EXCEPT !.pc = "check", !.todo = Validators, !.params = p]
  <2>3. p \in Params \cup {Failed}
    BY <1>1, <2>2 DEF Coherent, Rounds, WorldType
  <2>4. Coherent(r)
    BY <1>1, <2>1, <2>3 DEF Coherent, Rounds
  <2>5. steady' \in SUBSET Workers
    BY <1>1, <1>7 DEF FetchParams
  <2>6. QED
    BY <2>2, <2>4, <2>5, OneRound
<1>8. QED
  BY <1>2, <1>3, <1>4, <1>5, <1>6, <1>7 DEF PickRpc, FetchValidators

\* A validator is done with.
LEMMA DoneType ==
    ASSUME RoundType, NEW w \in Workers, NEW v, Done(w, v), hc[w].pc # "optional", UNCHANGED steady
    PROVE  RoundType'
<1> DEFINE c == hc[w]
           r == [c EXCEPT !.todo = @ \ {v}]
<1>1. Coherent(c) /\ hc \in [Workers -> Rounds] /\ steady \in SUBSET Workers
  BY RoundsCoherent DEF RoundType
<1>2. hc' = [hc EXCEPT ![w] = r] /\ steady' \in SUBSET Workers
  BY <1>1 DEF Done
<1>3. c.todo \ {v} \in (SUBSET Validators) \cup (SUBSET ManagedRPCs)
  BY <1>1 DEF Coherent, Rounds
<1>4. Coherent(r)
  BY <1>1, <1>3 DEF Coherent, Rounds
<1>5. QED
  BY <1>2, <1>4, OneRound

LEMMA CheckTypes ==
    ASSUME WorldType, RoundType, CacheType, NEW w \in Workers,
           CheckStep(w) \/ CheckOptionalRPC(w)
    PROVE  RoundType' /\ CacheType'
<1> DEFINE c == hc[w]
<1>1. Coherent(c) /\ hc \in [Workers -> Rounds] /\ steady \in SUBSET Workers
  BY RoundsCoherent DEF RoundType
<1>2. ASSUME NEW v \in Validators, SkipPaused(w, v) \/ NotFound(w, v)
      PROVE  RoundType' /\ CacheType'
  <2>1. Done(w, v) /\ hc[w].pc # "optional" /\ UNCHANGED steady /\ UNCHANGED cache
    BY <1>2 DEF SkipPaused, NotFound, Checking
  <2>2. QED
    BY <2>1, DoneType DEF CacheType
<1>3. ASSUME NEW v \in Validators, CheckValidator(w, v)
      PROVE  RoundType' /\ CacheType'
  <2>1. c.bonds \in [Validators -> Bonds \cup {"absent"}]
    BY <1>1, <1>3 DEF CheckValidator, Checking, Coherent
  <2>2. Entry(w, v) \in Condition
    BY <2>1, EntryType
  <2>3. CASE v \in OptionalRPC
    <3> DEFINE r == [c EXCEPT !.pc = "optional", !.checking = v, !.entry = Entry(w, v)]
    <3>1. hc' = [hc EXCEPT ![w] = r] /\ steady' \in SUBSET Workers /\ UNCHANGED cache
      BY <1>1, <1>3, <2>3 DEF CheckValidator
    <3>2. Coherent(r)
      BY <1>1, <2>1, <2>2 DEF Coherent, Rounds
    <3>3. QED
      BY <3>1, <3>2, OneRound DEF CacheType
  <2>4. CASE v \notin OptionalRPC
    <3>1. Done(w, v) /\ hc[w].pc # "optional" /\ UNCHANGED steady
      BY <1>3, <2>4 DEF CheckValidator, Checking
    <3>2. cache' = [cache EXCEPT ![v] = Entry(w, v)]
      BY <1>3, <2>4 DEF CheckValidator
    <3>3. QED
      BY <2>2, <3>1, <3>2, DoneType DEF CacheType
  <2>5. QED
    BY <2>3, <2>4
<1>4. CASE CheckOptionalRPC(w)
  <2> DEFINE v == c.checking
             r == [c EXCEPT !.pc = "check", !.todo = @ \ {v}, !.checking = TheChain, !.entry = NoEntry]
  <2>1. c.bonds \in [Validators -> Bonds \cup {"absent"}] /\ v \in Validators
    BY <1>1, <1>4 DEF CheckOptionalRPC, Coherent
  <2>2. hc' = [hc EXCEPT ![w] = r] /\ steady' \in SUBSET Workers
    BY <1>1, <1>4 DEF CheckOptionalRPC
  <2>3. c.todo \ {v} \in (SUBSET Validators) \cup (SUBSET ManagedRPCs)
    BY <1>1 DEF Coherent, Rounds
  <2>4. NoEntry \in Condition
    BY DEF NoEntry, Condition, Bonds, Signs
  <2>5. Coherent(r)
    BY <1>1, <2>1, <2>3, <2>4 DEF Coherent, Rounds
  <2>6. cache' = [cache EXCEPT ![v] = c.entry] /\ c.entry \in Condition
    BY <1>1, <1>4 DEF CheckOptionalRPC, Coherent, Rounds
  <2>7. QED
    BY <2>1, <2>2, <2>5, <2>6, OneRound DEF CacheType
<1>5. QED
  BY <1>2, <1>3, <1>4 DEF CheckStep

LEMMA ManagedTypes ==
    ASSUME WorldType, RoundType, NEW w \in Workers,
           EndValidators(w) \/ \E r \in ManagedRPCs : CheckManagedRPC(w, r)
    PROVE  RoundType'
<1> DEFINE c == hc[w]
<1>1. Coherent(c) /\ hc \in [Workers -> Rounds] /\ steady \in SUBSET Workers
  BY RoundsCoherent DEF RoundType
<1>2. CASE EndRound(w) /\ UNCHANGED steady
  BY <1>2, EndRoundType
<1>3. CASE EndValidators(w) /\ ~EndRound(w)
  <2> DEFINE r == [Resting EXCEPT !.pc = "managed", !.todo = ManagedRPCs,
                                  !.known = c.known, !.roots = RootWatchers(w)]
  <2>1. hc' = [hc EXCEPT ![w] = r] /\ steady' \in SUBSET Workers
    BY <1>1, <1>3 DEF EndValidators
  <2>2. RootWatchers(w) \in SUBSET Root
    BY DEF RootWatchers
  <2>3. c.known \in SUBSET Identities
    BY RoundFields
  <2>4. Coherent(r)
    BY <2>2, <2>3, ManagedRoundType
  <2>5. QED
    BY <2>1, <2>4, OneRound
<1>4. ASSUME NEW r \in ManagedRPCs, CheckManagedRPC(w, r), ~EndRound(w)
      PROVE  RoundType'
  BY <1>4, DoneType DEF CheckManagedRPC
<1>5. QED
  BY <1>2, <1>3, <1>4 DEF EndValidators, CheckManagedRPC

LEMMA WorldTypes ==
    ASSUME WorldType, Next
    PROVE  WorldType'
<1>1. CASE World
  BY <1>1, HealthCheckAssumption DEF World, ReloadUsers, PauseValidator, ChangeChain, WorldType
<1>2. CASE Tick
  BY <1>2 DEF Tick, env, WorldType
<1>3. ASSUME NEW w \in Workers, Round(w)
      PROVE  WorldType'
  <2>1. UNCHANGED env
    BY <1>3 DEF Round, StartRound, PickRpc, Fail, FetchValidators, FetchSigningInfos, FetchParams,
                CheckStep, SkipPaused, NotFound, CheckValidator, CheckOptionalRPC, EndValidators,
                CheckManagedRPC
  <2>2. UNCHANGED faults \/ Fault
    BY <1>3 DEF Round, StartRound, PickRpc, Fail, FetchValidators, FetchSigningInfos, FetchParams,
                CheckStep, SkipPaused, NotFound, CheckValidator, CheckOptionalRPC, EndValidators,
                CheckManagedRPC
  <2>3. faults' \in 0..MaxFaults
    <3>1. faults \in 0..MaxFaults /\ MaxFaults \in Nat
      BY HealthCheckAssumption DEF WorldType
    <3>2. CASE faults' = faults
      BY <3>1, <3>2
    <3>3. CASE faults < MaxFaults /\ faults' = faults + 1
      BY <3>1, <3>3
    <3>4. QED
      BY <2>2, <3>2, <3>3 DEF Fault
  <2>4. mapped' = mapped \/ mapped' = Remapped
    BY <1>3 DEF Round, StartRound, PickRpc, Fail, FetchValidators, FetchSigningInfos, FetchParams,
                CheckStep, SkipPaused, NotFound, CheckValidator, CheckOptionalRPC, EndValidators,
                CheckManagedRPC
  <2>5. mapped' \in SUBSET Validators
    BY <2>4 DEF Remapped, Listed, WorldType
  <2>6. QED
    BY <2>1, <2>3, <2>5 DEF env, WorldType
<1>4. QED
  BY <1>1, <1>2, <1>3 DEF Next

LEMMA RoundTypes ==
    ASSUME WorldType, RoundType, CacheType, Next
    PROVE  RoundType' /\ CacheType'
<1>1. CASE World
  BY <1>1 DEF World, ReloadUsers, PauseValidator, ChangeChain, RoundType, CacheType
<1>2. CASE Tick
  BY <1>2 DEF Tick, RoundType, CacheType
<1>3. ASSUME NEW w \in Workers, Round(w)
      PROVE  RoundType' /\ CacheType'
  <2>1. CASE CheckStep(w) \/ CheckOptionalRPC(w)
    BY <2>1, CheckTypes
  <2>2. CASE \/ StartRound(w) \/ PickRpc(w) \/ FetchValidators(w)
             \/ FetchSigningInfos(w) \/ FetchParams(w)
    <3>1. UNCHANGED cache
      BY <2>2 DEF StartRound, PickRpc, Fail, FetchValidators, FetchSigningInfos, FetchParams
    <3>2. QED
      BY <2>2, <3>1, FetchTypes DEF CacheType
  <2>3. CASE EndValidators(w) \/ \E r \in ManagedRPCs : CheckManagedRPC(w, r)
    <3>1. UNCHANGED cache
      BY <2>3 DEF EndValidators, CheckManagedRPC
    <3>2. QED
      BY <2>3, <3>1, ManagedTypes DEF CacheType
  <2>4. QED
    BY <1>3, <2>1, <2>2, <2>3 DEF Round
<1>4. QED
  BY <1>1, <1>2, <1>3 DEF Next

LEMMA HeardTypes ==
    ASSUME RoundType, HeardType, Next
    PROVE  HeardType'
<1> DEFINE Pairs == SUBSET (Identities \X Subjects)
<1>1. heard \in [Workers -> Pairs] /\ \A m \in sent : m.to \in Identities /\ m.about \in Subjects
  BY DEF HeardType, Subjects
<1>2. CASE Sends
  <2>1. PICK w \in Workers, about \in Subjects, identities \in SUBSET Identities :
           SendsTo(w, about, identities)
    BY <1>2 DEF Sends
  <2>2. PICK alerts : Send(w, about, alerts, identities)
    BY <2>1 DEF SendsTo
  <2>3. ASSUME NEW m \in sent'
        PROVE  m.to \in Identities /\ m.about \in Subjects
    <3>1. SentBy(m, w, about, alerts, identities)
      BY <2>2, SentTo
    <3>2. PICK a \in alerts, i \in identities \cap hc[w].known : m = Message(i, about, a)
      BY <3>1 DEF SentBy
    <3>3. QED
      BY <2>1, <3>2 DEF Message
  <2>4. heard' = [heard EXCEPT ![w] = @ \cup {<<m.to, about>> : m \in sent'}]
    BY <2>2 DEF Send
  <2>5. {<<m.to, about>> : m \in sent'} \in Pairs
    BY <2>1, <2>3
  <2>6. heard' \in [Workers -> Pairs]
    BY <1>1, <2>1, <2>4, <2>5
  <2>7. QED
    BY <2>3, <2>6 DEF HeardType, Subjects
<1>3. CASE Quiet
  <2>1. CASE UNCHANGED heard
    BY <1>3, <2>1 DEF Quiet, HeardType
  <2>2. ASSUME NEW w \in Workers, heard' = [heard EXCEPT ![w] = {}]
        PROVE  HeardType'
    BY <1>1, <1>3, <2>2 DEF Quiet, HeardType, Subjects
  <2>3. QED
    BY <1>3, <2>1, <2>2 DEF Quiet
<1>4. CASE Tick
  BY <1>4 DEF Tick, HeardType
<1>5. QED
  BY <1>2, <1>3, <1>4, StepEffect DEF Effect

(***************************************************************************)
(* The inductive invariant.                                                *)
(***************************************************************************)
IInv == TypeOK /\ StampsAreMessages

LEMMA InitIInv == Init => IInv
<1> SUFFICES ASSUME Init
             PROVE  IInv
  OBVIOUS
<1>1. WorldType
  BY HealthCheckAssumption DEF Init, WorldType
<1>2. hc = [w \in Workers |-> Resting] /\ steady = Workers
  BY DEF Init
<1>3. RoundType
  BY <1>2, RestingType DEF RoundType, Coherent
<1>4. NoEntry \in Condition
  BY DEF NoEntry, Condition, Bonds, Signs
<1>5. CacheType
  BY <1>4 DEF Init, CacheType
<1>6. LongAgo \in Ages
  BY Durations DEF LongAgo, Ages
<1>7. StampType
  BY <1>6 DEF Init, StampType
<1>8. HeardType
  BY DEF Init, HeardType
<1>9. \A n \in Ages : n <= n
  BY Durations DEF Ages, LongAgo
<1>10. StampsAreMessages
  BY <1>7, <1>9 DEF Init, StampsAreMessages, StampType
<1>11. QED
  BY <1>1, <1>3, <1>5, <1>7, <1>8, <1>10 DEF IInv, TypeOK

LEMMA NextIInv == IInv /\ [Next]_vars => IInv'
<1> SUFFICES ASSUME IInv, [Next]_vars
             PROVE  IInv'
  OBVIOUS
<1>1. WorldType /\ RoundType /\ CacheType /\ StampType /\ HeardType /\ StampsAreMessages
  BY DEF IInv, TypeOK
<1>2. CASE Next
  <2>1. WorldType' /\ RoundType' /\ CacheType' /\ HeardType'
    BY <1>1, <1>2, WorldTypes, RoundTypes, HeardTypes
  <2>2. StampType' /\ StampsAreMessages'
    <3>1. CASE Sends
      BY <1>1, <3>1, SendKeeps
    <3>2. CASE Quiet
      BY <1>1, <3>2 DEF Quiet, StampType, StampsAreMessages
    <3>3. CASE Tick
      BY <1>1, <3>3, TickKeeps
    <3>4. QED
      BY <1>1, <1>2, <3>1, <3>2, <3>3, StepEffect DEF Effect
  <2>3. QED
    BY <2>1, <2>2 DEF IInv, TypeOK
<1>3. CASE UNCHANGED vars
  BY <1>1, <1>3 DEF vars, env, IInv, TypeOK, WorldType, RoundType, CacheType, StampType, HeardType,
                    StampsAreMessages
<1>4. QED
  BY <1>2, <1>3

\* Every variable keeps its type (worker.go:65-597).
THEOREM TypeCorrect == Spec => []TypeOK
<1>1. IInv => TypeOK
  BY DEF IInv
<1>2. QED
  BY <1>1, InitIInv, NextIInv, PTL DEF Spec

\* A stamp is never older than the last message of its case, and differs from it
\* only where a round met an identity it did not know (prevent_spamming.go:23-44,
\* worker.go:96-104).
THEOREM StampsTellOfMessages == Spec => []StampsAreMessages
<1>1. IInv => StampsAreMessages
  BY DEF IInv
<1>2. QED
  BY <1>1, InitIInv, NextIInv, PTL DEF Spec

\* For any number of overlapping rounds, alerts of a limited case reach an
\* identity only when their window is over (prevent_spamming.go:33-41).
THEOREM AlertsAreSpaced == Spec => AlertsSpaced
<1>1. IInv /\ [Next]_vars => [Limited]_vars
  <2> SUFFICES ASSUME IInv, Next
               PROVE  Limited
    OBVIOUS
  <2>1. RoundType /\ StampType /\ StampsAreMessages
    BY DEF IInv, TypeOK
  <2>2. CASE Sends
    BY <2>1, <2>2, SendKeeps
  <2>3. CASE sent' = {}
    BY <2>3 DEF Limited
  <2>4. QED
    BY <2>1, <2>2, <2>3, StepEffect DEF Effect, Quiet, Tick
<1>2. Limited <=> \A m \in sent' : m.alert.case \in Cases =>
                                    told[<<m.alert.case, m.to>>] >= m.alert.window
  BY DEF Limited
<1>3. QED
  BY <1>1, <1>2, InitIInv, NextIInv, PTL DEF Spec, AlertsSpaced

-----------------------------------------------------------------------------
(***************************************************************************)
(* What a round has fetched.                                               *)
(***************************************************************************)
\* A worker's step says nothing, or sends alerts in its own round.
Speaks(w) == SendNothing \/ \E about, alerts, identities : Send(w, about, alerts, identities)

LEMMA SendGrows ==
    ASSUME HeardType, NEW w \in Workers, Speaks(w)
    PROVE  /\ heard[w] \subseteq heard'[w]
           /\ \A u \in Workers : u # w => heard'[u] = heard[u]
<1>1. heard \in [Workers -> SUBSET (Identities \X Subjects)]
  BY DEF HeardType, Subjects
<1>2. CASE SendNothing
  BY <1>2 DEF SendNothing
<1>3. ASSUME NEW about, NEW alerts, NEW identities, Send(w, about, alerts, identities)
      PROVE  /\ heard[w] \subseteq heard'[w]
             /\ \A u \in Workers : u # w => heard'[u] = heard[u]
  <2>1. heard' = [heard EXCEPT ![w] = @ \cup {<<m.to, about>> : m \in sent'}]
    BY <1>3 DEF Send
  <2>2. heard'[w] = heard[w] \cup {<<m.to, about>> : m \in sent'}
    BY <1>1, <2>1
  <2>3. QED
    BY <1>1, <2>1, <2>2
<1>4. QED
  BY <1>2, <1>3 DEF Speaks

\* An alert is heard by whom it is sent to and the round knows.
LEMMA AlertHeard ==
    ASSUME HeardType, NEW w \in Workers, NEW about, NEW alerts, NEW identities,
           Send(w, about, alerts, identities),
           NEW a \in alerts, NEW i \in Recipients(a, identities) \cap hc[w].known
    PROVE  <<i, about>> \in heard'[w]
<1>1. heard \in [Workers -> SUBSET (Identities \X Subjects)]
  BY DEF HeardType, Subjects
<1>2. heard' = [heard EXCEPT ![w] = @ \cup {<<m.to, about>> : m \in sent'}]
  BY DEF Send
<1>3. heard'[w] = heard[w] \cup {<<m.to, about>> : m \in sent'}
  BY <1>1, <1>2
<1>4. Message(i, about, a) \in {Message(j, about, a) : j \in Recipients(a, identities) \cap hc[w].known}
  OBVIOUS
<1>5. Message(i, about, a) \in sent'
  BY <1>4 DEF Send
<1>6. Message(i, about, a).to = i
  BY DEF Message
<1>7. QED
  BY <1>3, <1>5, <1>6

\* An alert that is not limited is heard by all of them.
LEMMA UnlimitedHeard ==
    ASSUME HeardType, NEW w \in Workers, NEW about, NEW alerts, NEW identities,
           Send(w, about, alerts, identities),
           NEW a \in alerts, a.case \notin Cases, NEW i \in identities \cap hc[w].known
    PROVE  <<i, about>> \in heard'[w]
<1>1. i \in Recipients(a, identities) \cap hc[w].known
  BY DEF Recipients
<1>2. QED
  BY <1>1, AlertHeard

\* Every watcher that the round c knows has heard of the chain.
AllHeard(c, h) == \A i \in AllWatchers \cap c.known : <<i, TheChain>> \in h

LEMMA BroadcastHeard ==
    ASSUME HeardType, NEW w \in Workers, NEW case, case \notin Cases, Broadcast(w, case)
    PROVE  AllHeard(hc[w], heard'[w])
<1> DEFINE a == Alert(case, 0, FALSE)
<1>1. Send(w, TheChain, {a}, AllWatchers) /\ a.case \notin Cases
  BY DEF Broadcast, Alert
<1>2. QED
  BY <1>1, UnlimitedHeard DEF AllHeard

\* The watchers of v that the round c knows have heard of it or of the chain.
HeardOf(v, c, h) == \A i \in Watchers[v] \cap c.known : {<<i, v>>, <<i, TheChain>>} \cap h # {}

LEMMA AllHeardOf ==
    ASSUME NEW v \in Validators, NEW c, NEW h, AllHeard(c, h)
    PROVE  HeardOf(v, c, h)
BY DEF AllHeard, HeardOf, AllWatchers

\* What the round c, whose watchers heard h, has of the chain in the condition
\* ch with the parameters p: the truth, or its watchers heard why not.
Truthful(ch, p, c, h) ==
    /\ c.pc \in {"signingInfos", "params", "check", "optional"} =>
          c.bonds = [v \in Validators |-> ch[v].bond]
    /\ c.pc \in {"params", "check", "optional"} =>
          \/ c.signs = [v \in Validators |-> [sign |-> ch[v].sign, missed |-> ch[v].missed]]
          \/ (c.signs = Failed /\ AllHeard(c, h))
    /\ c.pc \in {"check", "optional"} => (c.params = p \/ (c.params = Failed /\ AllHeard(c, h)))
    /\ c.pc = "optional" =>
          \/ c.entry = Shown(ch[c.checking].bond, ch[c.checking])
          \/ HeardOf(c.checking, c, h)

\* Which parts of a round are filled in at each of its stages.
Staged(c) ==
    /\ c.pc \in {"idle", "rpc", "validators", "signingInfos"} => c.signs = Failed
    /\ c.pc \in {"idle", "rpc", "validators", "signingInfos", "params"} => c.params = Failed /\ c.todo = {}
    /\ c.pc # "optional" => c.checking = TheChain
    /\ c.pc = "managed" => c.todo \subseteq ManagedRPCs
    /\ c.pc \in {"check", "optional"} => c.todo \subseteq Validators

LEMMA HearingMore ==
    ASSUME NEW ch, NEW p, NEW c, NEW h, NEW g, h \subseteq g, Truthful(ch, p, c, h)
    PROVE  Truthful(ch, p, c, g)
<1>1. AllHeard(c, h) => AllHeard(c, g)
  BY DEF AllHeard
<1>2. HeardOf(c.checking, c, h) => HeardOf(c.checking, c, g)
  BY DEF HeardOf
<1>3. QED
  BY <1>1, <1>2 DEF Truthful

\* What holds of the round of w: its stage, and its truth while the chain stands still.
Sound(w) == Staged(hc[w]) /\ (w \in steady => Truthful(chain, params, hc[w], heard[w]))

LEMMA RestingSound ==
    /\ Staged(Resting)
    /\ \A ch, p, h : Truthful(ch, p, Resting, h)
BY DEF Staged, Truthful, Resting

\* A step that leaves the chain alone and the round of w with r.
LEMMA SoundRound ==
    ASSUME RoundType, NEW w \in Workers, NEW r, hc' = [hc EXCEPT ![w] = r], Staged(r),
           UNCHANGED <<env, steady>>,
           w \in steady => Truthful(chain, params, r, heard'[w])
    PROVE  Sound(w)'
<1>1. hc'[w] = r
  BY DEF RoundType
<1>2. UNCHANGED <<chain, params, steady>>
  BY DEF env
<1>3. QED
  BY <1>1, <1>2 DEF Sound

LEMMA EndSound ==
    ASSUME RoundType, NEW w \in Workers, EndRound(w), UNCHANGED <<env, steady>>
    PROVE  Sound(w)'
BY RestingSound, SoundRound DEF EndRound

\* Another worker's step.
LEMMA OtherSound ==
    ASSUME RoundType, HeardType, NEW w \in Workers, NEW u \in Workers, u # w,
           NEW r, hc' = [hc EXCEPT ![u] = r],
           Speaks(u) \/ heard' = [heard EXCEPT ![u] = {}],
           UNCHANGED env, steady' \in {steady, steady \cup {u}}, Sound(w)
    PROVE  Sound(w)'
<1>1. hc'[w] = hc[w]
  BY DEF RoundType
<1>2. heard'[w] = heard[w]
  BY SendGrows DEF HeardType
<1>3. UNCHANGED <<chain, params>> /\ (w \in steady' <=> w \in steady)
  BY DEF env
<1>4. QED
  BY <1>1, <1>2, <1>3 DEF Sound

\* Every step of a round changes that round, and says nothing or sends alerts.
LEMMA RoundShape ==
    ASSUME RoundType, NEW w \in Workers, Round(w)
    PROVE  /\ \E r : hc' = [hc EXCEPT ![w] = r]
           /\ UNCHANGED env
           /\ StartRound(w) \/ (Speaks(w) /\ UNCHANGED steady)
<1> DEFINE Shape == \E r : hc' = [hc EXCEPT ![w] = r]
           Tone == UNCHANGED env /\ (StartRound(w) \/ (Speaks(w) /\ UNCHANGED steady))
<1>0. hc \in [Workers -> Rounds]
  BY DEF RoundType
<1>1. CASE StartRound(w)
  <2>1. hc' = [hc EXCEPT ![w] = [hc[w] EXCEPT !.pc = "rpc", !.known = users \cap AllWatchers]]
    BY <1>0, <1>1 DEF StartRound
  <2>2. QED
    BY <1>1, <2>1 DEF StartRound
<1>2. (\E pc : Go(w, pc)) \/ EndRound(w) \/ (\E v : Done(w, v)) => Shape
  <2>1. ASSUME NEW pc, Go(w, pc) PROVE Shape
    <3>1. hc' = [hc EXCEPT ![w] = [hc[w] EXCEPT !.pc = pc]]
      BY <1>0, <2>1 DEF Go
    <3>2. QED
      BY <3>1
  <2>2. ASSUME NEW v, Done(w, v) PROVE Shape
    <3>1. hc' = [hc EXCEPT ![w] = [hc[w] EXCEPT !.todo = @ \ {v}]]
      BY <1>0, <2>2 DEF Done
    <3>2. QED
      BY <3>1
  <2>3. EndRound(w) => Shape
    BY DEF EndRound
  <2>4. QED
    BY <2>1, <2>2, <2>3
<1>3. CASE PickRpc(w)
  BY <1>2, <1>3 DEF PickRpc, Fail, Broadcast, Speaks
<1>4. CASE FetchValidators(w)
  <2>1. ASSUME hc' = [hc EXCEPT ![w].pc = "signingInfos", ![w].bonds = AllValidators]
        PROVE  Shape
    <3>1. hc' = [hc EXCEPT ![w] = [hc[w] EXCEPT !.pc = "signingInfos", !.bonds = AllValidators]]
      BY <1>0, <2>1
    <3>2. QED
      BY <3>1
  <2>2. Tone /\ (EndRound(w) \/ hc' = [hc EXCEPT ![w].pc = "signingInfos", ![w].bonds = AllValidators])
    BY <1>4 DEF FetchValidators, Fail, Broadcast, Speaks
  <2>3. QED
    BY <1>2, <2>1, <2>2
<1>5. CASE FetchSigningInfos(w)
  <2>1. ASSUME hc' = [hc EXCEPT ![w].pc = "params", ![w].signs = AllSigningInfos]
        PROVE  Shape
    <3>1. hc' = [hc EXCEPT ![w] = [hc[w] EXCEPT !.pc = "params", !.signs = AllSigningInfos]]
      BY <1>0, <2>1
    <3>2. QED
      BY <3>1
  <2>2. Tone /\ (Go(w, "params") \/ hc' = [hc EXCEPT ![w].pc = "params", ![w].signs = AllSigningInfos])
    BY <1>5 DEF FetchSigningInfos, Broadcast, Speaks
  <2>3. QED
    BY <1>2, <2>1, <2>2
<1>6. CASE FetchParams(w)
  <2>1. ASSUME hc' = [hc EXCEPT ![w].pc = "check", ![w].todo = Validators]
        PROVE  Shape
    <3>1. hc' = [hc EXCEPT ![w] = [hc[w] EXCEPT !.pc = "check", !.todo = Validators]]
      BY <1>0, <2>1
    <3>2. QED
      BY <3>1
  <2>2. ASSUME hc' = [hc EXCEPT ![w].pc = "check", ![w].todo = Validators, ![w].params = SlashingParams]
        PROVE  Shape
    <3>1. hc' = [hc EXCEPT ![w] = [hc[w] EXCEPT !.pc = "check", !.todo = Validators, !.params = SlashingParams]]
      BY <1>0, <2>2
    <3>2. QED
      BY <3>1
  <2>3. Tone /\ (\/ hc' = [hc EXCEPT ![w].pc = "check", ![w].todo = Validators]
                 \/ hc' = [hc EXCEPT ![w].pc = "check", ![w].todo = Validators, ![w].params = SlashingParams])
    BY <1>6 DEF FetchParams, Broadcast, Speaks
  <2>4. QED
    BY <2>1, <2>2, <2>3
<1>7. ASSUME NEW v \in Validators, SkipPaused(w, v) \/ NotFound(w, v)
      PROVE  Shape /\ Tone
  BY <1>2, <1>7 DEF SkipPaused, NotFound, Speaks
<1>8. ASSUME NEW v \in Validators, CheckValidator(w, v)
      PROVE  Shape /\ Tone
  <2>1. CASE hc' = [hc EXCEPT ![w].pc = "optional", ![w].checking = v, ![w].entry = Entry(w, v)]
    <3>1. hc' = [hc EXCEPT ![w] = [hc[w] EXCEPT !.pc = "optional", !.checking = v, !.entry = Entry(w, v)]]
      BY <1>0, <2>1
    <3>2. QED
      BY <1>8, <3>1 DEF CheckValidator, Speaks
  <2>2. CASE Done(w, v)
    BY <1>2, <1>8, <2>2 DEF CheckValidator, Speaks
  <2>3. QED
    BY <1>8, <2>1, <2>2 DEF CheckValidator
<1>9. CASE CheckOptionalRPC(w)
  <2>1. hc' = [hc EXCEPT ![w] = [hc[w] EXCEPT !.pc = "check", !.todo = @ \ {hc[w].checking},
                                              !.checking = TheChain, !.entry = NoEntry]]
    BY <1>0, <1>9 DEF CheckOptionalRPC
  <2>2. QED
    BY <1>9, <2>1 DEF CheckOptionalRPC, Speaks
<1>10. CASE EndValidators(w)
  BY <1>2, <1>10 DEF EndValidators, Speaks
<1>11. ASSUME NEW r \in ManagedRPCs, CheckManagedRPC(w, r)
       PROVE  Shape /\ Tone
  BY <1>2, <1>11 DEF CheckManagedRPC, Speaks
<1>12. QED
  BY <1>1, <1>3, <1>4, <1>5, <1>6, <1>7, <1>8, <1>9, <1>10, <1>11 DEF Round, CheckStep

\* The beginning of a round.
LEMMA FetchSound ==
    ASSUME WorldType, RoundType, HeardType, NEW w \in Workers, Sound(w),
           \/ StartRound(w) \/ PickRpc(w) \/ FetchValidators(w)
           \/ FetchSigningInfos(w) \/ FetchParams(w)
    PROVE  Sound(w)'
<1> DEFINE c == hc[w]
           true == w \in steady
<1>0. hc \in [Workers -> Rounds] /\ c \in Rounds /\ Staged(c)
      /\ (true => Truthful(chain, params, c, heard[w]))
  BY DEF RoundType, Sound
<1>1. CASE StartRound(w)
  <2> DEFINE r == [c EXCEPT !.pc = "rpc", !.known = users \cap AllWatchers]
  <2>1. hc' = [hc EXCEPT ![w] = r] /\ c.pc = "idle"
    BY <1>0, <1>1 DEF StartRound
  <2>2. r.pc = "rpc" /\ Staged(r)
    BY <1>0, <2>1 DEF Staged, Rounds
  <2>3. \A ch, p, h : Truthful(ch, p, r, h)
    BY <2>2 DEF Truthful
  <2> HIDE DEF r
  <2>4. hc'[w] = r
    BY <1>0, <2>1
  <2>5. QED
    BY <2>2, <2>3, <2>4 DEF Sound
<1>2. CASE Fail(w)
  BY <1>2, EndSound DEF Fail
<1>3. CASE PickRpc(w) /\ ~Fail(w)
  <2> DEFINE r == [c EXCEPT !.pc = "validators"]
  <2>1. hc' = [hc EXCEPT ![w] = r] /\ c.pc = "rpc" /\ UNCHANGED <<env, steady>>
    BY <1>0, <1>3 DEF PickRpc, Go
  <2>2. r.pc = "validators" /\ Staged(r)
    BY <1>0, <2>1 DEF Staged, Rounds
  <2>3. \A ch, p, h : Truthful(ch, p, r, h)
    BY <2>2 DEF Truthful
  <2> HIDE DEF r
  <2>4. QED
    BY <2>1, <2>2, <2>3, SoundRound
<1>4. CASE FetchValidators(w) /\ ~Fail(w)
  <2> DEFINE r == [c EXCEPT !.pc = "signingInfos", !.bonds = AllValidators]
  <2>1. hc' = [hc EXCEPT ![w] = r] /\ c.pc = "validators" /\ UNCHANGED <<env, steady>>
    BY <1>0, <1>4 DEF FetchValidators
  <2>2. r.pc = "signingInfos" /\ Staged(r) /\ r.bonds = [v \in Validators |-> chain[v].bond]
    BY <1>0, <2>1 DEF Staged, Rounds, AllValidators
  <2>3. \A h : Truthful(chain, params, r, h)
    BY <2>2 DEF Truthful
  <2> HIDE DEF r
  <2>4. QED
    BY <2>1, <2>2, <2>3, SoundRound
<1>5. CASE FetchSigningInfos(w)
  <2>0. c.pc = "signingInfos" /\ UNCHANGED <<env, steady>>
    BY <1>5 DEF FetchSigningInfos
  <2>1. c.bonds = [v \in Validators |-> chain[v].bond] \/ ~true
    BY <1>0, <2>0 DEF Truthful
  <2>2. CASE Broadcast(w, "noSigningInfos") /\ Go(w, "params")
    <3> DEFINE r == [c EXCEPT !.pc = "params"]
    <3>1. hc' = [hc EXCEPT ![w] = r]
      BY <1>0, <2>2 DEF Go
    <3>2. r.pc = "params" /\ Staged(r) /\ r.bonds = c.bonds /\ r.signs = Failed /\ r.known = c.known
      BY <1>0, <2>0 DEF Staged, Rounds
    <3>3. AllHeard(c, heard'[w])
      BY <2>2, BroadcastHeard DEF Cases
    <3>4. AllHeard(r, heard'[w])
      BY <3>2, <3>3 DEF AllHeard
    <3> HIDE DEF r
    <3>5. true => Truthful(chain, params, r, heard'[w])
      BY <2>1, <3>2, <3>4 DEF Truthful
    <3>6. QED
      BY <2>0, <3>1, <3>2, <3>5, SoundRound
  <2>3. CASE hc' = [hc EXCEPT ![w].pc = "params", ![w].signs = AllSigningInfos]
    <3> DEFINE r == [c EXCEPT !.pc = "params", !.signs = AllSigningInfos]
    <3>1. hc' = [hc EXCEPT ![w] = r]
      BY <1>0, <2>3
    <3>2. /\ r.pc = "params" /\ Staged(r) /\ r.bonds = c.bonds
          /\ r.signs = [v \in Validators |-> [sign |-> chain[v].sign, missed |-> chain[v].missed]]
      BY <1>0, <2>0 DEF Staged, Rounds, AllSigningInfos
    <3> HIDE DEF r
    <3>3. true => Truthful(chain, params, r, heard'[w])
      BY <2>1, <3>2 DEF Truthful
    <3>4. QED
      BY <2>0, <3>1, <3>2, <3>3, SoundRound
  <2>4. QED
    BY <1>5, <2>2, <2>3 DEF FetchSigningInfos
<1>6. CASE FetchParams(w)
  <2>0. c.pc = "params" /\ UNCHANGED <<env, steady>>
    BY <1>6 DEF FetchParams
  <2>1. heard[w] \subseteq heard'[w]
    BY <1>6, SendGrows DEF FetchParams, Broadcast, Speaks
  <2>2. true => Truthful(chain, params, c, heard'[w])
    BY <1>0, <2>1, HearingMore
  <2>3. CASE Broadcast(w, "noParams") /\ hc' = [hc EXCEPT ![w].pc = "check", ![w].todo = Validators]
    <3> DEFINE r == [c EXCEPT !.pc = "check", !.todo = Validators]
    <3>1. hc' = [hc EXCEPT ![w] = r]
      BY <1>0, <2>3
    <3>2. /\ r.pc = "check" /\ Staged(r) /\ r.params = Failed
          /\ r.bonds = c.bonds /\ r.signs = c.signs /\ r.known = c.known
      BY <1>0, <2>0 DEF Staged, Rounds
    <3>3. AllHeard(c, heard'[w])
      BY <2>3, BroadcastHeard DEF Cases
    <3>4. AllHeard(r, heard'[w])
      BY <3>2, <3>3 DEF AllHeard
    <3> HIDE DEF r
    <3>5. true => Truthful(chain, params, r, heard'[w])
      BY <2>0, <2>2, <3>2, <3>4 DEF Truthful
    <3>6. QED
      BY <2>0, <3>1, <3>2, <3>5, SoundRound
  <2>4. CASE hc' = [hc EXCEPT ![w].pc = "check", ![w].todo = Validators, ![w].params = SlashingParams]
    <3> DEFINE r == [c EXCEPT !.pc = "check", !.todo = Validators, !.params = SlashingParams]
    <3>1. hc' = [hc EXCEPT ![w] = r]
      BY <1>0, <2>4
    <3>2. /\ r.pc = "check" /\ Staged(r) /\ r.params = params
          /\ r.bonds = c.bonds /\ r.signs = c.signs /\ r.known = c.known
      BY <1>0, <2>0 DEF Staged, Rounds, SlashingParams
    <3> HIDE DEF r
    <3>3. AllHeard(c, heard'[w]) => AllHeard(r, heard'[w])
      BY <3>2 DEF AllHeard
    <3>4. true => Truthful(chain, params, r, heard'[w])
      BY <2>0, <2>2, <3>2, <3>3 DEF Truthful
    <3>5. QED
      BY <2>0, <3>1, <3>2, <3>4, SoundRound
  <2>5. QED
    BY <1>6, <2>3, <2>4 DEF FetchParams
<1>7. QED
  BY <1>1, <1>2, <1>3, <1>4, <1>5, <1>6 DEF PickRpc, FetchValidators

\* A validator is done with.
LEMMA DoneSound ==
    ASSUME RoundType, HeardType, NEW w \in Workers, NEW v, Done(w, v), Speaks(w), Sound(w),
           hc[w].pc \in {"check", "managed"}, UNCHANGED <<env, steady>>
    PROVE  Sound(w)'
<1> DEFINE c == hc[w]
           r == [c EXCEPT !.todo = @ \ {v}]
<1>0. hc \in [Workers -> Rounds] /\ c \in Rounds /\ Staged(c)
  BY DEF RoundType, Sound
<1>1. hc' = [hc EXCEPT ![w] = r]
  BY <1>0 DEF Done
<1>2. /\ r.pc = c.pc /\ r.bonds = c.bonds /\ r.signs = c.signs /\ r.params = c.params
      /\ r.known = c.known /\ r.entry = c.entry /\ r.checking = c.checking
      /\ r.todo = c.todo \ {v}
  BY <1>0 DEF Rounds
<1>3. Staged(r)
  BY <1>0, <1>2 DEF Staged
<1>4. ASSUME w \in steady
      PROVE  Truthful(chain, params, r, heard'[w])
  <2>1. Truthful(chain, params, c, heard'[w])
    BY <1>4, SendGrows, HearingMore DEF Sound
  <2>2. AllHeard(c, heard'[w]) => AllHeard(r, heard'[w])
    BY <1>2 DEF AllHeard
  <2>3. QED
    BY <1>2, <2>1, <2>2 DEF Truthful
<1>5. QED
  BY <1>1, <1>3, <1>4, SoundRound

\* No call that answers answers that it failed.
LEMMA TrueSigns ==
    ASSUME WorldType
    PROVE  [v \in Validators |-> [sign |-> chain[v].sign, missed |-> chain[v].missed]] # Failed
<1>1. [v \in Validators |-> [sign |-> chain[v].sign, missed |-> chain[v].missed]]
         \in [Validators -> [sign : Signs, missed : Nat]]
  BY DEF WorldType, Condition
<1>2. QED
  BY <1>1, HealthCheckAssumption

\* What CheckValidator makes of a validator is the truth, or is heard of.
LEMMA EntryIsTrue ==
    ASSUME WorldType, RoundType, HeardType, NEW w \in Workers, NEW v \in Validators,
           CheckValidator(w, v), Truthful(chain, params, hc[w], heard[w])
    PROVE  Entry(w, v) = Shown(chain[v].bond, chain[v]) \/ HeardOf(v, hc[w], heard'[w])
<1> DEFINE c == hc[w]
<1>1. Send(w, v, ValidatorAlerts(w, v), Watchers[v]) /\ c.pc = "check"
  BY DEF CheckValidator, Checking
<1>2. c.bonds[v] = chain[v].bond
  BY <1>1 DEF Truthful
<1>3. heard[w] \subseteq heard'[w]
  BY <1>1, SendGrows DEF Speaks
<1>4. CASE c.signs = Failed /\ AllHeard(c, heard[w])
  <2>1. AllHeard(c, heard'[w])
    BY <1>3, <1>4 DEF AllHeard
  <2>2. QED
    BY <2>1, AllHeardOf
<1>5. CASE /\ c.signs # Failed
           /\ c.signs = [u \in Validators |-> [sign |-> chain[u].sign, missed |-> chain[u].missed]]
  <2>1. CASE v \in mapped
    <3>1. Entry(w, v) = Shown(c.bonds[v], c.signs[v])
      BY <1>5, <2>1 DEF Entry
    <3>2. c.signs[v] = [sign |-> chain[v].sign, missed |-> chain[v].missed]
      BY <1>5
    <3>3. QED
      BY <1>2, <3>1, <3>2 DEF Shown
  <2>2. CASE v \notin mapped
    <3> DEFINE a == Alert("notInMapping", 0, FALSE)
    <3>1. a \in ValidatorAlerts(w, v)
      BY <1>5, <2>2 DEF ValidatorAlerts
    <3>2. a.case \notin Cases
      BY DEF Alert, Cases
    <3> HIDE DEF a
    <3>3. QED
      BY <1>1, <3>1, <3>2, UnlimitedHeard DEF HeardOf
  <2>3. QED
    BY <2>1, <2>2
<1>6. [u \in Validators |-> [sign |-> chain[u].sign, missed |-> chain[u].missed]] # Failed
  BY TrueSigns
<1>7. QED
  BY <1>1, <1>4, <1>5, <1>6 DEF Truthful

LEMMA CheckSound ==
    ASSUME WorldType, RoundType, HeardType, NEW w \in Workers, Sound(w),
           CheckStep(w) \/ CheckOptionalRPC(w)
    PROVE  Sound(w)'
<1> DEFINE c == hc[w]
<1>0. hc \in [Workers -> Rounds] /\ c \in Rounds /\ Staged(c)
      /\ (w \in steady => Truthful(chain, params, c, heard[w]))
  BY DEF RoundType, Sound
<1>1. ASSUME NEW v \in Validators, SkipPaused(w, v) \/ NotFound(w, v)
      PROVE  Sound(w)'
  BY <1>1, DoneSound DEF SkipPaused, NotFound, Checking, Speaks
<1>2. ASSUME NEW v \in Validators, CheckValidator(w, v)
      PROVE  Sound(w)'
  <2>1. UNCHANGED <<env, steady>> /\ Speaks(w) /\ c.pc = "check"
    BY <1>2 DEF CheckValidator, Checking, Speaks
  <2>2. CASE v \notin OptionalRPC
    BY <1>2, <2>1, <2>2, DoneSound DEF CheckValidator
  <2>3. CASE v \in OptionalRPC
    <3> DEFINE r == [c EXCEPT !.pc = "optional", !.checking = v, !.entry = Entry(w, v)]
    <3>1. hc' = [hc EXCEPT ![w] = r]
      BY <1>0, <1>2, <2>3 DEF CheckValidator
    <3>2. /\ r.pc = "optional" /\ r.checking = v /\ r.entry = Entry(w, v) /\ Staged(r)
          /\ r.bonds = c.bonds /\ r.signs = c.signs /\ r.params = c.params /\ r.known = c.known
      BY <1>0, <2>1 DEF Staged, Rounds
    <3> HIDE DEF r
    <3>3. ASSUME w \in steady
          PROVE  Truthful(chain, params, r, heard'[w])
      <4>1. Truthful(chain, params, c, heard'[w])
        BY <1>0, <2>1, <3>3, SendGrows, HearingMore
      <4>2. Entry(w, v) = Shown(chain[v].bond, chain[v]) \/ HeardOf(v, c, heard'[w])
        BY <1>0, <1>2, <3>3, EntryIsTrue
      <4>3. /\ AllHeard(c, heard'[w]) => AllHeard(r, heard'[w])
            /\ HeardOf(v, c, heard'[w]) => HeardOf(v, r, heard'[w])
        BY <3>2 DEF AllHeard, HeardOf
      <4>4. QED
        BY <2>1, <3>2, <4>1, <4>2, <4>3 DEF Truthful
    <3>4. QED
      BY <2>1, <3>1, <3>2, <3>3, SoundRound
  <2>4. QED
    BY <2>2, <2>3
<1>3. CASE CheckOptionalRPC(w)
  <2> DEFINE r == [c EXCEPT !.pc = "check", !.todo = @ \ {c.checking}, !.checking = TheChain, !.entry = NoEntry]
  <2>1. UNCHANGED <<env, steady>> /\ Speaks(w) /\ c.pc = "optional"
    BY <1>3 DEF CheckOptionalRPC, Speaks
  <2>2. hc' = [hc EXCEPT ![w] = r]
    BY <1>0, <1>3 DEF CheckOptionalRPC
  <2>3. /\ r.pc = "check" /\ Staged(r)
        /\ r.bonds = c.bonds /\ r.signs = c.signs /\ r.params = c.params /\ r.known = c.known
    BY <1>0, <2>1 DEF Staged, Rounds
  <2> HIDE DEF r
  <2>4. ASSUME w \in steady
        PROVE  Truthful(chain, params, r, heard'[w])
    <3>1. Truthful(chain, params, c, heard'[w])
      BY <1>0, <2>1, <2>4, SendGrows, HearingMore
    <3>2. AllHeard(c, heard'[w]) => AllHeard(r, heard'[w])
      BY <2>3 DEF AllHeard
    <3>3. QED
      BY <2>1, <2>3, <3>1, <3>2 DEF Truthful
  <2>5. QED
    BY <2>1, <2>2, <2>3, <2>4, SoundRound
<1>4. QED
  BY <1>1, <1>2, <1>3 DEF CheckStep

LEMMA ManagedSound ==
    ASSUME RoundType, HeardType, NEW w \in Workers, Sound(w),
           EndValidators(w) \/ \E r \in ManagedRPCs : CheckManagedRPC(w, r)
    PROVE  Sound(w)'
<1>1. UNCHANGED <<env, steady>> /\ Speaks(w)
  BY DEF EndValidators, CheckManagedRPC, Speaks
<1>2. CASE EndRound(w)
  BY <1>1, <1>2, EndSound
<1>3. CASE EndValidators(w) /\ ~EndRound(w)
  <2> DEFINE r == [Resting EXCEPT !.pc = "managed", !.todo = ManagedRPCs,
                                  !.known = hc[w].known, !.roots = RootWatchers(w)]
  <2>1. hc' = [hc EXCEPT ![w] = r]
    BY <1>3 DEF EndValidators
  <2>2. r.pc = "managed" /\ Staged(r)
    BY DEF Staged, Resting
  <2>3. \A ch, p, h : Truthful(ch, p, r, h)
    BY <2>2 DEF Truthful
  <2> HIDE DEF r
  <2>4. QED
    BY <1>1, <2>1, <2>2, <2>3, SoundRound
<1>4. ASSUME NEW r \in ManagedRPCs, CheckManagedRPC(w, r), ~EndRound(w)
      PROVE  Sound(w)'
  BY <1>1, <1>4, DoneSound DEF CheckManagedRPC
<1>5. QED
  BY <1>2, <1>3, <1>4 DEF EndValidators, CheckManagedRPC

AllSound == \A w \in Workers : Sound(w)

LEMMA RoundSound ==
    ASSUME WorldType, RoundType, HeardType, NEW w \in Workers, Sound(w), Round(w)
    PROVE  Sound(w)'
<1>1. CASE \/ StartRound(w) \/ PickRpc(w) \/ FetchValidators(w)
           \/ FetchSigningInfos(w) \/ FetchParams(w)
  BY <1>1, FetchSound
<1>2. CASE CheckStep(w) \/ CheckOptionalRPC(w)
  BY <1>2, CheckSound
<1>3. CASE EndValidators(w) \/ \E r \in ManagedRPCs : CheckManagedRPC(w, r)
  BY <1>3, ManagedSound
<1>4. QED
  BY <1>1, <1>2, <1>3 DEF Round

LEMMA NextSound ==
    ASSUME IInv, AllSound, [Next]_vars
    PROVE  AllSound'
<1> SUFFICES ASSUME NEW w \in Workers
             PROVE  Sound(w)'
  BY DEF AllSound
<1>0. WorldType /\ RoundType /\ HeardType /\ Sound(w)
  BY DEF IInv, TypeOK, AllSound
<1>1. ASSUME NEW u \in Workers, Round(u)
      PROVE  Sound(w)'
  <2>1. CASE u = w
    BY <1>0, <1>1, <2>1, RoundSound
  <2>2. CASE u # w
    <3>1. PICK r : hc' = [hc EXCEPT ![u] = r]
      BY <1>0, <1>1, RoundShape
    <3>2. UNCHANGED env /\ (StartRound(u) \/ (Speaks(u) /\ UNCHANGED steady))
      BY <1>0, <1>1, RoundShape
    <3>3. Speaks(u) \/ heard' = [heard EXCEPT ![u] = {}]
      BY <3>2 DEF StartRound
    <3>4. steady' \in {steady, steady \cup {u}}
      BY <3>2 DEF StartRound
    <3>5. QED
      BY <1>0, <2>2, <3>1, <3>2, <3>3, <3>4, OtherSound
  <2>3. QED
    BY <2>1, <2>2
<1>2. CASE ReloadUsers \/ (\E v \in Validators : PauseValidator(v)) \/ Tick \/ UNCHANGED vars
  <2>1. UNCHANGED <<chain, params, hc, heard, steady>>
    BY <1>2 DEF ReloadUsers, PauseValidator, Tick, vars, env
  <2>2. QED
    BY <1>0, <2>1 DEF Sound
<1>3. CASE ChangeChain
  <2>1. UNCHANGED <<hc, heard>> /\ (w \in steady' => hc[w].pc = "idle")
    BY <1>3 DEF ChangeChain
  <2>2. w \in steady' => Truthful(chain', params', hc[w], heard[w])
    BY <2>1 DEF Truthful
  <2>3. QED
    BY <1>0, <2>1, <2>2 DEF Sound
<1>4. QED
  BY <1>1, <1>2, <1>3 DEF Next, World

LEMMA InitSound == Init => AllSound
<1> SUFFICES ASSUME Init, NEW w \in Workers
             PROVE  Sound(w)
  BY DEF AllSound
<1>1. hc[w] = Resting
  BY DEF Init
<1>2. QED
  BY <1>1, RestingSound DEF Sound

(***************************************************************************)
(* What a round that is done with a validator has shown and told of it.    *)
(***************************************************************************)
\* A step of another worker, or of the world, is not the end of a round's check.
LEMMA OwnStep ==
    ASSUME RoundType, NEW w \in Workers, hc'[w] # hc[w], Next
    PROVE  Round(w)
<1>1. ASSUME NEW u \in Workers, Round(u)
      PROVE  u = w
  <2>1. PICK r : hc' = [hc EXCEPT ![u] = r]
    BY <1>1, RoundShape
  <2>2. QED
    BY <2>1 DEF RoundType
<1>2. UNCHANGED hc \/ \E u \in Workers : Round(u)
  BY DEF Next, World, ReloadUsers, PauseValidator, ChangeChain, Tick
<1>3. QED
  BY <1>1, <1>2

\* In the loop over the validators a step looks at one of them.
LEMMA DoneIsOne ==
    ASSUME RoundType, NEW w \in Workers, NEW u, Done(w, u)
    PROVE  /\ hc'[w].todo = hc[w].todo \ {u}
           /\ hc'[w].checking = hc[w].checking
<1>1. hc \in [Workers -> Rounds] /\ hc[w] \in Rounds
  BY DEF RoundType
<1>2. hc'[w] = [hc[w] EXCEPT !.todo = @ \ {u}]
  BY <1>1 DEF Done
<1>3. QED
  BY <1>1, <1>2 DEF Rounds

LEMMA OptionalIsOne ==
    ASSUME RoundType, NEW w \in Workers, NEW u, NEW e,
           hc' = [hc EXCEPT ![w].pc = "optional", ![w].checking = u, ![w].entry = e]
    PROVE  hc'[w].todo = hc[w].todo /\ hc'[w].checking = u
<1>1. hc \in [Workers -> Rounds] /\ hc[w] \in Rounds
  BY DEF RoundType
<1>2. hc'[w] = [hc[w] EXCEPT !.pc = "optional", !.checking = u, !.entry = e]
  BY <1>1
<1>3. QED
  BY <1>1, <1>2 DEF Rounds

LEMMA CheckLooks ==
    ASSUME RoundType, NEW w \in Workers, Sound(w), NEW v \in Validators \ paused, CheckStep(w),
           v \notin hc'[w].todo \/ hc'[w].checking = v, v \in hc[w].todo
    PROVE  NotFound(w, v) \/ CheckValidator(w, v)
<1>1. PICK u \in Validators : SkipPaused(w, u) \/ NotFound(w, u) \/ CheckValidator(w, u)
  BY DEF CheckStep
<1>2. hc[w].checking = TheChain /\ v # TheChain
  BY <1>1, HealthCheckAssumption DEF SkipPaused, NotFound, CheckValidator, Checking, Sound, Staged
<1>3. CASE Done(w, u)
  <2>1. u = v
    BY <1>2, <1>3, DoneIsOne
  <2>2. QED
    BY <1>1, <2>1 DEF SkipPaused
<1>4. CASE ~Done(w, u)
  <2>1. CheckValidator(w, u) /\ hc' = [hc EXCEPT ![w].pc = "optional", ![w].checking = u, ![w].entry = Entry(w, u)]
    BY <1>1, <1>4 DEF SkipPaused, NotFound, CheckValidator
  <2>2. u = v
    BY <2>1, OptionalIsOne
  <2>3. QED
    BY <2>1, <2>2
<1>5. QED
  BY <1>3, <1>4

LEMMA NotFoundHeard ==
    ASSUME HeardType, NEW w \in Workers, NEW v \in Validators, NotFound(w, v)
    PROVE  HeardOf(v, hc[w], heard'[w])
<1> DEFINE a == Alert("notFound", 0, FALSE)
<1>1. Send(w, v, {a}, Watchers[v]) /\ a.case \notin Cases
  BY DEF NotFound, Alert, Cases
<1> HIDE DEF a
<1>2. QED
  BY <1>1, UnlimitedHeard DEF HeardOf

ShowsTruth(w, v) ==
    \/ cache'[v] = Shown(chain[v].bond, chain[v])
    \/ \A i \in Watchers[v] \cap hc[w].known : {<<i, v>>, <<i, TheChain>>} \cap heard'[w] # {}

LEMMA DoneShowsTruth ==
    ASSUME IInv, AllSound, Next, NEW w \in steady, NEW v \in Validators \ paused, DoneWith(w, v)
    PROVE  ShowsTruth(w, v)
<1>0. /\ w \in Workers /\ WorldType /\ RoundType /\ CacheType /\ HeardType /\ Sound(w)
      /\ hc[w] \in Rounds /\ hc \in [Workers -> Rounds]
  BY DEF IInv, TypeOK, AllSound, RoundType
<1>1. v \in hc[w].todo /\ v \notin hc'[w].todo
  BY DEF DoneWith
<1>2. Round(w)
  BY <1>0, <1>1, OwnStep
<1>3. hc[w].pc \in {"check", "optional"}
  <2>1. hc[w].pc \notin {"idle", "rpc", "validators", "signingInfos", "params"}
    BY <1>0, <1>1 DEF Sound, Staged
  <2>2. hc[w].pc # "managed"
    BY <1>0, <1>1, HealthCheckAssumption DEF Sound, Staged
  <2>3. QED
    BY <1>0, <2>1, <2>2 DEF Rounds
<1>4. CheckStep(w) \/ CheckOptionalRPC(w)
  <2>1. ~EndValidators(w) /\ \A r \in ManagedRPCs : ~CheckManagedRPC(w, r)
    BY <1>1, <1>3 DEF EndValidators, CheckManagedRPC
  <2>2. ~StartRound(w) /\ ~PickRpc(w) /\ ~FetchValidators(w) /\ ~FetchSigningInfos(w) /\ ~FetchParams(w)
    BY <1>3 DEF StartRound, PickRpc, FetchValidators, FetchSigningInfos, FetchParams
  <2>3. QED
    BY <1>2, <2>1, <2>2 DEF Round
<1>5. CASE CheckStep(w)
  <2>1. CASE NotFound(w, v)
    BY <1>0, <2>1, NotFoundHeard DEF ShowsTruth, HeardOf
  <2>2. CASE CheckValidator(w, v)
    <3>1. Entry(w, v) = Shown(chain[v].bond, chain[v]) \/ HeardOf(v, hc[w], heard'[w])
      BY <1>0, <2>2, EntryIsTrue DEF Sound
    <3>2. cache' = [cache EXCEPT ![v] = Entry(w, v)]
      <4>1. ASSUME v \in OptionalRPC
            PROVE  FALSE
        <5>1. hc' = [hc EXCEPT ![w].pc = "optional", ![w].checking = v, ![w].entry = Entry(w, v)]
          BY <2>2, <4>1 DEF CheckValidator
        <5>2. hc'[w].todo = hc[w].todo
          BY <1>0, <5>1, OptionalIsOne
        <5>3. QED
          BY <1>1, <5>2
      <4>2. QED
        BY <2>2, <4>1 DEF CheckValidator
    <3>3. cache'[v] = Entry(w, v)
      BY <1>0, <3>2 DEF CacheType
    <3>4. QED
      BY <3>1, <3>3 DEF ShowsTruth, HeardOf
  <2>3. QED
    BY <1>0, <1>1, <1>5, <2>1, <2>2, CheckLooks
<1>6. CASE CheckOptionalRPC(w)
  <2>1. hc'[w] = [hc[w] EXCEPT !.pc = "check", !.todo = @ \ {hc[w].checking},
                               !.checking = TheChain, !.entry = NoEntry]
    BY <1>0, <1>6 DEF CheckOptionalRPC
  <2>2. hc'[w].todo = hc[w].todo \ {hc[w].checking}
    BY <1>0, <2>1 DEF Rounds
  <2>3. hc[w].checking = v
    BY <1>1, <2>2
  <2>4. cache'[v] = hc[w].entry
    BY <1>0, <1>6, <2>3 DEF CheckOptionalRPC, CacheType
  <2>5. hc[w].entry = Shown(chain[v].bond, chain[v]) \/ HeardOf(v, hc[w], heard[w])
    BY <1>0, <1>6, <2>3 DEF CheckOptionalRPC, Sound, Truthful
  <2>6. heard[w] \subseteq heard'[w]
    BY <1>0, <1>6, SendGrows DEF CheckOptionalRPC, Speaks
  <2>7. QED
    BY <2>4, <2>5, <2>6 DEF ShowsTruth, HeardOf
<1>7. QED
  BY <1>4, <1>5, <1>6

\* For any number of workers, validators and watchers: when a round is done with a
\* validator, the call center shows its true condition, or its watchers have heard
\* what failed (cache_hc.go:28-34, worker.go:236-538).
THEOREM CacheIsTrue == Spec => CacheShowsTruth
<1> DEFINE Shows == \A w \in steady, v \in Validators \ paused : DoneWith(w, v) => ShowsTruth(w, v)
<1>1. IInv /\ AllSound /\ [Next]_vars => [Shows]_vars
  BY DoneShowsTruth
<1>2. Shows <=> \A w \in steady, v \in Validators \ paused :
                   DoneWith(w, v) =>
                      \/ cache'[v] = Shown(chain[v].bond, chain[v])
                      \/ \A i \in Watchers[v] \cap hc[w].known : {<<i, v>>, <<i, TheChain>>} \cap heard'[w] # {}
  BY DEF ShowsTruth
<1>3. QED
  BY <1>1, <1>2, InitIInv, NextIInv, InitSound, NextSound, PTL DEF Spec, CacheShowsTruth

\* The alerts that the true condition of v calls for reached i within their window.
WasTold(v, i) ==
    /\ chain[v].bond = "bonded"
    /\ \A a \in SigningAlerts([sign |-> chain[v].sign, missed |-> chain[v].missed], params) :
          a.case \in Cases /\ (told'[<<a.case, i>>] < a.window \/ <<a.case, i>> \in blind')

\* An alert withheld from an identity reached it within its window, or was stamped
\* while it was no user.
LEMMA WithheldAlert ==
    ASSUME StampType, StampsAreMessages,
           NEW w \in Workers, NEW v, NEW alerts, NEW identities \in SUBSET Identities,
           Send(w, v, alerts, identities),
           NEW a, a.case \in Cases, a.window \in Nat, NEW i \in identities,
           i \notin SendTo(throttle, a, identities)
    PROVE  told'[<<a.case, i>>] < a.window \/ <<a.case, i>> \in blind'
<1> DEFINE k == <<a.case, i>>
<1>1. throttle[k] \in Nat
  BY Durations DEF StampType, Ages, LongAgo
<1>2. throttle[k] < a.window
  BY <1>1 DEF SendTo
<1>3. throttle'[k] \in {0, throttle[k]}
  <2>1. throttle' = Stamped(throttle, alerts, identities) /\ k \in DOMAIN throttle
    BY DEF Send, StampType
  <2>2. QED
    BY <2>1 DEF Stamped
<1>4. throttle'[k] < a.window
  BY <1>1, <1>2, <1>3
<1>5. throttle'[k] # told'[k] => k \in blind'
  BY SendKey
<1>6. QED
  BY <1>4, <1>5

LEMMA LookedAtTold ==
    ASSUME IInv, AllSound, Next, NEW w \in steady, NEW v \in Validators \ paused, LookedAt(w, v),
           NEW i \in Watchers[v] \cap hc[w].known, {<<i, v>>, <<i, TheChain>>} \cap heard'[w] = {}
    PROVE  WasTold(v, i)
<1> DEFINE c == hc[w]
<1>0. /\ w \in Workers /\ WorldType /\ RoundType /\ StampType /\ HeardType
      /\ StampsAreMessages /\ Sound(w)
  BY DEF IInv, TypeOK, AllSound, RoundType
<1>1. c.pc = "check" /\ v \in c.todo /\ (v \notin hc'[w].todo \/ hc'[w].checking = v)
  BY DEF LookedAt, Checking
<1>2. c.checking # v
  BY <1>0, <1>1, HealthCheckAssumption DEF Sound, Staged
<1>3. Round(w)
  BY <1>0, <1>1, <1>2, OwnStep
<1>4. CheckStep(w)
  BY <1>1, <1>3 DEF Round, StartRound, PickRpc, FetchValidators, FetchSigningInfos, FetchParams,
                    CheckOptionalRPC, EndValidators, CheckManagedRPC
<1>5. NotFound(w, v) \/ CheckValidator(w, v)
  BY <1>0, <1>1, <1>4, CheckLooks
<1>6. CheckValidator(w, v)
  BY <1>0, <1>5, NotFoundHeard DEF HeardOf
<1>7. Send(w, v, ValidatorAlerts(w, v), Watchers[v])
  BY <1>6 DEF CheckValidator
<1>8. Truthful(chain, params, c, heard'[w])
  BY <1>0, <1>7, SendGrows, HearingMore DEF Speaks, Sound
<1>9. /\ ~AllHeard(c, heard'[w])
      /\ \A a \in ValidatorAlerts(w, v) : i \notin Recipients(a, Watchers[v])
  <2>1. i \in AllWatchers \cap c.known
    BY DEF AllWatchers
  <2>2. QED
    BY <1>0, <1>7, <2>1, AlertHeard DEF AllHeard
<1>10. /\ c.bonds[v] = chain[v].bond
       /\ c.signs # Failed /\ c.signs[v] = [sign |-> chain[v].sign, missed |-> chain[v].missed]
       /\ c.params = params
  BY <1>0, <1>1, <1>8, <1>9, TrueSigns DEF Truthful
<1>11. \A a \in ValidatorAlerts(w, v) : a.case \in Cases /\ i \notin SendTo(throttle, a, Watchers[v])
  BY <1>9 DEF Recipients
<1>12. chain[v].bond = "bonded"
  <2>1. chain[v].bond # "bonded" => Alert("bond", 0, TRUE) \in ValidatorAlerts(w, v)
    BY <1>10 DEF ValidatorAlerts, BondAlerts
  <2>2. Alert("bond", 0, TRUE).case \notin Cases
    BY DEF Alert, Cases
  <2>3. QED
    BY <1>11, <2>1, <2>2
<1>13. v \in mapped
  <2>1. v \notin mapped => Alert("notInMapping", 0, FALSE) \in ValidatorAlerts(w, v)
    BY <1>10 DEF ValidatorAlerts
  <2>2. Alert("notInMapping", 0, FALSE).case \notin Cases
    BY DEF Alert, Cases
  <2>3. QED
    BY <1>11, <2>1, <2>2
<1>14. ASSUME NEW a \in SigningAlerts([sign |-> chain[v].sign, missed |-> chain[v].missed], params)
       PROVE  a.case \in Cases /\ (told'[<<a.case, i>>] < a.window \/ <<a.case, i>> \in blind')
  <2>1. a \in ValidatorAlerts(w, v)
    BY <1>10, <1>13, <1>14 DEF ValidatorAlerts
  <2>2. a.window \in Nat
    BY <1>0, <2>1, ValidatorAlertsWindow
  <2>3. a.case \in Cases /\ i \notin SendTo(throttle, a, Watchers[v])
    BY <1>11, <2>1
  <2>4. Watchers[v] \in SUBSET Identities
    BY WatchersAreIdentities
  <2>5. QED
    BY <1>0, <1>7, <2>2, <2>3, <2>4, WithheldAlert
<1>15. QED
  BY <1>12, <1>14 DEF WasTold

\* For any number of workers, validators and watchers: when a round has looked at a
\* validator, a watcher that hears nothing of it has no reason to, or heard within
\* the window of the alert (worker.go:131-480).
THEOREM SilenceIsHealth == Spec => SilenceMeansHealth
<1> DEFINE Speaking ==
        \A w \in steady, v \in Validators \ paused :
           LookedAt(w, v) =>
              \A i \in Watchers[v] \cap hc[w].known :
                 {<<i, v>>, <<i, TheChain>>} \cap heard'[w] # {} \/ WasTold(v, i)
<1>1. IInv /\ AllSound /\ [Next]_vars => [Speaking]_vars
  BY LookedAtTold
<1>2. Speaking <=>
        \A w \in steady, v \in Validators \ paused :
           LookedAt(w, v) =>
              \A i \in Watchers[v] \cap hc[w].known :
                 \/ {<<i, v>>, <<i, TheChain>>} \cap heard'[w] # {}
                 \/ /\ chain[v].bond = "bonded"
                    /\ \A a \in SigningAlerts([sign |-> chain[v].sign, missed |-> chain[v].missed], params) :
                          a.case \in Cases /\ (told'[<<a.case, i>>] < a.window \/ <<a.case, i>> \in blind')
  BY DEF WasTold
<1>3. QED
  BY <1>1, <1>2, InitIInv, NextIInv, InitSound, NextSound, PTL DEF Spec, SilenceMeansHealth
=============================================================================
