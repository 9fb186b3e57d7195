---------------------------- MODULE HealthCheck ----------------------------
(***************************************************************************)
(* A round of health check of one chain (worker.go:65-597): pick the most  *)
(* healthy RPC, fetch the validators, their signing infos and the slashing *)
(* parameters, look at every validator, then at the RPCs that root users   *)
(* manage.  Rounds of several workers may overlap (ChainScheduler); the    *)
(* chain, the users and the paused validators change meanwhile.            *)
(*                                                                         *)
(* One unit of time is the shortest duration told apart; a network call    *)
(* takes as long as it likes.  A step ends where the code waits for the    *)
(* network: between two calls a worker only takes locks for a moment, and  *)
(* its alerts of one validator are of different cases.                     *)
(***************************************************************************)
EXTENDS UptimeAlert

CONSTANTS
    Workers,
    Identities,       \* users of the users file
    Root,             \* those with root: true
    Validators,       \* validators of the chain, in the order of a Go map
    Watchers,         \* validator -> identities in its watchers
    OptionalRPC,      \* validators with a health-check-rpc of their own
    ManagedRPCs,      \* health-check-rpc of the chain
    Conditions,       \* what the chain may say of a validator
    ParamsChoices,    \* slashing parameters the chain may have
    OddKeys,          \* validators whose consensus key cannot be converted
    MaxFaults,        \* bound on failing network calls
    Failed,           \* the answer of a failed call
    TheChain          \* the subject of an alert that names no validator

Bonds == {"bonded", "unbonding", "unbonded", "unspecified"}
Signs == {"noInfo", "tombstoned", "jailed", "signing"}
Condition == [bond : Bonds \cup {"absent"}, sign : Signs, missed : Nat]

ASSUME HealthCheckAssumption ==
    /\ Root \subseteq Identities /\ Root # {}
    /\ Watchers \in [Validators -> (SUBSET Identities) \ {{}}]
    /\ OptionalRPC \subseteq Validators /\ OddKeys \subseteq Validators
    /\ Conditions \subseteq Condition /\ ParamsChoices \subseteq Params
    /\ MaxFaults \in Nat
    /\ TheChain \notin Validators
    /\ Failed \notin Params
    /\ Failed \notin [Validators -> [sign : Signs, missed : Nat]]
    /\ ManagedRPCs \cap Validators = {}

AllWatchers == UNION {Watchers[v] : v \in Validators}

\* The cases of prevent-spamming used in a round; every other alert is sent to
\* each of its watchers every time.
Cases == {"tombstoned", "jailed", "missedBlocks", "lowUptime", "optionalRPC", "managedRPC"}

VARIABLES
    users,       \* identities in the user registry
    paused,      \* paused validators
    chain,       \* the condition of every validator on the chain
    params,      \* the slashing parameters on the chain
    faults,      \* failing calls so far
    mapped,      \* validators whose consensus address is registered
    throttle,    \* age of the last stamp of a case for an identity
    cache,       \* what the call center shows of a validator
    hc,          \* the round each worker is in
    \* observations
    told,        \* age of the last message enqueued, by case and identity
    blind,       \* <<case, identity>> stamped last without a message
    sent,        \* messages enqueued by the last step
    heard,       \* by worker, <<identity, subject>> of its round's messages
    steady       \* workers in whose round the chain has not changed

env  == <<users, paused, chain, params>>
vars == <<env, faults, mapped, throttle, cache, hc, told, blind, sent, heard, steady>>

NoEntry == [bond |-> "absent", sign |-> "noInfo", missed |-> 0]

Resting == [pc |-> "idle", known |-> {}, bonds |-> Failed, signs |-> Failed, params |-> Failed,
            todo |-> {}, checking |-> TheChain, entry |-> NoEntry, roots |-> {}]

Init ==
    /\ users = Identities /\ paused = {}
    /\ chain \in [Validators -> Conditions]
    /\ params \in ParamsChoices
    /\ faults = 0
    /\ mapped = {}
    /\ throttle = [k \in Cases \X Identities |-> LongAgo]
    /\ cache = [v \in Validators |-> NoEntry]
    /\ hc = [w \in Workers |-> Resting]
    /\ told = throttle /\ blind = {} /\ sent = {}
    /\ heard = [w \in Workers |-> {}]
    /\ steady = Workers

-----------------------------------------------------------------------------
(* Enqueueing alerts. *)

Message(i, about, a) == [to |-> i, about |-> about, alert |-> a]

Recipients(a, identities) ==
    IF a.case \in Cases THEN SendTo(throttle, a, identities) ELSE identities

\* ShouldSendMessageWL and enqueueTelegramMessageByIdentity: an identity that
\* was no user when the round began is stamped and left out.
Send(w, about, alerts, identities) ==
    /\ throttle' = Stamped(throttle, alerts, identities)
    /\ sent' = UNION {{Message(i, about, a) : i \in Recipients(a, identities) \cap hc[w].known}
                         : a \in alerts}
    /\ told' = [k \in DOMAIN told |->
                  IF \E m \in sent' : m.alert.case = k[1] /\ m.to = k[2] THEN 0 ELSE told[k]]
    /\ blind' = {k \in DOMAIN told :
                    \/ k \in blind /\ told'[k] # 0
                    \/ \E a \in alerts : a.case = k[1] /\ k[2] \in Recipients(a, identities) \ hc[w].known}
    /\ heard' = [heard EXCEPT ![w] = @ \cup {<<m.to, about>> : m \in sent'}]

SendNothing == sent' = {} /\ UNCHANGED <<throttle, told, blind, heard>>

\* Alerts about the chain go to every watcher of it.
Broadcast(w, case) == Send(w, TheChain, {Alert(case, 0, FALSE)}, AllWatchers)

Go(w, pc) == hc' = [hc EXCEPT ![w].pc = pc]

EndRound(w) == hc' = [hc EXCEPT ![w] = Resting]

\* A network call fails: after some retries, and within the bound.
Fault == faults < MaxFaults /\ faults' = faults + 1

-----------------------------------------------------------------------------
(* The beginning of a round: what is fetched once for all validators. *)

StartRound(w) ==
    /\ hc[w].pc = "idle"
    /\ hc' = [hc EXCEPT ![w].pc = "rpc", ![w].known = users \cap AllWatchers]
    /\ heard' = [heard EXCEPT ![w] = {}]
    /\ steady' = steady \cup {w}
    /\ sent' = {}
    /\ UNCHANGED <<env, faults, mapped, throttle, cache, told, blind>>

\* The deferred function: the round ends, and the watchers hear of it.
Fail(w) ==
    /\ Fault
    /\ Broadcast(w, "healthCheckFailed")
    /\ EndRound(w)
    /\ UNCHANGED <<env, mapped, cache, steady>>

\* The most healthy RPC may still be outdated.
PickRpc(w) ==
    /\ hc[w].pc = "rpc"
    /\ \/ Fail(w)
       \/ /\ SendNothing \/ Broadcast(w, "outdated")
          /\ Go(w, "validators")
          /\ UNCHANGED <<env, faults, mapped, cache, steady>>

\* reloadMappingValAddressIfNeeded
Listed == {v \in Validators : chain[v].bond # "absent"}
Remapped == IF Validators \subseteq mapped THEN mapped ELSE mapped \cup (Listed \ OddKeys)

\* What the queries return, page after page, when no call fails.
AllValidators == [v \in Validators |-> chain[v].bond]
AllSigningInfos == [v \in Validators |-> [sign |-> chain[v].sign, missed |-> chain[v].missed]]
SlashingParams == params

FetchValidators(w) ==
    /\ hc[w].pc = "validators"
    /\ \/ Fail(w)
       \/ /\ hc' = [hc EXCEPT ![w].pc = "signingInfos",
                              ![w].bonds = AllValidators]
          /\ mapped' = Remapped
          /\ SendNothing
          /\ UNCHANGED <<env, faults, cache, steady>>

\* Mutant: the failure is logged only.
FetchSigningInfosSilent(w) ==
    /\ hc[w].pc = "signingInfos"
    /\ \/ Fault /\ SendNothing /\ Go(w, "params")
       \/ /\ hc' = [hc EXCEPT ![w].pc = "params", ![w].signs = AllSigningInfos]
          /\ SendNothing /\ UNCHANGED faults
    /\ UNCHANGED <<env, mapped, cache, steady>>

\* A failure is told, and the round goes on without the uptime.
FetchSigningInfos(w) ==
    /\ hc[w].pc = "signingInfos"
    /\ \/ Fault /\ Broadcast(w, "noSigningInfos") /\ Go(w, "params")
       \/ /\ hc' = [hc EXCEPT ![w].pc = "params", ![w].signs = AllSigningInfos]
          /\ SendNothing /\ UNCHANGED faults
    /\ UNCHANGED <<env, mapped, cache, steady>>

FetchParams(w) ==
    /\ hc[w].pc = "params"
    /\ \/ Fault /\ Broadcast(w, "noParams")
          /\ hc' = [hc EXCEPT ![w].pc = "check", ![w].todo = Validators]
       \/ /\ hc' = [hc EXCEPT ![w].pc = "check", ![w].todo = Validators, ![w].params = SlashingParams]
          /\ SendNothing /\ UNCHANGED faults
    /\ UNCHANGED <<env, mapped, cache, steady>>

-----------------------------------------------------------------------------
(* What is found out about a validator, from what the round fetched. *)

BondAlerts(bond) == IF bond = "bonded" THEN {} ELSE {Alert("bond", 0, TRUE)}

\* The uptime of a validator that is neither tombstoned nor jailed.
UptimeAlerts(missed, p) ==
    IF missed = 0 THEN {}
    ELSE IF p = Failed THEN {Alert("uptimeSkipped", 0, FALSE)}
    ELSE BlockAlerts(missed, p)

SigningAlerts(info, p) ==
    CASE info.sign = "tombstoned" -> {Alert("tombstoned", H1, TRUE)}
      [] info.sign = "jailed"     -> {Alert("jailed", M30, TRUE)}
      [] info.sign = "signing"    -> UptimeAlerts(info.missed, p)
      [] info.sign = "noInfo"     -> {Alert("signingInfoNotFound", 0, FALSE)}

ValidatorAlerts(w, v) ==
    BondAlerts(hc[w].bonds[v]) \cup
    (IF hc[w].signs = Failed THEN {}
     ELSE IF v \notin mapped THEN {Alert("notInMapping", 0, FALSE)}
     ELSE SigningAlerts(hc[w].signs[v], hc[w].params))

\* The call center does not tell a validator without info from a healthy one.
Shown(bond, info) ==
    [bond   |-> bond,
     sign   |-> IF info.sign \in {"tombstoned", "jailed"} THEN info.sign ELSE "noInfo",
     missed |-> IF info.sign = "signing" THEN info.missed ELSE 0]

\* Mutant: the signing info is left out.
EntryOfBond(w, v) == Shown(hc[w].bonds[v], [sign |-> "noInfo", missed |-> 0])

Entry(w, v) ==
    IF hc[w].signs # Failed /\ v \in mapped
    THEN Shown(hc[w].bonds[v], hc[w].signs[v])
    ELSE Shown(hc[w].bonds[v], [sign |-> "noInfo", missed |-> 0])

-----------------------------------------------------------------------------
(* The loop over the validators. *)

Checking(w, v) == hc[w].pc = "check" /\ v \in hc[w].todo

Done(w, v) == hc' = [hc EXCEPT ![w].todo = @ \ {v}]

SkipPaused(w, v) ==
    /\ Checking(w, v) /\ v \in paused
    /\ Done(w, v)
    /\ SendNothing
    /\ UNCHANGED <<env, faults, mapped, cache, steady>>

NotFound(w, v) ==
    /\ Checking(w, v) /\ v \notin paused
    /\ hc[w].bonds[v] = "absent"
    /\ Send(w, v, {Alert("notFound", 0, FALSE)}, Watchers[v])
    /\ Done(w, v)
    /\ UNCHANGED <<env, faults, mapped, cache, steady>>

CheckValidator(w, v) ==
    /\ Checking(w, v) /\ v \notin paused
    /\ hc[w].bonds[v] # "absent"
    /\ Send(w, v, ValidatorAlerts(w, v), Watchers[v])
    /\ IF v \in OptionalRPC
       THEN /\ hc' = [hc EXCEPT ![w].pc = "optional", ![w].checking = v, ![w].entry = Entry(w, v)]
            /\ UNCHANGED cache
       ELSE /\ Done(w, v)
            /\ cache' = [cache EXCEPT ![v] = Entry(w, v)]
    /\ UNCHANGED <<env, faults, mapped, steady>>

\* The validator's own RPC: unreachable, catching up, or outdated.
OptionalAlerts ==
    {Alert("optionalRPC", M15, FALSE), Alert("optionalRPC", M15, TRUE), Alert("optionalRPC", M10, TRUE)}

CheckOptionalRPC(w) ==
    /\ hc[w].pc = "optional"
    /\ LET v == hc[w].checking IN
       /\ \/ SendNothing
          \/ \E a \in OptionalAlerts : Send(w, v, {a}, Watchers[v])
       /\ cache' = [cache EXCEPT ![v] = hc[w].entry]
       /\ hc' = [hc EXCEPT ![w].pc = "check", ![w].todo = @ \ {v},
                           ![w].checking = TheChain, ![w].entry = NoEntry]
    /\ UNCHANGED <<env, faults, mapped, steady>>

-----------------------------------------------------------------------------
(* The RPCs managed by root users. *)

\* Root users of now, among the watchers of when the round began.
RootWatchers(w) == (Root \cap users) \cap hc[w].known

EndValidators(w) ==
    /\ hc[w].pc = "check" /\ hc[w].todo = {}
    /\ IF ManagedRPCs = {} \/ RootWatchers(w) = {}
       THEN EndRound(w)
       ELSE hc' = [hc EXCEPT ![w] = [Resting EXCEPT !.pc = "managed", !.todo = ManagedRPCs,
                                        !.known = hc[w].known, !.roots = RootWatchers(w)]]
    /\ SendNothing
    /\ UNCHANGED <<env, faults, mapped, cache, steady>>

CheckManagedRPC(w, r) ==
    /\ hc[w].pc = "managed" /\ r \in hc[w].todo
    /\ \/ SendNothing
       \/ Send(w, TheChain, {Alert("managedRPC", M30, FALSE)}, hc[w].roots)
    /\ IF hc[w].todo = {r} THEN EndRound(w) ELSE Done(w, r)
    /\ UNCHANGED <<env, faults, mapped, cache, steady>>

-----------------------------------------------------------------------------
(* The world around the workers. *)

\* A hot reload of the users keeps a root user (users_config.go:167-171); when
\* the chains then fail to reload, their watchers need not be users.
ReloadUsers ==
    /\ \E U \in SUBSET Identities : U \cap Root # {} /\ users' = U
    /\ sent' = {}
    /\ UNCHANGED <<paused, chain, params, faults, mapped, throttle, cache, hc, told, blind, heard, steady>>

\* A command pauses or unpauses a validator, or its pause expires.
PauseValidator(v) ==
    /\ paused' = IF v \in paused THEN paused \ {v} ELSE paused \cup {v}
    /\ sent' = {}
    /\ UNCHANGED <<users, chain, params, faults, mapped, throttle, cache, hc, told, blind, heard, steady>>

ChangeChain ==
    /\ \/ \E v \in Validators, c \in Conditions : chain' = [chain EXCEPT ![v] = c] /\ UNCHANGED params
       \/ params' \in ParamsChoices /\ UNCHANGED chain
    /\ <<chain, params>>' # <<chain, params>>
    /\ steady' = {w \in Workers : hc[w].pc = "idle"}
    /\ sent' = {}
    /\ UNCHANGED <<users, paused, faults, mapped, throttle, cache, hc, told, blind, heard>>

Tick ==
    /\ throttle' = [k \in DOMAIN throttle |-> OlderBy1(throttle[k])]
    /\ told' = [k \in DOMAIN told |-> OlderBy1(told[k])]
    /\ sent' = {}
    /\ UNCHANGED <<env, faults, mapped, cache, hc, blind, heard, steady>>

-----------------------------------------------------------------------------
CheckStep(w) == \E v \in Validators : SkipPaused(w, v) \/ NotFound(w, v) \/ CheckValidator(w, v)

Round(w) ==
    \/ StartRound(w) \/ PickRpc(w) \/ FetchValidators(w) \/ FetchSigningInfos(w) \/ FetchParams(w)
    \/ CheckStep(w) \/ CheckOptionalRPC(w) \/ EndValidators(w)
    \/ \E r \in ManagedRPCs : CheckManagedRPC(w, r)

World == ReloadUsers \/ (\E v \in Validators : PauseValidator(v)) \/ ChangeChain

Next == (\E w \in Workers : Round(w)) \/ World \/ Tick

Spec == Init /\ [][Next]_vars

\* The scheduler hands out the chain again and again, no call hangs, time passes.
FairSpec == Spec /\ WF_vars(Tick) /\ \A w \in Workers : WF_vars(Round(w))

-----------------------------------------------------------------------------
Rounds ==
    [pc : {"idle", "rpc", "validators", "signingInfos", "params", "check", "optional", "managed"},
     known : SUBSET Identities,
     bonds : [Validators -> Bonds \cup {"absent"}] \cup {Failed},
     signs : [Validators -> [sign : Signs, missed : Nat]] \cup {Failed},
     params : Params \cup {Failed},
     todo : (SUBSET Validators) \cup (SUBSET ManagedRPCs),
     checking : Validators \cup {TheChain},
     entry : Condition,
     roots : SUBSET Root]

WorldType ==
    /\ users \in SUBSET Identities /\ paused \in SUBSET Validators
    /\ chain \in [Validators -> Condition] /\ params \in Params
    /\ faults \in 0..MaxFaults /\ mapped \in SUBSET Validators

RoundType ==
    /\ hc \in [Workers -> Rounds] /\ steady \in SUBSET Workers
    /\ \A w \in Workers :
          /\ hc[w].pc = "optional" => hc[w].checking \in Validators
          /\ hc[w].pc \in {"signingInfos", "params", "check", "optional"} =>
                hc[w].bonds \in [Validators -> Bonds \cup {"absent"}]

CacheType == cache \in [Validators -> Condition]

StampType ==
    /\ throttle \in [Cases \X Identities -> Ages]
    /\ told \in [Cases \X Identities -> Ages]
    /\ blind \in SUBSET (Cases \X Identities)

HeardType ==
    /\ heard \in [Workers -> SUBSET (Identities \X (Validators \cup {TheChain}))]
    /\ \A m \in sent : m.to \in Identities /\ m.about \in Validators \cup {TheChain}

TypeOK == WorldType /\ RoundType /\ CacheType /\ StampType /\ HeardType

\* However the rounds of several workers overlap, and whatever validators an
\* identity watches, an alert of a limited case reaches it only when the window
\* of that alert is over since the case last reached it (prevent_spamming.go:33-41).
AlertsSpaced ==
    [][\A m \in sent' : m.alert.case \in Cases => told[<<m.alert.case, m.to>>] >= m.alert.window]_vars

LookedAt(w, v) == Checking(w, v) /\ (v \notin hc'[w].todo \/ hc'[w].checking = v)
DoneWith(w, v) == v \in hc[w].todo /\ v \notin hc'[w].todo

\* Silence means health: when a round has looked at a validator that is not
\* paused, and the chain has not changed since it began, then every watcher that
\* was a user when it began either heard in this round that something is wrong
\* with the validator or with the check itself, or every alert the validator's
\* true condition calls for reached it within its window (worker.go:131-480).
\* The exception is a stamp left while the watcher was no user.
SilenceMeansHealth ==
    [][\A w \in steady, v \in Validators \ paused :
          LookedAt(w, v) =>
             \A i \in Watchers[v] \cap hc[w].known :
                \/ {<<i, v>>, <<i, TheChain>>} \cap heard'[w] # {}
                \/ /\ chain[v].bond = "bonded"
                   /\ \A a \in SigningAlerts([sign |-> chain[v].sign, missed |-> chain[v].missed], params) :
                         a.case \in Cases /\ (told'[<<a.case, i>>] < a.window \/ <<a.case, i>> \in blind')]_vars

\* What the call center shows afterwards is the true condition, unless the
\* watchers heard in this round of what failed (cache_hc.go:28-34, worker.go:236-538).
CacheShowsTruth ==
    [][\A w \in steady, v \in Validators \ paused :
          DoneWith(w, v) =>
             \/ cache'[v] = Shown(chain[v].bond, chain[v])
             \/ \A i \in Watchers[v] \cap hc[w].known : {<<i, v>>, <<i, TheChain>>} \cap heard'[w] # {}]_vars

\* A stamp differs from the last message of its case only for an identity that
\* was no user when the round began; and the stamp is never the older of the two.
StampsAreMessages ==
    \A k \in Cases \X Identities :
        throttle[k] <= told[k] /\ (throttle[k] # told[k] => k \in blind)

\* A watcher is reminded of a lasting problem: while it is a user, the validator
\* not paused and the chain calling for an alert of the case, messages of the
\* case keep reaching it.
CallsFor(v, c, i) ==
    /\ i \in users /\ v \notin paused /\ chain[v].bond # "absent"
    /\ \E a \in SigningAlerts([sign |-> chain[v].sign, missed |-> chain[v].missed], params) : a.case = c

KeepsReminding ==
    \A v \in Validators \ OddKeys, c \in {"tombstoned", "jailed", "missedBlocks", "lowUptime"} :
        \A i \in Watchers[v] : <>[]CallsFor(v, c, i) => []<>(told[<<c, i>>] = 0)
=============================================================================
