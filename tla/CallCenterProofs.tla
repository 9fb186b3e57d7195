-------------------------- MODULE CallCenterProofs -------------------------
(***************************************************************************)
(* Proofs about CallCenter, for any users, chains, commands and employees: *)
(* types, how many patterns a chat has, what root users know of pauses.    *)
(***************************************************************************)
EXTENDS CallCenter, FiniteSetTheorems, TLAPS

USE HotReloadAssumption, SilencerAssumption, CallCenterAssumption

-----------------------------------------------------------------------------
(* Types. *)

Task == [pc : {"free", "check", "treat", "list", "tell"}, who : Identities \cup {NoOne},
         root : BOOLEAN, cmd : Commands \cup {NoCmd}, roots : SUBSET Identities]

Words == {"pause", "unpause", "untold", Excused}

\* TypeOK, with what an employee is at as one set of records.
Typed ==
    /\ SilencerTypeOK
    /\ users \in UsersFiles \cup {NoUsers} /\ chains \subseteq Chain
    /\ usersConf \subseteq Identities
    /\ paused \subseteq Targets
    /\ lastRequest \in [Accounts -> 0..MaxTime]
    /\ emp \in [Employees -> Task]
    /\ \A e \in Employees : emp[e] = Free \/ (emp[e].pc # "free" /\ emp[e].cmd \in Commands)
    /\ \A e \in Employees : emp[e].pc \in {"treat", "list", "tell"} => emp[e].cmd \in Pauses
    /\ word \in [Targets -> [Identities -> Words]]

LEMMA Registries ==
    ASSUME users \in UsersFiles \cup {NoUsers}
    PROVE  /\ DOMAIN users \subseteq Identities
           /\ Roots \subseteq DOMAIN users
           /\ \A i \in DOMAIN users : users[i].root \in BOOLEAN
<1>1. CASE users \in UsersFiles
  BY <1>1 DEF Roots, User
<1>2. CASE users = NoUsers
  BY <1>2 DEF Roots, NoUsers
<1> QED BY <1>1, <1>2

LEMMA TypeInit == ASSUME Init PROVE Typed
<1>1. SilencerTypeOK
  BY DEF Init, InitSilencer, SilencerTypeOK, Absent, Unmatched
<1>2. Free \in Task
  BY DEF Free, Task
<1>3. \A e \in Employees : emp[e] = Free
  BY DEF Init
<1>4. \A e \in Employees : emp[e].pc \notin {"treat", "list", "tell"}
  BY <1>3 DEF Free
<1> QED BY <1>1, <1>2, <1>3, <1>4 DEF Typed, Init, InitConfig, NoUsers, Words, Excused

\* The silencer keeps its types, whoever sets, removes or cleans up patterns.
LEMMA SilencerTypes ==
    ASSUME SilencerTypeOK
    PROVE  /\ UNCHANGED silencer => SilencerTypeOK'
           /\ Match \/ Pass => SilencerTypeOK'
           /\ \A c, p, d : d \in 0..Longest /\ SetSilencePattern(c, p, d) /\ UNCHANGED <<now, match>>
                 => SilencerTypeOK'
           /\ \A c, p : RemoveSilencePattern(c, p) /\ UNCHANGED <<now, match>> => SilencerTypeOK'
<1> USE DEF SilencerTypeOK, Absent
<1>1. UNCHANGED silencer => SilencerTypeOK'
  BY DEF silencer
<1>2. \A S : \A c \in Chats : Without(c, S) \in [Patterns -> 0..(MaxTime + Longest)]
  BY DEF Without
<1>3. Match => SilencerTypeOK'
  <2>1. ASSUME NEW c \in Chats, BeginMatch(c) PROVE SilencerTypeOK'
    BY <2>1 DEF BeginMatch
  <2>2. ASSUME CleanUp PROVE SilencerTypeOK'
    <3>1. match \in [chat : Chats, since : 1..MaxTime]
      BY <2>2 DEF CleanUp
    <3>2. Without(match.chat, Before(match.chat, match.since)) \in [Patterns -> 0..(MaxTime + Longest)]
      BY <1>2, <3>1
    <3> QED BY <2>2, <3>2 DEF CleanUp
  <2> QED BY <2>1, <2>2 DEF Match
<1>4. Pass => SilencerTypeOK'
  BY DEF Pass
<1>5. ASSUME NEW c, NEW p, NEW d \in 0..Longest, SetSilencePattern(c, p, d), UNCHANGED <<now, match>>
      PROVE  SilencerTypeOK'
  <2> DEFINE live == Without(c, Before(c, now))
             with == [live EXCEPT ![p] = now + d]
  <2>1. now + d \in 0..(MaxTime + Longest)
    OBVIOUS
  <2>2. CASE c \in Chats
    <3>1. live \in [Patterns -> 0..(MaxTime + Longest)]
      BY <1>2, <2>2
    <3>2. with \in [Patterns -> 0..(MaxTime + Longest)]
      BY <2>1, <3>1
    <3>3. expiry' = [expiry EXCEPT ![c] = live] \/ expiry' = [expiry EXCEPT ![c] = with]
      BY <1>5 DEF SetSilencePattern
    <3> QED BY <1>5, <3>1, <3>2, <3>3
  <2>3. CASE c \notin Chats
    BY <1>5, <2>3 DEF SetSilencePattern
  <2> QED BY <2>2, <2>3
<1>6. ASSUME NEW c, NEW p, RemoveSilencePattern(c, p), UNCHANGED <<now, match>>
      PROVE  SilencerTypeOK'
  <2>1. \A b \in Chats : expiry'[b] = IF b = c THEN [expiry[b] EXCEPT ![p] = 0] ELSE expiry[b]
    BY <1>6 DEF RemoveSilencePattern
  <2>2. \A b \in Chats : expiry'[b] \in [Patterns -> 0..(MaxTime + Longest)]
    <3>1. 0 \in 0..(MaxTime + Longest)
      OBVIOUS
    <3> QED BY <2>1, <3>1
  <2>3. expiry' = [b \in Chats |-> expiry'[b]]
    BY <1>6 DEF RemoveSilencePattern
  <2> QED BY <1>6, <2>2, <2>3
<1> QED BY <1>1, <1>3, <1>4, <1>5, <1>6

LEMMA TypeNext == Typed /\ [Next]_vars => Typed'
<1> SUFFICES ASSUME Typed, [Next]_vars PROVE Typed'
  OBVIOUS
<1>0. SilencerTypeOK
  BY DEF Typed
<1>1. ASSUME UNCHANGED vars PROVE Typed'
  BY <1>1, <1>0, SilencerTypes DEF vars, config, Typed
<1>2. ASSUME Reload PROVE Typed'
  <2>1. /\ users' \in UsersFiles \cup {NoUsers} /\ usersConf' \subseteq Identities
        /\ chains' \subseteq Chain
    BY <1>2 DEF Reload, ReloadUsers, ReloadChains, Typed
  <2>2. word' \in [Targets -> [Identities -> Words]]
    BY <1>2 DEF Reload, Typed, Words
  <2> QED BY <1>2, <1>0, <2>1, <2>2, SilencerTypes DEF Reload, Typed, silencer
<1>3. ASSUME Match \/ Pass, UNCHANGED <<config, paused, lastRequest, emp, word>> PROVE Typed'
  BY <1>3, <1>0, SilencerTypes DEF Typed, config
<1>4. ASSUME NEW e \in Employees, NEW i \in Identities, NEW cmd \in Commands, Receive(e, i, cmd)
      PROVE  Typed'
  <2>1. emp' \in [Employees -> Task]
    BY <1>4, Registries DEF Receive, Typed, Task
  <2>2. lastRequest' \in [Accounts -> 0..MaxTime]
    <3>1. now \in 0..MaxTime
      BY <1>0 DEF SilencerTypeOK
    <3>2. PICK a : lastRequest' = [lastRequest EXCEPT ![a] = now]
      BY <1>4 DEF Receive
    <3> QED BY <3>1, <3>2 DEF Typed
  <2>3. \A o \in Employees : emp'[o] = emp[o] \/ (emp'[o].pc = "check" /\ emp'[o].cmd \in Commands)
    BY <1>4 DEF Receive, Typed
  <2>4. \A o \in Employees : emp'[o] = Free \/ (emp'[o].pc # "free" /\ emp'[o].cmd \in Commands)
    BY <2>3 DEF Typed
  <2>5. \A o \in Employees : emp'[o].pc \in {"treat", "list", "tell"} => emp'[o].cmd \in Pauses
    BY <2>3 DEF Typed
  <2> QED BY <1>4, <1>0, <2>1, <2>2, <2>4, <2>5, SilencerTypes DEF Receive, Typed, config
<1>5. ASSUME NEW e \in Employees, Work(e) PROVE Typed'
  <2>1. emp[e] \in Task /\ emp \in [Employees -> Task]
    BY DEF Typed
  <2>2. /\ Free \in Task
        /\ \A cmd \in Commands : [Free EXCEPT !.pc = "treat", !.cmd = cmd] \in Task
    BY DEF Free, Task
  <2>3. PICK task \in Task : /\ emp' = [emp EXCEPT ![e] = task]
                             /\ task = Free \/ (task.pc # "free" /\ task.cmd \in Commands)
                             /\ task.pc \in {"treat", "list", "tell"} => task.cmd \in Pauses
    <3>1. CASE CheckPause(e)
      <4>1. emp[e].cmd \in Commands /\ emp[e].cmd \in Pauses
        BY <3>1 DEF CheckPause, At, Typed, Free, Pauses, Silences
      <4>2. [Free EXCEPT !.pc = "treat", !.cmd = emp[e].cmd] \in Task
        BY <2>2, <4>1
      <4> QED BY <2>2, <3>1, <4>1, <4>2 DEF CheckPause, Free
    <3>2. CASE TreatPause(e)
      <4>1. emp[e].cmd \in Commands /\ emp[e].cmd \in Pauses
        BY <3>2 DEF TreatPause, At, Typed, Free
      <4>2. emp' = [emp EXCEPT ![e] = [emp[e] EXCEPT !.pc = "list"]]
        BY <2>1, <3>2 DEF TreatPause, Set, Task
      <4>3. [emp[e] EXCEPT !.pc = "list"] \in Task
        BY <2>1 DEF Task
      <4> QED BY <2>1, <4>1, <4>2, <4>3 DEF Task
    <3>3. CASE ListRoots(e)
      <4>1. emp[e].cmd \in Commands /\ emp[e].cmd \in Pauses
        BY <3>3 DEF ListRoots, Typed, Free
      <4>2. Roots \subseteq Identities
        BY Registries DEF Typed
      <4>3. emp' = [emp EXCEPT ![e] = [emp[e] EXCEPT !.pc = "tell", !.roots = Roots]]
        BY <2>1, <3>3 DEF ListRoots, Task
      <4>4. [emp[e] EXCEPT !.pc = "tell", !.roots = Roots] \in Task
        BY <2>1, <4>2 DEF Task
      <4> QED BY <2>1, <4>1, <4>3, <4>4 DEF Task
    <3>5. ASSUME NEW i \in Identities, TellRoot(e, i)
          PROVE  emp' = [emp EXCEPT ![e] = [emp[e] EXCEPT !.roots = @ \ {i}]]
      BY <3>5 DEF TellRoot
    <3>6. ASSUME NEW i \in Identities, TellRoot(e, i)
          PROVE  \E task \in Task :
                    /\ emp' = [emp EXCEPT ![e] = task]
                    /\ task.pc # "free" /\ task.cmd \in Commands /\ task.cmd \in Pauses
      <4>1. emp[e].pc = "tell" /\ emp[e].cmd \in Commands /\ emp[e].cmd \in Pauses
        BY <3>6 DEF TellRoot, Typed, Free
      <4>2. [emp[e] EXCEPT !.roots = @ \ {i}] \in Task
        BY <2>1 DEF Task
      <4> WITNESS [emp[e] EXCEPT !.roots = @ \ {i}] \in Task
      <4> QED BY <2>1, <3>5, <3>6, <4>1, <4>2 DEF Task
    <3>4. CASE EndPause(e) \/ Silence(e)
      BY <2>2, <3>4 DEF EndPause, Silence, Free
    <3> QED BY <1>5, <3>1, <3>2, <3>3, <3>4, <3>6 DEF Work
  <2>4. SilencerTypeOK'
    BY <1>0, <1>5, SilencerTypes
       DEF Work, CheckPause, TreatPause, ListRoots, TellRoot, EndPause, Silence, silencer
  <2>5. /\ UNCHANGED <<users, chains, usersConf, lastRequest>>
        /\ paused' \subseteq Targets
    <3>1. CASE TreatPause(e)
      <4>1. emp[e].cmd.target \in Targets
        BY <3>1 DEF TreatPause, At, Typed, Free, Pauses
      <4> QED BY <3>1, <4>1 DEF TreatPause, config, Typed
    <3>2. CASE ~TreatPause(e)
      BY <1>5, <3>2 DEF Work, CheckPause, ListRoots, TellRoot, EndPause, Silence, config, Typed
    <3> QED BY <3>1, <3>2
  <2>6. word' \in [Targets -> [Identities -> Words]]
    <3>1. CASE TreatPause(e)
      <4> DEFINE f == [i \in Identities |->
                        IF i \in Roots /\ (\A o \in Employees : ~Treats(o, emp[e].cmd.target))
                        THEN "untold" ELSE Excused]
      <4>1. word' = [word EXCEPT ![emp[e].cmd.target] = f]
        BY <3>1 DEF TreatPause
      <4>2. f \in [Identities -> Words]
        BY DEF Words
      <4> QED BY <4>1, <4>2 DEF Typed
    <3>2. ASSUME NEW i \in Identities, TellRoot(e, i) PROVE word' \in [Targets -> [Identities -> Words]]
      <4>1. emp[e].cmd.op \in Words
        BY <3>2 DEF TellRoot, Typed, Pauses, Words
      <4>2. CASE i \in DOMAIN users
        <5>1. word' = [word EXCEPT ![emp[e].cmd.target][i] =
                          IF @ = Excused THEN @ ELSE emp[e].cmd.op]
          BY <3>2, <4>2 DEF TellRoot, Give
        <5> QED BY <4>1, <5>1 DEF Typed
      <4>3. CASE i \notin DOMAIN users
        BY <3>2, <4>3 DEF TellRoot, Typed
      <4> QED BY <4>2, <4>3
    <3>3. CASE CheckPause(e) \/ ListRoots(e) \/ EndPause(e) \/ Silence(e)
      BY <3>3 DEF CheckPause, ListRoots, EndPause, Silence, Typed
    <3> QED BY <1>5, <3>1, <3>2, <3>3 DEF Work
  <2>7. /\ emp' \in [Employees -> Task]
        /\ \A o \in Employees : emp'[o] = IF o = e THEN task ELSE emp[o]
    <3>1. emp' = [emp EXCEPT ![e] = task]
      BY <2>3
    <3> QED BY <2>1, <3>1
  <2>8. ASSUME NEW o \in Employees
        PROVE  /\ emp'[o] = Free \/ (emp'[o].pc # "free" /\ emp'[o].cmd \in Commands)
               /\ emp'[o].pc \in {"treat", "list", "tell"} => emp'[o].cmd \in Pauses
    <3>1. CASE o = e
      <4>1. emp'[o] = task
        BY <2>7, <3>1
      <4>2. /\ task = Free \/ (task.pc # "free" /\ task.cmd \in Commands)
            /\ task.pc \in {"treat", "list", "tell"} => task.cmd \in Pauses
        BY <2>3
      <4> QED BY <4>1, <4>2
    <3>2. CASE o # e
      <4>1. emp'[o] = emp[o]
        BY <2>7, <3>2
      <4> QED BY <4>1 DEF Typed
    <3> QED BY <3>1, <3>2
  <2>9. users' \in UsersFiles \cup {NoUsers} /\ chains' \subseteq Chain /\ usersConf' \subseteq Identities
        /\ lastRequest' \in [Accounts -> 0..MaxTime]
    BY <2>5 DEF Typed
  <2> QED BY <2>4, <2>5, <2>6, <2>7, <2>8, <2>9 DEF Typed
<1> QED
  BY <1>1, <1>2, <1>3, <1>4, <1>5 DEF Next
-----------------------------------------------------------------------------
(* The bound of patterns. *)

OneOverLimit == \A c \in Chats : Cardinality(Present(c)) <= Limit + 1
PatternsFinite == \A c \in Chats : IsFiniteSet(Present(c)) /\ Cardinality(Present(c)) <= Limit + 1

\* A step takes patterns away, or adds one to at most Limit that are live.
LEMMA PresentNext ==
    ASSUME Typed, [Next]_vars, NEW c \in Chats
    PROVE  \/ Present(c)' \subseteq Present(c)
           \/ \E p \in Patterns, S \in SUBSET Present(c) :
                 Present(c)' \subseteq S \cup {p} /\ ~(Cardinality(S) > Limit)
<1>0. expiry \in [Chats -> [Patterns -> 0..(MaxTime + Longest)]]
  BY DEF Typed, SilencerTypeOK
<1>1. UNCHANGED expiry => Present(c)' = Present(c)
  BY DEF Present
<1>2. ASSUME CleanUp PROVE Present(c)' \subseteq Present(c)
  <2>1. \A p \in Patterns : expiry'[c][p] = expiry[c][p] \/ expiry'[c][p] = Absent
    BY <1>0, <1>2 DEF CleanUp, Without
  <2> QED BY <2>1 DEF Present
<1>3. ASSUME NEW e \in Employees, Silence(e)
      PROVE  \/ Present(c)' \subseteq Present(c)
             \/ \E p \in Patterns, S \in SUBSET Present(c) :
                   Present(c)' \subseteq S \cup {p} /\ ~(Cardinality(S) > Limit)
  <2> DEFINE cmd == emp[e].cmd
  <2>1. cmd \in Silences
    BY <1>3 DEF Silence, At, Typed, Free, Pauses
  <2>2. cmd.chat \in Chats /\ cmd.pattern \in Patterns
    BY <2>1 DEF Silences
  <2> HIDE DEF cmd
  <2>3. CASE RemoveSilencePattern(cmd.chat, cmd.pattern)
    <3>1. \A p \in Patterns : expiry'[c][p] = expiry[c][p] \/ expiry'[c][p] = Absent
      BY <1>0, <2>2, <2>3 DEF RemoveSilencePattern
    <3> QED BY <3>1 DEF Present
  <2>4. ASSUME NEW d \in 0..Longest, SetSilencePattern(cmd.chat, cmd.pattern, d)
        PROVE  \/ Present(c)' \subseteq Present(c)
               \/ \E p \in Patterns, S \in SUBSET Present(c) :
                     Present(c)' \subseteq S \cup {p} /\ ~(Cardinality(S) > Limit)
    <3> DEFINE S == Present(c) \ Before(c, now)
               live == Without(c, Before(c, now))
    <3>1. CASE c # cmd.chat
      BY <1>0, <2>2, <2>4, <3>1 DEF SetSilencePattern, Present
    <3>2. CASE c = cmd.chat /\ Cardinality(S) > Limit
      <4>1. expiry'[c] = live
        BY <1>0, <2>4, <3>2 DEF SetSilencePattern
      <4> QED BY <4>1 DEF Present, Without
    <3>3. CASE c = cmd.chat /\ ~(Cardinality(S) > Limit)
      <4>1. expiry'[c] = [live EXCEPT ![cmd.pattern] = now + d]
        BY <1>0, <2>4, <3>3 DEF SetSilencePattern
      <4>2. \A p \in Patterns : p # cmd.pattern => expiry'[c][p] = live[p]
        BY <4>1 DEF Without
      <4>3. \A p \in Patterns : live[p] # Absent => p \in S
        BY DEF Without, Present
      <4>4. Present(c)' \subseteq S \cup {cmd.pattern}
        BY <4>2, <4>3 DEF Present
      <4> QED BY <2>2, <3>3, <4>4
    <3> QED BY <3>1, <3>2, <3>3
  <2> QED BY <1>3, <2>3, <2>4 DEF Silence, cmd
<1>4. UNCHANGED expiry \/ CleanUp \/ \E e \in Employees : Silence(e)
  BY DEF Next, Reload, Work, CheckPause, TreatPause, ListRoots, TellRoot, EndPause, Receive, Match,
         BeginMatch, Pass, silencer, vars
<1> QED BY <1>1, <1>2, <1>3, <1>4

LEMMA PatternsNext == Typed /\ PatternsFinite /\ [Next]_vars => PatternsFinite'
<1> SUFFICES ASSUME Typed, PatternsFinite, [Next]_vars, NEW c \in Chats
             PROVE  IsFiniteSet(Present(c))' /\ Cardinality(Present(c)') <= Limit + 1
  BY DEF PatternsFinite
<1>0. IsFiniteSet(Present(c)) /\ Cardinality(Present(c)) <= Limit + 1
  BY DEF PatternsFinite
<1>1. CASE Present(c)' \subseteq Present(c)
  <2>1. /\ IsFiniteSet(Present(c)') /\ Cardinality(Present(c)') <= Cardinality(Present(c))
        /\ Cardinality(Present(c)) \in Nat /\ Cardinality(Present(c)') \in Nat
    BY <1>0, <1>1, FS_Subset, FS_CardinalityType
  <2> QED BY <1>0, <2>1
<1>2. ASSUME NEW p \in Patterns, NEW S \in SUBSET Present(c),
             Present(c)' \subseteq S \cup {p}, ~(Cardinality(S) > Limit)
      PROVE  IsFiniteSet(Present(c)') /\ Cardinality(Present(c)') <= Limit + 1
  <2>1. IsFiniteSet(S) /\ Cardinality(S) \in Nat
    BY <1>0, FS_Subset, FS_CardinalityType
  <2>2. /\ IsFiniteSet(S \cup {p})
        /\ Cardinality(S \cup {p}) = Cardinality(S) \/ Cardinality(S \cup {p}) = Cardinality(S) + 1
    BY <2>1, FS_AddElement
  <2>3. IsFiniteSet(Present(c)') /\ Cardinality(Present(c)') <= Cardinality(S \cup {p})
        /\ Cardinality(Present(c)') \in Nat
    BY <1>2, <2>2, FS_Subset, FS_CardinalityType
  <2> QED BY <1>2, <2>1, <2>2, <2>3
<1> QED BY <1>1, <1>2, PresentNext

LEMMA PatternsInit == Init => PatternsFinite
<1> SUFFICES ASSUME Init, NEW c \in Chats
             PROVE  IsFiniteSet(Present(c)) /\ Cardinality(Present(c)) <= Limit + 1
  BY DEF PatternsFinite
<1>1. Present(c) = {}
  BY DEF Init, InitSilencer, Present
<1> QED BY <1>1, FS_EmptySet
-----------------------------------------------------------------------------
(* Words given to root users. *)

Actual(t) == IF t \in paused THEN "pause" ELSE "unpause"

\* Employee e alone is telling of t, and has yet to tell whoever was not told.
Teller(e, t) ==
    /\ \A o \in Employees : Treats(o, t) => o = e
    /\ emp[e].cmd.op = Actual(t)
    /\ \A i \in Identities : word[t][i] \in {Excused, "untold", Actual(t)}
    /\ emp[e].pc = "tell" => \A i \in Identities : word[t][i] = "untold" => i \in emp[e].roots

Told(t) ==
    /\ \A i \in Identities : word[t][i] # Excused => i \in Roots
    /\ \A e \in Employees : Treats(e, t) => (\A i \in Identities : word[t][i] = Excused) \/ Teller(e, t)
    /\ (\A e \in Employees : ~Treats(e, t)) =>
          \A i \in Identities : word[t][i] \in {Excused, Actual(t)}

\* Steps that leave t as it is, except that some may be excused.
LEMMA ToldStays ==
    ASSUME NEW t \in Targets, Told(t),
           t \in paused' <=> t \in paused,
           \A i \in Identities : word'[t][i] \in {Excused, word[t][i]},
           \A i \in Identities : word'[t][i] # Excused => i \in Roots',
           \A e \in Employees : Treats(e, t)' => Treats(e, t),
           \A e \in Employees : Treats(e, t) => emp'[e] = emp[e]
    PROVE  Told(t)'
<1>1. Actual(t)' = Actual(t)
  BY DEF Actual
<1>2. \A e \in Employees : Treats(e, t)' <=> Treats(e, t)
  BY DEF Treats
<1>3. ASSUME NEW e \in Employees, Treats(e, t)', ~(\A i \in Identities : word'[t][i] = Excused)
      PROVE  Teller(e, t)'
  <2>1. Teller(e, t) /\ emp'[e] = emp[e]
    BY <1>2, <1>3 DEF Told
  <2>2. \A i \in Identities : word'[t][i] = "untold" => word[t][i] = "untold"
    BY DEF Excused
  <2> QED BY <1>1, <1>2, <2>1, <2>2 DEF Teller
<1>4. ASSUME \A e \in Employees : ~Treats(e, t)'
      PROVE  \A i \in Identities : word'[t][i] \in {Excused, Actual(t)'}
  BY <1>1, <1>2, <1>4 DEF Told
<1> QED BY <1>3, <1>4 DEF Told

\* The steps of an employee who treats t.
LEMMA ToldByWork ==
    ASSUME Typed, NEW t \in Targets, Told(t), NEW e \in Employees, emp[e].cmd.target = t,
           \/ TreatPause(e) \/ ListRoots(e) \/ EndPause(e)
           \/ \E i \in Identities : TellRoot(e, i)
    PROVE  Told(t)'
<1>0. /\ emp \in [Employees -> Task] /\ emp[e] \in Task
      /\ word \in [Targets -> [Identities -> Words]]
      /\ UNCHANGED Roots
  BY DEF Typed, TreatPause, ListRoots, EndPause, TellRoot, config, Roots
<1>1. emp[e].cmd \in Pauses
  BY DEF Typed, TreatPause, ListRoots, EndPause, TellRoot, At, Free
<1>2. emp[e].cmd.op \in {"pause", "unpause"}
  BY <1>1 DEF Pauses
<1>3. CASE TreatPause(e)
  <2> DEFINE alone == \A o \in Employees : ~Treats(o, t)
  <2>1. /\ emp' = [emp EXCEPT ![e] = [emp[e] EXCEPT !.pc = "list"]]
        /\ emp[e].pc = "treat"
    BY <1>0, <1>3 DEF TreatPause, Set, Task, At
  <2>2. /\ emp'[e].pc = "list" /\ emp'[e].cmd = emp[e].cmd
        /\ \A o \in Employees : o # e => emp'[o] = emp[o]
        /\ ~Treats(e, t) /\ Treats(e, t)'
    BY <1>0, <2>1 DEF Task, Treats
  <2>3. Actual(t)' = emp[e].cmd.op
    BY <1>2, <1>3 DEF TreatPause, Actual
  <2>4. \A i \in Identities : word'[t][i] = IF i \in Roots /\ alone THEN "untold" ELSE Excused
    BY <1>0, <1>3 DEF TreatPause
  <2>5. CASE alone
    <3>1. \A o \in Employees : Treats(o, t)' => o = e
      BY <2>2, <2>5 DEF Treats
    <3>2. Teller(e, t)'
      BY <2>2, <2>3, <2>4, <3>1 DEF Teller
    <3> QED BY <1>0, <2>2, <2>4, <3>1, <3>2 DEF Told
  <2>6. CASE ~alone
    BY <2>2, <2>4, <2>6 DEF Told
  <2> QED BY <2>5, <2>6
<1>4. CASE ListRoots(e)
  <2>1. /\ emp' = [emp EXCEPT ![e] = [emp[e] EXCEPT !.pc = "tell", !.roots = Roots]]
        /\ emp[e].pc = "list" /\ UNCHANGED <<paused, word>>
    BY <1>0, <1>4 DEF ListRoots, Task
  <2>2. /\ emp'[e].cmd = emp[e].cmd /\ emp'[e].pc = "tell" /\ emp'[e].roots = Roots
        /\ \A o \in Employees : o # e => emp'[o] = emp[o]
        /\ Treats(e, t) /\ Treats(e, t)'
    BY <1>0, <2>1 DEF Task, Treats
  <2>3. Actual(t)' = Actual(t) /\ \A o \in Employees : Treats(o, t)' <=> Treats(o, t)
    BY <2>1, <2>2 DEF Actual, Treats
  <2>4. CASE \A i \in Identities : word[t][i] = Excused
    BY <2>1, <2>2, <2>4 DEF Told
  <2>5. CASE Teller(e, t)
    <3>1. \A i \in Identities : word[t][i] = "untold" => i \in Roots
      BY DEF Told, Excused
    <3>2. Teller(e, t)'
      BY <2>1, <2>2, <2>3, <2>5, <3>1 DEF Teller
    <3> QED BY <1>0, <2>1, <2>2, <2>3, <2>5, <3>2 DEF Told, Teller
  <2> QED BY <2>2, <2>4, <2>5 DEF Told
<1>5. ASSUME NEW i \in Identities, TellRoot(e, i) PROVE Told(t)'
  <2>1. /\ emp' = [emp EXCEPT ![e] = [emp[e] EXCEPT !.roots = emp[e].roots \ {i}]]
        /\ emp[e].pc = "tell" /\ UNCHANGED <<paused, users>>
    BY <1>0, <1>5 DEF TellRoot, Task, config
  <2>2. /\ emp'[e].cmd = emp[e].cmd /\ emp'[e].pc = "tell" /\ emp'[e].roots = emp[e].roots \ {i}
        /\ \A o \in Employees : o # e => emp'[o] = emp[o]
        /\ Treats(e, t) /\ Treats(e, t)'
    BY <1>0, <2>1 DEF Task, Treats
  <2>3. Actual(t)' = Actual(t) /\ \A o \in Employees : Treats(o, t)' <=> Treats(o, t)
    BY <2>1, <2>2 DEF Actual, Treats
  <2>4. \A j \in Identities :
           word'[t][j] = IF j = i /\ i \in DOMAIN users /\ word[t][i] # Excused
                         THEN emp[e].cmd.op ELSE word[t][j]
    <3>1. CASE i \in DOMAIN users
      <4>1. word' = [word EXCEPT ![t] = [word[t] EXCEPT ![i] =
                        IF word[t][i] = Excused THEN Excused ELSE emp[e].cmd.op]]
        BY <1>0, <1>5, <3>1 DEF TellRoot, Give
      <4> QED BY <1>0, <3>1, <4>1
    <3>2. CASE i \notin DOMAIN users
      BY <1>5, <3>2 DEF TellRoot
    <3> QED BY <3>1, <3>2
  <2>5. CASE \A j \in Identities : word[t][j] = Excused
    BY <2>2, <2>4, <2>5 DEF Told
  <2>6. CASE Teller(e, t)
    <3>1. \A j \in Identities : word'[t][j] = "untold" => word[t][j] = "untold" /\ j # i
      <4>1. i \notin DOMAIN users => word[t][i] # "untold"
        BY DEF Told, Roots, Excused
      <4> QED BY <1>2, <2>4, <4>1 DEF Excused
    <3>2. Teller(e, t)'
      <4>1. \A j \in Identities : word'[t][j] \in {Excused, "untold", Actual(t)}
        BY <2>4, <2>6 DEF Teller
      <4>2. \A j \in Identities : word'[t][j] = "untold" => j \in emp'[e].roots
        BY <2>1, <2>2, <2>6, <3>1 DEF Teller
      <4> QED BY <2>2, <2>3, <2>6, <4>1, <4>2 DEF Teller
    <3>3. \A j \in Identities : word'[t][j] # Excused => j \in Roots'
      BY <1>0, <2>4 DEF Told
    <3> QED BY <2>2, <2>3, <2>6, <3>2, <3>3 DEF Told, Teller
  <2> QED BY <2>2, <2>5, <2>6 DEF Told
<1>6. CASE EndPause(e)
  <2>1. /\ emp' = [emp EXCEPT ![e] = Free] /\ UNCHANGED <<paused, word>>
        /\ emp[e].pc = "tell" /\ emp[e].roots = {}
    BY <1>6 DEF EndPause
  <2>2. /\ \A o \in Employees : o # e => emp'[o] = emp[o]
        /\ Treats(e, t) /\ ~Treats(e, t)'
    BY <1>0, <2>1 DEF Treats, Free
  <2>3. Actual(t)' = Actual(t) /\ \A o \in Employees : Treats(o, t)' => Treats(o, t) /\ o # e
    BY <2>1, <2>2 DEF Actual, Treats
  <2>4. CASE \A i \in Identities : word[t][i] = Excused
    BY <2>1, <2>4 DEF Told
  <2>5. CASE Teller(e, t)
    <3>1. \A i \in Identities : word[t][i] \in {Excused, Actual(t)}
      BY <2>1, <2>5 DEF Teller
    <3> QED BY <1>0, <2>1, <2>3, <2>5, <3>1 DEF Told, Teller
  <2> QED BY <2>2, <2>4, <2>5 DEF Told
<1> QED BY <1>3, <1>4, <1>5, <1>6

LEMMA ToldNext == ASSUME Typed, [Next]_vars, NEW t \in Targets, Told(t) PROVE Told(t)'
<1>0. /\ word \in [Targets -> [Identities -> Words]] /\ emp \in [Employees -> Task]
      /\ \A i \in Identities : word[t][i] # Excused => i \in Roots
  BY DEF Typed, Told
<1>1. ASSUME UNCHANGED <<config, paused, word>>,
             \A o \in Employees : Treats(o, t)' => Treats(o, t),
             \A o \in Employees : Treats(o, t) => emp'[o] = emp[o]
      PROVE  Told(t)'
  BY <1>0, <1>1, ToldStays DEF config, Roots
<1>2. CASE Reload
  <2>1. \A i \in Identities : word'[t][i] = IF i \in Roots' THEN word[t][i] ELSE Excused
    BY <1>2 DEF Reload
  <2>2. UNCHANGED <<paused, emp>>
    BY <1>2 DEF Reload
  <2>3. \A o \in Employees : Treats(o, t)' <=> Treats(o, t)
    BY <2>2 DEF Treats
  <2> QED BY <2>1, <2>2, <2>3, ToldStays
<1>3. CASE (Match \/ Pass) /\ UNCHANGED <<config, paused, lastRequest, emp, word>>
  BY <1>1, <1>3 DEF Treats
<1>4. CASE UNCHANGED vars
  BY <1>1, <1>4 DEF Treats, vars
<1>5. ASSUME NEW e \in Employees, NEW i \in Identities, NEW cmd \in Commands, Receive(e, i, cmd)
      PROVE  Told(t)'
  <2>1. /\ emp[e].pc = "free" /\ emp'[e].pc = "check"
        /\ \A o \in Employees : o # e => emp'[o] = emp[o]
    BY <1>0, <1>5 DEF Receive
  <2>2. UNCHANGED <<config, paused, word>>
    BY <1>5 DEF Receive
  <2>3. /\ \A o \in Employees : Treats(o, t)' => Treats(o, t)
        /\ \A o \in Employees : Treats(o, t) => emp'[o] = emp[o]
    BY <2>1 DEF Treats
  <2> QED BY <1>1, <2>2, <2>3
<1>6. ASSUME NEW e \in Employees, CheckPause(e) \/ Silence(e) PROVE Told(t)'
  <2>1. /\ emp[e].pc = "check" /\ emp'[e].pc \in {"free", "treat"}
        /\ \A o \in Employees : o # e => emp'[o] = emp[o]
    <3>1. emp' = [emp EXCEPT ![e] = [Free EXCEPT !.pc = "treat", !.cmd = emp[e].cmd]] \/ emp' = [emp EXCEPT ![e] = Free]
      BY <1>6 DEF CheckPause, Silence
    <3>2. [Free EXCEPT !.pc = "treat", !.cmd = emp[e].cmd].pc = "treat" /\ Free.pc = "free"
      BY DEF Free
    <3>3. emp[e].pc = "check"
      BY <1>6 DEF CheckPause, Silence, At
    <3> QED BY <1>0, <3>1, <3>2, <3>3
  <2>2. UNCHANGED <<config, paused, word>>
    BY <1>6 DEF CheckPause, Silence
  <2> QED BY <1>1, <2>1, <2>2 DEF Treats
<1>7. ASSUME NEW e \in Employees,
             \/ TreatPause(e) \/ ListRoots(e) \/ EndPause(e)
             \/ \E i \in Identities : TellRoot(e, i)
      PROVE  Told(t)'
  <2>1. CASE emp[e].cmd.target = t
    BY <1>7, <2>1, ToldByWork
  <2>2. CASE emp[e].cmd.target # t
    <3>1. /\ UNCHANGED config
          /\ t \in paused' <=> t \in paused
          /\ word'[t] = word[t]
      BY <1>0, <1>7, <2>2 DEF TreatPause, ListRoots, EndPause, TellRoot, Give
    <3>2. /\ \A o \in Employees : o # e => emp'[o] = emp[o]
          /\ ~Treats(e, t)
      BY <1>0, <1>7, <2>2 DEF TreatPause, ListRoots, EndPause, TellRoot, Set, Treats
    <3>3. ~Treats(e, t)'
      <4>1. emp[e] \in Task
        BY <1>0
      <4>2. emp'[e].cmd = emp[e].cmd \/ emp'[e] = Free
        BY <1>0, <1>7, <4>1 DEF TreatPause, ListRoots, EndPause, TellRoot, Set, Task
      <4> QED BY <2>2, <4>2 DEF Treats, Free
    <3>4. \A o \in Employees : Treats(o, t)' => Treats(o, t)
      BY <3>2, <3>3 DEF Treats
    <3>5. \A i \in Identities : word'[t][i] # Excused => i \in Roots'
      BY <1>0, <3>1 DEF config, Roots
    <3> QED BY <3>1, <3>2, <3>4, <3>5, ToldStays
  <2> QED BY <2>1, <2>2
<1> QED BY <1>2, <1>3, <1>4, <1>5, <1>6, <1>7 DEF Next, Work

LEMMA ToldInit == ASSUME Init, NEW t \in Targets PROVE Told(t)
BY DEF Init, Told, Treats, Free

-----------------------------------------------------------------------------
(* The invariant, and what follows. *)

\* The clean-up never judges by a time to come.
MatchPast == match # Unmatched => match.since <= now

IInv ==
    /\ Typed
    /\ PatternsFinite
    /\ MatchPast
    /\ \A t \in Targets : Told(t)

LEMMA MatchPastNext == Typed /\ MatchPast /\ [Next]_vars => MatchPast'
<1> SUFFICES ASSUME Typed, MatchPast, [Next]_vars PROVE MatchPast'
  OBVIOUS
<1>0. /\ now \in 1..MaxTime
      /\ match \in [chat : Chats, since : 1..MaxTime] \cup {Unmatched}
  BY DEF Typed, SilencerTypeOK
<1>1. CASE UNCHANGED <<now, match>>
  BY <1>1 DEF MatchPast
<1>2. CASE Match
  BY <1>0, <1>2 DEF Match, BeginMatch, CleanUp, MatchPast
<1>3. CASE Pass
  <2>1. match # Unmatched => match.since \in 1..MaxTime /\ match.since <= now
    BY <1>0 DEF MatchPast
  <2>2. match' = match /\ now' = now + 1
    BY <1>3 DEF Pass
  <2> QED BY <1>0, <2>1, <2>2 DEF MatchPast
<1> QED
  BY <1>1, <1>2, <1>3
     DEF Next, Reload, Work, CheckPause, TreatPause, ListRoots, TellRoot, EndPause, Silence, Receive,
         silencer, vars

\* The strengthened invariant.
THEOREM Invariance == Spec => []IInv
<1>1. Init => IInv
  <2>1. Init => MatchPast
    BY DEF Init, InitSilencer, MatchPast
  <2> QED BY <2>1, TypeInit, PatternsInit, ToldInit DEF IInv
<1>2. IInv /\ [Next]_vars => IInv'
  BY TypeNext, PatternsNext, MatchPastNext, ToldNext DEF IInv
<1> QED BY <1>1, <1>2, PTL DEF Spec

\* Every variable keeps its type, for any users, chains and commands.
THEOREM TypeCorrect == Spec => []TypeOK
<1>1. Typed => TypeOK
  BY DEF Typed, TypeOK, Task, Words
<1> QED BY <1>1, Invariance, PTL DEF IInv

\* "maximum %d patterns are allowed per chat" (silencer.go:41) does not hold, as the
\* limit is tested with > before a pattern is added.  But however many employees set
\* patterns, and in whatever order with the clean-up, a chat exceeds the limit by one
\* pattern at most, the expired included (silencer.go:38-50, 98-110).
THEOREM LimitExceededByOne == Spec => []OneOverLimit
<1>1. PatternsFinite => OneOverLimit
  BY DEF PatternsFinite, OneOverLimit
<1> QED BY <1>1, Invariance, PTL DEF IInv

\* With any number of employees, and users replaced at any moment, root users
\* know what is paused once nobody is telling (command_pause.go:95-122).
THEOREM RootsAreTold == Spec => []RootsKnowPauses
<1>1. (\A t \in Targets : Told(t)) => RootsKnowPauses
  BY DEF Told, Actual, RootsKnowPauses
<1> QED BY <1>1, Invariance, PTL DEF IInv

\* No live pattern goes but by the command to remove it (silencer.go:98-110).
THEOREM LivePatternsStay == Spec => LivePatternKept
<1> DEFINE Kept == \A c \in Chats, p \in Patterns :
          Effective(c, p) /\ expiry'[c][p] = Absent =>
             \E e \in Employees : /\ emp[e].pc = "check" /\ emp'[e].pc = "free"
                                 /\ emp[e].cmd = [op |-> "unsilent", chat |-> c, pattern |-> p]
<1>1. IInv /\ [Next]_vars => Kept
  <2> SUFFICES ASSUME IInv, [Next]_vars, NEW c \in Chats, NEW p \in Patterns,
                      Effective(c, p), expiry'[c][p] = Absent
               PROVE  \E e \in Employees : /\ emp[e].pc = "check" /\ emp'[e].pc = "free"
                                 /\ emp[e].cmd = [op |-> "unsilent", chat |-> c, pattern |-> p]
    OBVIOUS
  <2>0. /\ now \in 1..MaxTime
        /\ expiry \in [Chats -> [Patterns -> 0..(MaxTime + Longest)]]
        /\ match \in [chat : Chats, since : 1..MaxTime] \cup {Unmatched}
        /\ emp \in [Employees -> Task]
    BY DEF IInv, Typed, SilencerTypeOK
  <2>1. expiry[c][p] >= now /\ expiry[c][p] # Absent
    BY <2>0 DEF Effective, Absent
  <2>2. ~CleanUp
    <3>1. ASSUME CleanUp PROVE expiry'[c][p] = expiry[c][p]
      <4>1. match.since \in 1..MaxTime /\ match.since <= now
        BY <2>0, <3>1 DEF CleanUp, IInv, MatchPast
      <4>2. expiry' = [expiry EXCEPT ![match.chat] = Without(match.chat, Before(match.chat, match.since))]
        BY <3>1 DEF CleanUp
      <4>3. p \notin Before(c, match.since)
        BY <2>0, <2>1, <4>1 DEF Before
      <4> QED BY <2>0, <4>2, <4>3 DEF Without
    <3> QED BY <2>1, <3>1
  <2>3. UNCHANGED expiry \/ CleanUp \/ \E e \in Employees : Silence(e)
    BY DEF Next, Reload, Work, CheckPause, TreatPause, ListRoots, TellRoot, EndPause, Receive, Match,
           BeginMatch, Pass, silencer, vars
  <2>4. PICK e \in Employees : Silence(e)
    BY <2>1, <2>2, <2>3
  <2>5. /\ emp[e].pc = "check" /\ emp'[e].pc = "free"
        /\ emp[e].cmd \in Silences
    <3>1. emp[e].pc = "check" /\ emp[e].cmd.op \in {"silent", "unsilent"}
      BY <2>4 DEF Silence, At
    <3>2. emp[e].cmd \in Silences
      BY <3>1 DEF IInv, Typed, Free, Pauses
    <3>3. emp'[e].pc = "free"
      BY <2>0, <2>4 DEF Silence, Free
    <3> QED BY <3>1, <3>2, <3>3
  <2> DEFINE cmd == emp[e].cmd
  <2>6. ASSUME NEW d \in 0..Longest, SetSilencePattern(cmd.chat, cmd.pattern, d) PROVE FALSE
    <3>1. cmd.chat \in Chats /\ cmd.pattern \in Patterns
      BY <2>5 DEF Silences
    <3> HIDE DEF cmd
    <3> DEFINE live == Without(c, Before(c, now))
    <3>2. p \notin Before(c, now)
      BY <2>0, <2>1 DEF Before
    <3>3. live[p] = expiry[c][p]
      BY <3>2 DEF Without
    <3>4. \/ expiry'[c] = expiry[c]
          \/ expiry'[c] = live
          \/ expiry'[c] = [live EXCEPT ![cmd.pattern] = now + d]
      BY <2>0, <2>6, <3>1 DEF SetSilencePattern
    <3>5. DOMAIN live = Patterns /\ now + d # 0 /\ 0 = Absent
      BY <2>0 DEF Without, Absent
    <3> HIDE DEF live
    <3>6. expiry'[c][p] \in {expiry[c][p], now + d}
      BY <3>3, <3>4, <3>5
    <3> QED BY <2>1, <3>5, <3>6
  <2>7. cmd.op = "unsilent" /\ RemoveSilencePattern(cmd.chat, cmd.pattern)
    BY <2>4, <2>6 DEF Silence
  <2>8. cmd.chat = c /\ cmd.pattern = p
    BY <2>0, <2>1, <2>7 DEF RemoveSilencePattern
  <2>9. cmd = [op |-> "unsilent", chat |-> c, pattern |-> p]
    BY <2>5, <2>7, <2>8 DEF Silences
  <2> QED BY <2>5, <2>9
<1>2. IInv /\ [Next]_vars => [Kept]_vars
  BY <1>1
<1> QED BY <1>2, Invariance, PTL DEF LivePatternKept, Spec
=============================================================================
