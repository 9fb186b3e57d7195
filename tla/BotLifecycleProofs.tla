------------------------ MODULE BotLifecycleProofs -------------------------
(***************************************************************************)
(* Proofs about BotLifecycle, for any users, tokens and users files: no    *)
(* token gets two readers, nobody sends on the channel of new bots once it *)
(* is closed, and no chat is left out of the message before the end.       *)
(***************************************************************************)
EXTENDS BotLifecycle, FiniteSetTheorems, TLAPS

\* Where a goroutine holds the lock of the registry across a wait.
Critical == {"creating", "sending"}

\* The caller has looked for a user's bot, or has it.
Asking == {"missed", "creating", "sending", "register"}

\* What of an exit follows the flag.
Flagged == {"list", "tell", "send", "close", "done"}

\* Who creates or hands over a bot holds the lock, for a token that has none
\* until it is created.
LockHeld ==
    /\ \A g \in Callers : pc[g] \in Asking => asked[g] \in Users
    /\ \A g \in Callers : pc[g] \in Critical => lock = g
    /\ \A g \in Callers : pc[g] = "creating" => bots[TokenAsked(g)] = 0

\* The flag is raised while nobody holds the lock, and nobody takes it later.
FlagStops ==
    /\ shuttingDown => \A g \in Callers : pc[g] \notin Critical
    /\ \A g \in Exits : pc[g] \in Flagged => shuttingDown
    /\ closed => shuttingDown

\* On its way to an employee: the bot that is being sent, the bot in hand.
Sending(t) == \E g \in Callers : pc[g] = "sending" /\ TokenAsked(g) = t
OnItsWay(t) == (IF inHand = t THEN 1 ELSE 0) + (IF Sending(t) THEN 1 ELSE 0)

\* The message to everyone is at a bot of the registry.
Telling == \A g \in Exits : pc[g] = "send" => telling[g] \in Tokens

OneEmployee ==
    /\ center # "launching" => inHand = Nobody
    /\ center = "launching" => inHand \in Tokens
    /\ \A t \in Tokens : bots[t] <= 1 /\ launched[t] + OnItsWay(t) = bots[t]

IInv == TypeOK /\ LockHeld /\ FlagStops /\ Telling /\ OneEmployee

-----------------------------------------------------------------------------
(* Types. *)

USE DEF Callers, Exits, Goroutines

LEMMA TypeInit == Init => TypeOK
<1> SUFFICES ASSUME Init PROVE TypeOK
  OBVIOUS
<1> USE LifecycleAssumption, NobodyAssumption DEF Init
<1>1. pc \in [Goroutines -> Labels]
  BY DEF Labels
<1>2. NoFile \in File
  BY DEF NoFile, File
<1> QED BY <1>1, <1>2 DEF TypeOK

\* One step per action; asked is a user wherever a caller asks for a bot.
LEMMA TypeNext ==
    ASSUME TypeOK, LockHeld, Telling, OneEmployee, [Next]_vars
    PROVE  TypeOK'
<1> USE LifecycleAssumption, NobodyAssumption DEF TypeOK, Labels
<1>1. ASSUME NEW g \in Callers, NEW u \in Users, LookUp(g, u) PROVE TypeOK'
  BY <1>1 DEF LookUp, Answer, Go, registry, callCenter, tell
<1>2. ASSUME NEW g \in Callers, Lock(g) PROVE TypeOK'
  BY <1>2 DEF Lock, WithBot, WithoutBot, Answer, Continue, Go, callCenter, tell, LockHeld, Asking
<1>3. ASSUME NEW g \in Callers, Create(g) PROVE TypeOK'
  BY <1>3 DEF Create, WithoutBot, Answer, Continue, Go, callCenter, tell, LockHeld, Asking, TokenAsked
<1>4. ASSUME NEW g \in Callers, HandOver(g) PROVE TypeOK'
  BY <1>4 DEF HandOver, WithBot, Answer, Go, tell, LockHeld, Asking, TokenAsked
<1>5. ASSUME ReadUsersFile PROVE TypeOK'
  BY <1>5 DEF ReadUsersFile, Go, registry, callCenter, tell, File
<1>6. ASSUME RegisterChat PROVE TypeOK'
  BY <1>6 DEF RegisterChat, Go, callCenter, tell, LockHeld, Asking
<1>7. ASSUME EndReload PROVE TypeOK'
  BY <1>7 DEF EndReload, Go, registry, callCenter, tell, File, NoFile
<1>8. ASSUME Launch PROVE TypeOK'
  <2>1. launched' \in [Tokens -> Nat]
    BY <1>8 DEF Launch, OneEmployee
  <2> QED BY <1>8, <2>1 DEF Launch, registry, calls, tell
<1>9. ASSUME EndCenter PROVE TypeOK'
  BY <1>9 DEF EndCenter, registry, calls, tell
<1>10. ASSUME InformStartup \/ AwaitSignal \/ Signal \/ PanicOnFile PROVE TypeOK'
  BY <1>10 DEF InformStartup, AwaitSignal, Signal, PanicOnFile, Go, registry, calls, callCenter, tell
<1>11. ASSUME NEW g \in Exits, RaiseFlag(g) PROVE TypeOK'
  BY <1>11 DEF RaiseFlag, Go, calls, callCenter, Registered
<1>12. ASSUME NEW g \in Exits, ListBots(g) PROVE TypeOK'
  BY <1>12 DEF ListBots, Go, registry, calls, callCenter, Registered
<1>13. ASSUME NEW g \in Exits, NEW t \in Tokens, StopBot(g, t) PROVE TypeOK'
  <2>1. telling' \in [Exits -> Tokens \cup {Nobody}] /\ left' \in [Exits -> SUBSET Tokens]
    BY <1>13 DEF StopBot, TellingPanics
  <2>2. pc' \in [Goroutines -> Labels] /\ stopped' \in SUBSET Tokens /\ broken' \in BOOLEAN
    BY <1>13 DEF StopBot, TellingPanics, Go
  <2> QED BY <1>13, <2>1, <2>2 DEF StopBot, registry, calls, callCenter
<1>14. ASSUME NEW g \in Exits, TellChats(g) PROVE TypeOK'
  <2>1. PICK reached \in SUBSET chats[telling[g]] : TryChats(telling[g], reached)
    BY <1>14 DEF TellChats
  <2>2. telling[g] \in Tokens
    BY <1>14 DEF TellChats, Telling
  <2>3. told' \in SUBSET (Tokens \X Users) /\ refused' \in SUBSET (Tokens \X Users)
    BY <2>1, <2>2 DEF TryChats
  <2>4. /\ left' \in [Exits -> SUBSET Tokens] /\ telling' \in [Exits -> Tokens \cup {Nobody}]
        /\ pc' \in [Goroutines -> Labels]
    BY <1>14 DEF TellChats, Go
  <2> QED BY <1>14, <2>3, <2>4 DEF TellChats, registry, calls, callCenter
<1>15. ASSUME NEW g \in Exits, EndTelling(g) PROVE TypeOK'
  BY <1>15 DEF EndTelling, Go, registry, calls, callCenter
<1>16. ASSUME NEW g \in Exits, Close(g) \/ Done(g) PROVE TypeOK'
  BY <1>16 DEF Close, Done, Go, registry, calls, callCenter, tell
<1>17. ASSUME UNCHANGED vars PROVE TypeOK'
  BY <1>17 DEF vars, registry, calls, callCenter, tell
<1> QED
  BY <1>1, <1>2, <1>3, <1>4, <1>5, <1>6, <1>7, <1>8, <1>9, <1>10, <1>11, <1>12, <1>13, <1>14,
     <1>15, <1>16, <1>17
     DEF Next, Reload, Call, Center, Exit, Tell

\* A lock is taken when it is free, and given back by its holder.
LEMMA LockNext ==
    ASSUME TypeOK, LockHeld, [Next]_vars
    PROVE  LockHeld'
<1> USE LifecycleAssumption, NobodyAssumption DEF TypeOK, Labels, LockHeld, Asking, Critical, TokenAsked
<1>1. ASSUME NEW g \in Callers, NEW u \in Users, LookUp(g, u) PROVE LockHeld'
  BY <1>1 DEF LookUp, Answer, Go, registry, callCenter, tell
<1>2. ASSUME NEW g \in Callers, Lock(g) PROVE LockHeld'
  BY <1>2 DEF Lock, WithBot, WithoutBot, Answer, Continue, Go, callCenter, tell, Registered
<1>3. ASSUME NEW g \in Callers, Create(g) PROVE LockHeld'
  BY <1>3 DEF Create, WithoutBot, Answer, Continue, Go, callCenter, tell
<1>4. ASSUME NEW g \in Callers, HandOver(g) PROVE LockHeld'
  BY <1>4 DEF HandOver, WithBot, Answer, Go, tell
<1>5. ASSUME ReadUsersFile PROVE LockHeld'
  BY <1>5 DEF ReadUsersFile, Go, registry, callCenter, tell
<1>6. ASSUME RegisterChat PROVE LockHeld'
  BY <1>6 DEF RegisterChat, Go, callCenter, tell
<1>7. ASSUME EndReload \/ InformStartup \/ AwaitSignal \/ Signal \/ PanicOnFile PROVE LockHeld'
  BY <1>7 DEF EndReload, InformStartup, AwaitSignal, Signal, PanicOnFile, Go, registry, calls, callCenter, tell
<1>8. ASSUME Launch PROVE LockHeld'
  BY <1>8 DEF Launch, registry, calls, tell
<1>9. ASSUME EndCenter PROVE LockHeld'
  BY <1>9 DEF EndCenter, registry, calls, tell
<1>10. ASSUME NEW g \in Exits, RaiseFlag(g) PROVE LockHeld'
  BY <1>10 DEF RaiseFlag, Go, calls, callCenter
<1>11. ASSUME NEW g \in Exits, ListBots(g) PROVE LockHeld'
  BY <1>11 DEF ListBots, Go, registry, calls, callCenter
<1>12. ASSUME NEW g \in Exits, NEW t \in Tokens, StopBot(g, t) PROVE LockHeld'
  BY <1>12 DEF StopBot, TellingPanics, Go, registry, calls, callCenter
<1>13. ASSUME NEW g \in Exits, TellChats(g) PROVE LockHeld'
  BY <1>13 DEF TellChats, Go, registry, calls, callCenter
<1>14. ASSUME NEW g \in Exits, EndTelling(g) PROVE LockHeld'
  BY <1>14 DEF EndTelling, Go, registry, calls, callCenter
<1>15. ASSUME NEW g \in Exits, Close(g) \/ Done(g) PROVE LockHeld'
  BY <1>15 DEF Close, Done, Go, registry, calls, callCenter, tell
<1>16. ASSUME UNCHANGED vars PROVE LockHeld'
  BY <1>16 DEF vars, registry, calls, callCenter, tell
<1> QED
  BY <1>1, <1>2, <1>3, <1>4, <1>5, <1>6, <1>7, <1>8, <1>9, <1>10, <1>11, <1>12, <1>13, <1>14, <1>15, <1>16
     DEF Next, Reload, Call, Center, Exit, Tell

\* The flag is read again by whoever gets the lock.
LEMMA FlagNext ==
    ASSUME TypeOK, LockHeld, FlagStops, [Next]_vars
    PROVE  FlagStops'
<1> USE LifecycleAssumption, NobodyAssumption DEF TypeOK, Labels, LockHeld, FlagStops, Flagged, Critical
<1>1. ASSUME NEW g \in Callers, NEW u \in Users, LookUp(g, u) PROVE FlagStops'
  BY <1>1 DEF LookUp, Answer, Go, registry, callCenter, tell
<1>2. ASSUME NEW g \in Callers, Lock(g) PROVE FlagStops'
  BY <1>2 DEF Lock, WithBot, WithoutBot, Answer, Continue, Go, callCenter, tell
<1>3. ASSUME NEW g \in Callers, Create(g) PROVE FlagStops'
  BY <1>3 DEF Create, WithoutBot, Answer, Continue, Go, callCenter, tell
<1>4. ASSUME NEW g \in Callers, HandOver(g) PROVE FlagStops'
  BY <1>4 DEF HandOver, WithBot, Answer, Go, tell
<1>5. ASSUME ReadUsersFile PROVE FlagStops'
  BY <1>5 DEF ReadUsersFile, Go, registry, callCenter, tell
<1>6. ASSUME RegisterChat PROVE FlagStops'
  BY <1>6 DEF RegisterChat, Go, callCenter, tell
<1>7. ASSUME EndReload \/ InformStartup \/ AwaitSignal \/ Signal \/ PanicOnFile PROVE FlagStops'
  BY <1>7 DEF EndReload, InformStartup, AwaitSignal, Signal, PanicOnFile, Go, registry, calls, callCenter, tell
<1>8. ASSUME Launch PROVE FlagStops'
  BY <1>8 DEF Launch, registry, calls, tell
<1>9. ASSUME EndCenter PROVE FlagStops'
  BY <1>9 DEF EndCenter, registry, calls, tell
<1>10. ASSUME NEW g \in Exits, RaiseFlag(g) PROVE FlagStops'
  BY <1>10 DEF RaiseFlag, Go, calls, callCenter
<1>11. ASSUME NEW g \in Exits, ListBots(g) PROVE FlagStops'
  BY <1>11 DEF ListBots, Go, registry, calls, callCenter
<1>12. ASSUME NEW g \in Exits, NEW t \in Tokens, StopBot(g, t) PROVE FlagStops'
  BY <1>12 DEF StopBot, TellingPanics, Go, registry, calls, callCenter
<1>13. ASSUME NEW g \in Exits, TellChats(g) PROVE FlagStops'
  BY <1>13 DEF TellChats, Go, registry, calls, callCenter
<1>14. ASSUME NEW g \in Exits, EndTelling(g) PROVE FlagStops'
  BY <1>14 DEF EndTelling, Go, registry, calls, callCenter
<1>15. ASSUME NEW g \in Exits, Close(g) \/ Done(g) PROVE FlagStops'
  BY <1>15 DEF Close, Done, Go, registry, calls, callCenter, tell
<1>16. ASSUME UNCHANGED vars PROVE FlagStops'
  BY <1>16 DEF vars, registry, calls, callCenter, tell
<1> QED
  BY <1>1, <1>2, <1>3, <1>4, <1>5, <1>6, <1>7, <1>8, <1>9, <1>10, <1>11, <1>12, <1>13, <1>14, <1>15, <1>16
     DEF Next, Reload, Call, Center, Exit, Tell

LEMMA TellingNext ==
    ASSUME TypeOK, Telling, [Next]_vars
    PROVE  Telling'
<1> USE LifecycleAssumption, NobodyAssumption DEF TypeOK, Labels, Telling
<1>1. ASSUME NEW g \in Callers, NEW u \in Users, LookUp(g, u) PROVE Telling'
  BY <1>1 DEF LookUp, Answer, Go, registry, callCenter, tell
<1>2. ASSUME NEW g \in Callers, Lock(g) PROVE Telling'
  BY <1>2 DEF Lock, WithBot, WithoutBot, Answer, Continue, Go, callCenter, tell
<1>3. ASSUME NEW g \in Callers, Create(g) PROVE Telling'
  BY <1>3 DEF Create, WithoutBot, Answer, Continue, Go, callCenter, tell
<1>4. ASSUME NEW g \in Callers, HandOver(g) PROVE Telling'
  BY <1>4 DEF HandOver, WithBot, Answer, Go, tell
<1>5. ASSUME ReadUsersFile PROVE Telling'
  BY <1>5 DEF ReadUsersFile, Go, registry, callCenter, tell
<1>6. ASSUME RegisterChat PROVE Telling'
  BY <1>6 DEF RegisterChat, Go, callCenter, tell
<1>7. ASSUME EndReload \/ InformStartup \/ AwaitSignal \/ Signal \/ PanicOnFile PROVE Telling'
  BY <1>7 DEF EndReload, InformStartup, AwaitSignal, Signal, PanicOnFile, Go, registry, calls, callCenter, tell
<1>8. ASSUME Launch PROVE Telling'
  BY <1>8 DEF Launch, registry, calls, tell
<1>9. ASSUME EndCenter PROVE Telling'
  BY <1>9 DEF EndCenter, registry, calls, tell
<1>10. ASSUME NEW g \in Exits, RaiseFlag(g) PROVE Telling'
  BY <1>10 DEF RaiseFlag, Go, calls, callCenter
<1>11. ASSUME NEW g \in Exits, ListBots(g) PROVE Telling'
  BY <1>11 DEF ListBots, Go, registry, calls, callCenter
<1>12. ASSUME NEW g \in Exits, NEW t \in Tokens, StopBot(g, t) PROVE Telling'
  BY <1>12 DEF StopBot, TellingPanics, Go, registry, calls, callCenter
<1>13. ASSUME NEW g \in Exits, TellChats(g) PROVE Telling'
  BY <1>13 DEF TellChats, Go, registry, calls, callCenter
<1>14. ASSUME NEW g \in Exits, EndTelling(g) PROVE Telling'
  BY <1>14 DEF EndTelling, Go, registry, calls, callCenter
<1>15. ASSUME NEW g \in Exits, Close(g) \/ Done(g) PROVE Telling'
  BY <1>15 DEF Close, Done, Go, registry, calls, callCenter, tell
<1>16. ASSUME UNCHANGED vars PROVE Telling'
  BY <1>16 DEF vars, registry, calls, callCenter, tell
<1> QED
  BY <1>1, <1>2, <1>3, <1>4, <1>5, <1>6, <1>7, <1>8, <1>9, <1>10, <1>11, <1>12, <1>13, <1>14, <1>15, <1>16
     DEF Next, Reload, Call, Center, Exit, Tell

\* A bot passes from its sender to the call center and on to one employee.
LEMMA EmployeeNext ==
    ASSUME TypeOK, LockHeld, OneEmployee, [Next]_vars
    PROVE  OneEmployee'
<1> USE LifecycleAssumption, NobodyAssumption DEF TypeOK, Labels, LockHeld, OneEmployee, OnItsWay, Sending, Asking, Critical, TokenAsked
<1>1. ASSUME NEW g \in Callers, NEW u \in Users, LookUp(g, u) PROVE OneEmployee'
  BY <1>1 DEF LookUp, Answer, Go, registry, callCenter, tell
<1>2. ASSUME NEW g \in Callers, Lock(g) PROVE OneEmployee'
  BY <1>2 DEF Lock, WithBot, WithoutBot, Answer, Continue, Go, callCenter, tell
<1>3. ASSUME NEW g \in Callers, Create(g) PROVE OneEmployee'
  BY <1>3 DEF Create, WithoutBot, Answer, Continue, Go, callCenter, tell
<1>4. ASSUME NEW g \in Callers, HandOver(g) PROVE OneEmployee'
  <2>1. /\ pc' = [pc EXCEPT ![g] = IF g = "pusher" THEN "idle" ELSE "register"]
        /\ \A h \in Callers : h # g => asked'[h] = asked[h]
        /\ pc[g] = "sending" /\ center = "receiving" /\ center' = "launching"
        /\ inHand' = TokenOf[asked[g]] /\ UNCHANGED <<bots, launched>>
    BY <1>4 DEF HandOver, WithBot, Answer, Go
  <2>2. \A h \in Callers : pc[h] = "sending" => h = g
    BY <2>1
  <2>3. \A h \in Callers : pc'[h] # "sending"
    BY <2>1, <2>2
  <2>4. inHand = Nobody /\ inHand' \in Tokens
    BY <2>1
  <2>5. ASSUME NEW t \in Tokens PROVE OnItsWay(t)' = OnItsWay(t)
    <3>1. ~Sending(t)'
      BY <2>3
    <3>2. Sending(t) <=> inHand' = t
      BY <2>1, <2>2
    <3> QED BY <2>4, <3>1, <3>2
  <2> QED BY <2>1, <2>4, <2>5
<1>5. ASSUME ReadUsersFile PROVE OneEmployee'
  BY <1>5 DEF ReadUsersFile, Go, registry, callCenter, tell
<1>6. ASSUME RegisterChat PROVE OneEmployee'
  BY <1>6 DEF RegisterChat, Go, callCenter, tell
<1>7. ASSUME EndReload \/ InformStartup \/ AwaitSignal \/ Signal \/ PanicOnFile PROVE OneEmployee'
  BY <1>7 DEF EndReload, InformStartup, AwaitSignal, Signal, PanicOnFile, Go, registry, calls, callCenter, tell
<1>8. ASSUME Launch PROVE OneEmployee'
  BY <1>8 DEF Launch, registry, calls, tell
<1>9. ASSUME EndCenter PROVE OneEmployee'
  BY <1>9 DEF EndCenter, registry, calls, tell
<1>10. ASSUME NEW g \in Exits, RaiseFlag(g) PROVE OneEmployee'
  BY <1>10 DEF RaiseFlag, Go, calls, callCenter
<1>11. ASSUME NEW g \in Exits, ListBots(g) PROVE OneEmployee'
  BY <1>11 DEF ListBots, Go, registry, calls, callCenter
<1>12. ASSUME NEW g \in Exits, NEW t \in Tokens, StopBot(g, t) PROVE OneEmployee'
  BY <1>12 DEF StopBot, TellingPanics, Go, registry, calls, callCenter
<1>13. ASSUME NEW g \in Exits, TellChats(g) PROVE OneEmployee'
  BY <1>13 DEF TellChats, Go, registry, calls, callCenter
<1>14. ASSUME NEW g \in Exits, EndTelling(g) PROVE OneEmployee'
  BY <1>14 DEF EndTelling, Go, registry, calls, callCenter
<1>15. ASSUME NEW g \in Exits, Close(g) \/ Done(g) PROVE OneEmployee'
  BY <1>15 DEF Close, Done, Go, registry, calls, callCenter, tell
<1>16. ASSUME UNCHANGED vars PROVE OneEmployee'
  BY <1>16 DEF vars, registry, calls, callCenter, tell
<1> QED
  BY <1>1, <1>2, <1>3, <1>4, <1>5, <1>6, <1>7, <1>8, <1>9, <1>10, <1>11, <1>12, <1>13, <1>14, <1>15, <1>16
     DEF Next, Reload, Call, Center, Exit, Tell

-----------------------------------------------------------------------------
(* The theorems. *)

LEMMA InitIInv == Init => IInv
<1> SUFFICES ASSUME Init PROVE IInv
  OBVIOUS
<1>1. TypeOK
  BY TypeInit
<1>2. LockHeld /\ FlagStops /\ Telling
  BY DEF Init, LockHeld, FlagStops, Telling, Asking, Critical, Flagged
<1>3. OneEmployee
  BY LifecycleAssumption DEF Init, OneEmployee, OnItsWay, Sending
<1> QED BY <1>1, <1>2, <1>3 DEF IInv

LEMMA NextIInv == IInv /\ [Next]_vars => IInv'
BY TypeNext, LockNext, FlagNext, TellingNext, EmployeeNext DEF IInv

\* The strengthened invariant.
THEOREM Invariance == Spec => []IInv
BY InitIInv, NextIInv, PTL DEF Spec

\* Every variable keeps its type, for any users, tokens and files.
THEOREM TypeCorrect == Spec => []TypeOK
<1>1. IInv => TypeOK
  BY DEF IInv
<1> QED BY <1>1, Invariance, PTL

\* At most one caller sends, so the set of senders counts as OnItsWay does.
LEMMA OneSender == IInv => OneReaderPerToken
<1> SUFFICES ASSUME IInv, NEW t \in Tokens
             PROVE  LET sending == {g \in Callers : pc[g] = "sending" /\ TokenAsked(g) = t}
                        hand == IF inHand = t THEN 1 ELSE 0 IN
                    bots[t] <= 1 /\ launched[t] + hand + Cardinality(sending) = bots[t]
  BY DEF OneReaderPerToken
<1> DEFINE sending == {g \in Callers : pc[g] = "sending" /\ TokenAsked(g) = t}
<1>1. sending \subseteq {lock}
  BY DEF IInv, LockHeld, Critical
<1>2. Cardinality(sending) = IF Sending(t) THEN 1 ELSE 0
  <2>1. CASE Sending(t)
    <3>1. sending = {lock}
      BY <1>1, <2>1 DEF Sending
    <3> QED BY <2>1, <3>1, FS_Singleton
  <2>2. CASE ~Sending(t)
    <3>1. sending = {}
      BY <2>2 DEF Sending
    <3> QED BY <2>2, <3>1, FS_EmptySet
  <2> QED BY <2>1, <2>2
<1> HIDE DEF sending
<1>3. bots[t] <= 1 /\ launched[t] + OnItsWay(t) = bots[t] /\ launched[t] \in Nat
  BY DEF IInv, OneEmployee, TypeOK
<1>4. bots[t] <= 1 /\ launched[t] + (IF inHand = t THEN 1 ELSE 0) + Cardinality(sending) = bots[t]
  BY <1>2, <1>3 DEF OnItsWay
<1> QED BY <1>4 DEF sending

\* For any users and tokens, at most one bot is created for a token and it gets
\* one employee (telegram_bot_registry.go:29-53).
THEOREM TokensHaveOneReader == Spec => []OneReaderPerToken
BY OneSender, Invariance, PTL

\* Nobody is about to send on the channel once it is closed (start.go:60).
THEOREM NoSendOnClosed == Spec => []ClosedUnused
<1>1. IInv => ClosedUnused
  BY DEF IInv, FlagStops, ClosedUnused, Critical
<1> QED BY <1>1, Invariance, PTL

-----------------------------------------------------------------------------
(* The message to everyone. *)

\* A chat that was registered when the flag was raised stays registered: no bot
\* is created any more.
KnownKept ==
    /\ ~shuttingDown => known = {}
    /\ \A p \in known : bots[p[1]] > 0 /\ p[2] \in chats[p[1]]

\* The chats that the message has been sent to, or has failed for.
Tried == told \cup refused

\* Unless a panic breaks the message off, a chat that no exit has tried yet is at a
\* bot that each exit has still to tell.
LeftToTell ==
    ~broken =>
        /\ \A g \in Exits : pc[g] \in {"tell", "send"} =>
              \A p \in known : p[1] \in left[g] \/ p \in Tried
        /\ \A g \in Exits : pc[g] \in {"close", "done"} => known \subseteq Tried
        /\ ended => known \subseteq Tried

TellInv == KnownKept /\ LeftToTell

LEMMA InitTellInv == Init => TellInv
BY DEF Init, TellInv, KnownKept, LeftToTell, Tried

\* A step that is none of an exit: nothing is tried, and no registered chat is lost.
LEMMA QuietTell ==
    ASSUME TellInv,
           UNCHANGED <<shuttingDown, left, told, refused, known, broken, ended>>,
           \A g \in Exits : pc'[g] \in Flagged => pc'[g] = pc[g],
           shuttingDown => /\ \A t \in Tokens : bots'[t] = bots[t] /\ chats[t] \subseteq chats'[t],
           TypeOK
    PROVE  TellInv'
<1>1. KnownKept'
  BY DEF TellInv, KnownKept, TypeOK
<1>2. LeftToTell'
  BY DEF TellInv, LeftToTell, Flagged, Tried
<1> QED BY <1>1, <1>2 DEF TellInv

\* A goroutine that does not go on with an exit.
LEMMA OutsideExit ==
    ASSUME TypeOK, NEW g \in Goroutines, NEW x, x \notin Flagged, Go(g, x)
    PROVE  \A h \in Exits : pc'[h] \in Flagged => pc'[h] = pc[h]
BY DEF TypeOK, Go

LEMMA TellNext ==
    ASSUME IInv, TellInv, [Next]_vars
    PROVE  TellInv'
<1> DEFINE Quiet == /\ UNCHANGED <<shuttingDown, left, told, refused, known, broken, ended>>
                    /\ \A g \in Exits : pc'[g] \in Flagged => pc'[g] = pc[g]
                    /\ shuttingDown => \A t \in Tokens : bots'[t] = bots[t] /\ chats[t] \subseteq chats'[t]
<1>0. TypeOK /\ LockHeld /\ FlagStops /\ Telling
  BY DEF IInv
<1>a. Quiet => TellInv'
  BY <1>0, QuietTell
<1> DEFINE Same == UNCHANGED <<shuttingDown, left, told, refused, known, broken, ended>>
           Away == Labels \ Flagged
           Elsewhere == \A g \in Exits : pc'[g] \in Flagged => pc'[g] = pc[g]
<1>b. ASSUME NEW g \in Goroutines,
             \/ \E x \in Away : Go(g, x)
             \/ pc' = pc
      PROVE  Elsewhere
  BY <1>0, <1>b, OutsideExit
<1>c. {"users", "register", "idle", "missed", "creating", "sending", "sleeping", "finished",
       "waiting", "exit"} \subseteq Away
  BY DEF Labels, Flagged
<1> HIDE DEF Away
<1>1. ASSUME NEW g \in Callers, NEW u \in Users, LookUp(g, u) PROVE Quiet
  <2>1. Same /\ bots' = bots /\ chats' = chats
    BY <1>1 DEF LookUp, registry, tell
  <2>2. \E x \in Away : Go(g, x)
    BY <1>c, <1>1 DEF LookUp, Answer
  <2> QED BY <1>b, <2>1, <2>2
<1>2. ASSUME NEW g \in Callers, Lock(g) PROVE Quiet
  <2>1. Same /\ bots' = bots /\ chats' = chats
    BY <1>2 DEF Lock, tell
  <2>2. \E x \in Away : Go(g, x)
    BY <1>c, <1>2 DEF Lock, WithBot, WithoutBot, Answer, Continue
  <2> QED BY <1>b, <2>1, <2>2
<1>3. ASSUME NEW g \in Callers, Create(g) PROVE Quiet
  <2>1. Same /\ ~shuttingDown
    BY <1>0, <1>3 DEF Create, FlagStops, Critical, tell
  <2>2. \E x \in Away : Go(g, x)
    BY <1>c, <1>3 DEF Create, WithoutBot, Answer, Continue
  <2> QED BY <1>b, <2>1, <2>2
<1>4. ASSUME NEW g \in Callers, HandOver(g) PROVE Quiet
  <2>1. Same /\ bots' = bots /\ chats' = chats
    BY <1>4 DEF HandOver, tell
  <2>2. \E x \in Away : Go(g, x)
    BY <1>c, <1>4 DEF HandOver, WithBot, Answer
  <2> QED BY <1>b, <2>1, <2>2
<1>5. ASSUME ReadUsersFile PROVE Quiet
  <2>1. Same /\ bots' = bots /\ chats' = chats /\ Go("reload", "users")
    BY <1>5 DEF ReadUsersFile, registry, tell
  <2> QED BY <1>b, <1>c, <2>1
<1>6. ASSUME RegisterChat PROVE Quiet
  <2>1. Same /\ bots' = bots /\ Go("reload", "users")
    BY <1>6 DEF RegisterChat, tell
  <2>2. \A t \in Tokens : chats[t] \subseteq chats'[t]
    BY <1>0, <1>6 DEF RegisterChat, TypeOK
  <2> QED BY <1>b, <1>c, <2>1, <2>2
<1>7. ASSUME EndReload \/ InformStartup \/ AwaitSignal \/ Signal \/ PanicOnFile PROVE Quiet
  <2>1. Same /\ bots' = bots /\ chats' = chats
    BY <1>7 DEF EndReload, InformStartup, AwaitSignal, Signal, PanicOnFile, registry, tell
  <2>2. \E g \in Goroutines : \E x \in Away : Go(g, x)
    BY <1>c, <1>7 DEF EndReload, InformStartup, AwaitSignal, Signal, PanicOnFile
  <2> QED BY <1>b, <2>1, <2>2
<1>8. ASSUME Launch \/ EndCenter PROVE Quiet
  BY <1>8 DEF Launch, EndCenter, registry, tell
<1>9. ASSUME UNCHANGED vars PROVE Quiet
  BY <1>9 DEF vars, registry, tell
<1> USE DEF TypeOK
<1>10. ASSUME ~ended, NEW g \in Exits, RaiseFlag(g) PROVE TellInv'
  <2>1. KnownKept'
    <3>1. CASE shuttingDown
      BY <1>10, <3>1 DEF RaiseFlag, TellInv, KnownKept
    <3>2. CASE ~shuttingDown
      <4>1. /\ shuttingDown' /\ bots' = bots /\ chats' = chats
            /\ known' = UNION {{t} \X chats[t] : t \in Registered}
        BY <1>10, <3>2 DEF RaiseFlag
      <4>2. \A p \in known' : bots[p[1]] > 0 /\ p[2] \in chats[p[1]]
        BY <4>1 DEF Registered
      <4> QED BY <4>1, <4>2 DEF KnownKept
    <3> QED BY <3>1, <3>2
  <2>2. LeftToTell'
    <3>0. /\ UNCHANGED <<left, told, refused, broken, ended>>
          /\ \A h \in Exits : pc'[h] \in {"tell", "send", "close", "done"} => pc'[h] = pc[h]
      BY <1>0, <1>10 DEF RaiseFlag, Go
    <3>1. CASE shuttingDown
      <4>1. known' = known
        BY <1>10, <3>1 DEF RaiseFlag
      <4> QED BY <3>0, <4>1 DEF TellInv, LeftToTell, Tried
    <3>2. CASE ~shuttingDown
      <4>1. \A h \in Exits : pc[h] \notin {"tell", "send", "close", "done"}
        BY <1>0, <3>2 DEF FlagStops, Flagged
      <4>2. ~ended
        BY <1>10, <3>2
      <4> QED BY <3>0, <4>1, <4>2 DEF LeftToTell
    <3> QED BY <3>1, <3>2
  <2> QED BY <2>1, <2>2 DEF TellInv
<1>11. ASSUME NEW g \in Exits, ListBots(g) PROVE TellInv'
  <2>1. /\ UNCHANGED <<shuttingDown, bots, chats, told, refused, known, broken, ended>>
        /\ left' = [left EXCEPT ![g] = Registered]
        /\ pc' = [pc EXCEPT ![g] = "tell"]
    BY <1>11 DEF ListBots, Go, registry
  <2>2. \A p \in known : p[1] \in Registered
    BY <1>0 DEF TellInv, KnownKept, Registered
  <2>3. KnownKept'
    BY <2>1 DEF TellInv, KnownKept
  <2>4. LeftToTell'
    <3>1. left'[g] = Registered /\ pc'[g] = "tell"
          /\ \A h \in Exits : h # g => left'[h] = left[h] /\ pc'[h] = pc[h]
      BY <1>0, <2>1
    <3> QED BY <2>1, <2>2, <3>1 DEF TellInv, LeftToTell, Tried
  <2> QED BY <2>3, <2>4 DEF TellInv
<1>12. ASSUME NEW g \in Exits, NEW t \in Tokens, StopBot(g, t) PROVE TellInv'
  <2>1. UNCHANGED <<shuttingDown, bots, chats, told, refused, known, ended>>
    BY <1>12 DEF StopBot, registry
  <2>2. broken' \/ (broken' = broken /\ left' = left /\ pc' = [pc EXCEPT ![g] = "send"] /\ pc[g] = "tell")
    BY <1>12 DEF StopBot, TellingPanics, Go
  <2>3. KnownKept'
    BY <2>1 DEF TellInv, KnownKept
  <2>4. LeftToTell'
    BY <1>0, <2>1, <2>2 DEF TellInv, LeftToTell, Tried
  <2> QED BY <2>3, <2>4 DEF TellInv
<1>13. ASSUME NEW g \in Exits, TellChats(g) PROVE TellInv'
  <2>1. /\ UNCHANGED <<shuttingDown, bots, chats, known, broken, ended>>
        /\ left' = [left EXCEPT ![g] = @ \ {telling[g]}]
        /\ pc' = [pc EXCEPT ![g] = "tell"] /\ pc[g] = "send"
    BY <1>13 DEF TellChats, Go, registry
  <2>2. /\ \A p \in known : p[1] = telling[g] => p \in Tried'
        /\ Tried \subseteq Tried'
    <3>1. PICK reached \in SUBSET chats[telling[g]] : TryChats(telling[g], reached)
      BY <1>13 DEF TellChats
    <3>2. ASSUME NEW p \in known, p[1] = telling[g] PROVE p \in Tried'
      <4>1. p \in Tokens \X Users /\ p[2] \in chats[p[1]]
        BY <1>0 DEF TellInv, KnownKept
      <4>2. p \in {telling[g]} \X reached \/ p \in {telling[g]} \X (chats[telling[g]] \ reached)
        BY <3>2, <4>1
      <4> QED BY <3>1, <4>2 DEF TryChats, Tried
    <3> QED BY <3>1, <3>2 DEF TryChats, Tried
  <2>3. KnownKept'
    BY <2>1 DEF TellInv, KnownKept
  <2>4. LeftToTell'
    BY <1>0, <2>1, <2>2 DEF TellInv, LeftToTell
  <2> QED BY <2>3, <2>4 DEF TellInv
<1>14. ASSUME NEW g \in Exits, EndTelling(g) PROVE TellInv'
  <2>1. /\ UNCHANGED <<shuttingDown, bots, chats, told, refused, known, broken, ended, left>>
        /\ pc' = [pc EXCEPT ![g] = "close"] /\ pc[g] = "tell" /\ left[g] = {}
    BY <1>14 DEF EndTelling, Go, registry
  <2>2. KnownKept'
    BY <2>1 DEF TellInv, KnownKept
  <2>3. LeftToTell'
    BY <1>0, <2>1 DEF TellInv, LeftToTell, Tried
  <2> QED BY <2>2, <2>3 DEF TellInv
<1>15. ASSUME NEW g \in Exits, Close(g) \/ Done(g) PROVE TellInv'
  <2>1. /\ UNCHANGED <<shuttingDown, bots, chats, told, refused, known, broken, left>>
        /\ pc[g] \in {"close", "done"}
        /\ \A h \in Exits : pc'[h] = pc[h] \/ (h = g /\ pc'[h] = "done")
    <3>1. UNCHANGED <<shuttingDown, bots, chats, told, refused, known, broken, left>>
      BY <1>15 DEF Close, Done, registry, tell
    <3>2. pc[g] \in {"close", "done"} /\ (Go(g, "done") \/ pc' = pc)
      BY <1>15 DEF Close, Done
    <3> QED BY <1>0, <3>1, <3>2 DEF Go
  <2>2. KnownKept'
    BY <2>1 DEF TellInv, KnownKept
  <2>3. LeftToTell'
    BY <2>1 DEF TellInv, LeftToTell, Tried
  <2> QED BY <2>2, <2>3 DEF TellInv
<1> QED
  BY <1>a, <1>1, <1>2, <1>3, <1>4, <1>5, <1>6, <1>7, <1>8, <1>9, <1>10, <1>11, <1>12, <1>13, <1>14, <1>15
     DEF Next, Reload, Call, Center, Exit, Tell

\* Whoever ends the process, every chat registered when the shutdown was flagged
\* has been told by then, or the send to it has failed: none is left out, unless a
\* panic broke the message off (start.go:202-240).
THEOREM NoChatIsLeftOut == Spec => []NoChatLeftOut
<1>1. IInv /\ TellInv /\ [Next]_vars => TellInv'
  BY TellNext
<1>2. TellInv => NoChatLeftOut
  BY DEF TellInv, LeftToTell, NoChatLeftOut, Tried
<1> QED BY <1>1, <1>2, InitTellInv, Invariance, PTL DEF Spec
=============================================================================
