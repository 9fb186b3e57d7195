---------------------------- MODULE BotLifecycle ----------------------------
(***************************************************************************)
(* The Telegram bots from the first user of a token to the end of the      *)
(* process: the registry that creates a bot on demand under its lock, the  *)
(* unbuffered channel that hands it to the call center while the lock is   *)
(* held, the message to everyone at startup, and the exit function, which  *)
(* a signal or a panic of the hot reload runs.                             *)
(*                                                                         *)
(* A step ends where the code waits: for the lock of the registry, for the *)
(* other end of the channel, for Telegram, or for a timer.                 *)
(***************************************************************************)
EXTENDS Naturals, FiniteSets

CONSTANTS
    Users,         \* users of the users file; the chat of a user is the user
    Tokens,        \* tokens of bots
    TokenOf,       \* the token of a user's telegram config
    Files,         \* users files that pass validation: [users, roots]
    Nobody         \* no goroutine, no bot

File == [users : SUBSET Users, roots : SUBSET Users]
NoFile == [users |-> {}, roots |-> {}]

ASSUME LifecycleAssumption ==
    /\ TokenOf \in [Users -> Tokens]
    /\ Files \subseteq File
    /\ Nobody \notin Tokens \cup Users

Callers == {"reload", "pusher"}       \* of GetTelegramBotByTokenWL
Exits   == {"reload", "trap"}         \* goroutines that may run the exit function
Goroutines == Callers \cup Exits \cup {"startup"}

ASSUME NobodyAssumption == Nobody \notin Goroutines

VARIABLES
    pc,
    file,          \* the users file the reload has read
    todo,          \* users the reload has still to register
    asked,         \* the user for whom a caller asks for a bot
    lock,          \* holder of the write lock of the registry
    shuttingDown,
    bots,          \* bots created for a token; the last one is registered
    chats, prio,   \* of the registered bots: chat IDs, those with priority
    center,        \* the call center
    inHand,        \* the bot it has just received
    launched,      \* employees launched for the bots of a token
    stopped,       \* bots told to stop receiving updates
    left, first,   \* bots an exit has still to tell, those it tells first
    telling,       \* the bot it is at
    closed,        \* ChannelNewBot
    ended,         \* main has returned
    \* observations
    told,          \* <<bot, chat>> told of the shutdown
    refused,       \* <<bot, chat>> the message failed for, which is logged
    known,         \* <<bot, chat>> registered when the flag was raised
    broken         \* a panic broke off the message to everyone

registry == <<lock, shuttingDown, bots, chats, prio>>
calls    == <<file, todo, asked>>
callCenter == <<center, inHand, launched>>
tell     == <<stopped, left, first, telling, told, refused, known, broken>>
vars == <<pc, registry, calls, callCenter, tell, closed, ended>>

Registered == {t \in Tokens : bots[t] > 0}

Init ==
    /\ pc = [reload |-> "sleeping", pusher |-> "idle", trap |-> "starting", startup |-> "waiting"]
    /\ file = NoFile /\ todo = {}
    /\ asked = [g \in Callers |-> Nobody]
    /\ lock = Nobody /\ shuttingDown = FALSE
    /\ bots = [t \in Tokens |-> 0] /\ chats = [t \in Tokens |-> {}] /\ prio = {}
    /\ center = "receiving" /\ inHand = Nobody /\ launched = bots
    /\ stopped = {} /\ left = [g \in Exits |-> {}] /\ first = left
    /\ telling = [g \in Exits |-> Nobody]
    /\ closed = FALSE /\ ended = FALSE
    /\ told = {} /\ refused = {} /\ known = {} /\ broken = FALSE

Go(g, label) == pc' = [pc EXCEPT ![g] = label]

-----------------------------------------------------------------------------
(* GetTelegramBotByTokenWL, called by the reload for every user and by the *)
(* pusher for the receiver of a batch.                                     *)

TokenAsked(g) == TokenOf[asked[g]]

\* The caller goes on: with a bot the reload registers the chat and the pusher
\* sends; without one the reload turns to the next user.
Answer(g, u, bot) ==
    IF g = "pusher"
    THEN Go(g, "idle") /\ asked' = [asked EXCEPT ![g] = Nobody] /\ UNCHANGED todo
    ELSE IF bot
    THEN Go(g, "register") /\ asked' = [asked EXCEPT ![g] = u] /\ UNCHANGED todo
    ELSE Go(g, "users") /\ asked' = [asked EXCEPT ![g] = Nobody] /\ todo' = todo \ {u}

WithBot(g)    == Answer(g, asked[g], TRUE)
WithoutBot(g) == Answer(g, asked[g], FALSE)
Continue(g, label) == Go(g, label) /\ UNCHANGED <<asked, todo>>

ReadUsersFile ==
    /\ pc.reload = "sleeping"
    /\ \E f \in Files : file' = f /\ todo' = f.users
    /\ Go("reload", "users")
    /\ UNCHANGED <<asked, registry, callCenter, tell, closed, ended>>

LookUp(g, u) ==
    /\ lock = Nobody
    /\ IF g = "reload" THEN pc[g] = "users" /\ u \in todo ELSE pc[g] = "idle"
    /\ \/ shuttingDown /\ Answer(g, u, FALSE)
       \/ ~shuttingDown /\ TokenOf[u] \in Registered /\ Answer(g, u, TRUE)
       \/ ~shuttingDown /\ TokenOf[u] \notin Registered
            /\ asked' = [asked EXCEPT ![g] = u]
            /\ Go(g, "missed")
            /\ UNCHANGED todo
    /\ UNCHANGED <<registry, file, callCenter, tell, closed, ended>>

\* Mutant: nothing is looked up again under the lock.
LockNoDoubleCheck(g) ==
    /\ pc[g] = "missed" /\ lock = Nobody
    /\ lock' = g /\ Continue(g, "creating")
    /\ UNCHANGED <<shuttingDown, bots, chats, prio, file, callCenter, tell, closed, ended>>

\* Mutant: only the bot is looked up again, not the flag.
LockFlagUnread(g) ==
    /\ pc[g] = "missed" /\ lock = Nobody
    /\ \/ TokenAsked(g) \in Registered /\ WithBot(g) /\ UNCHANGED lock
       \/ TokenAsked(g) \notin Registered /\ Continue(g, "creating") /\ lock' = g
    /\ UNCHANGED <<shuttingDown, bots, chats, prio, file, callCenter, tell, closed, ended>>

Lock(g) ==
    /\ pc[g] = "missed" /\ lock = Nobody
    /\ \/ shuttingDown /\ WithoutBot(g) /\ UNCHANGED lock
       \/ ~shuttingDown /\ TokenAsked(g) \in Registered /\ WithBot(g) /\ UNCHANGED lock
       \/ ~shuttingDown /\ TokenAsked(g) \notin Registered
            /\ lock' = g /\ Continue(g, "creating")
    /\ UNCHANGED <<shuttingDown, bots, chats, prio, file, callCenter, tell, closed, ended>>

\* NewBot asks Telegram who the bot is, which may fail.
Create(g) ==
    /\ pc[g] = "creating"
    /\ \/ /\ lock' = Nobody /\ WithoutBot(g)
          /\ UNCHANGED <<bots, chats, prio>>
       \/ LET t == TokenAsked(g) IN
          /\ bots' = [bots EXCEPT ![t] = @ + 1]
          /\ chats' = [chats EXCEPT ![t] = {}] /\ prio' = prio \ {t}
          /\ Continue(g, "sending")
          /\ UNCHANGED lock
    /\ UNCHANGED <<shuttingDown, file, callCenter, tell, closed, ended>>

\* The channel is unbuffered: both ends meet, then the lock is given back.
HandOver(g) ==
    /\ pc[g] = "sending" /\ center = "receiving" /\ ~closed
    /\ center' = "launching" /\ inHand' = TokenAsked(g)
    /\ lock' = Nobody
    /\ WithBot(g)
    /\ UNCHANGED <<shuttingDown, bots, chats, prio, file, launched, tell, closed, ended>>

\* PriorityWL and AddChatIdWL.
RegisterChat ==
    /\ pc.reload = "register"
    /\ LET u == asked["reload"] t == TokenOf[u] IN
       /\ prio' = IF u \in file.roots THEN prio \cup {t} ELSE prio
       /\ chats' = [chats EXCEPT ![t] = @ \cup {u}]
       /\ todo' = todo \ {u}
    /\ asked' = [asked EXCEPT !["reload"] = Nobody]
    /\ Go("reload", "users")
    /\ UNCHANGED <<lock, shuttingDown, bots, file, callCenter, tell, closed, ended>>

EndReload ==
    /\ pc.reload = "users" /\ todo = {}
    /\ file' = NoFile
    /\ Go("reload", "sleeping")
    /\ UNCHANGED <<registry, todo, asked, callCenter, tell, closed, ended>>

-----------------------------------------------------------------------------
(* The call center. *)

\* Mutant: the call center ends with the first bot it launches.
LaunchOnce ==
    /\ center = "launching"
    /\ launched' = [launched EXCEPT ![inHand] = @ + 1]
    /\ center' = "ended" /\ inHand' = Nobody
    /\ UNCHANGED <<pc, registry, calls, tell, closed, ended>>

Launch ==
    /\ center = "launching"
    /\ launched' = [launched EXCEPT ![inHand] = @ + 1]
    /\ center' = "receiving" /\ inHand' = Nobody
    /\ UNCHANGED <<pc, registry, calls, tell, closed, ended>>

EndCenter ==
    /\ center = "receiving" /\ closed
    /\ center' = "ended"
    /\ UNCHANGED <<pc, registry, calls, inHand, launched, tell, closed, ended>>

-----------------------------------------------------------------------------
(* The message to everyone, at startup and at the end. *)

\* At startup, once there is a bot: the loop then only reads what it lists.
InformStartup ==
    /\ pc.startup = "waiting" /\ lock = Nobody /\ Registered # {}
    /\ Go("startup", "finished")
    /\ UNCHANGED <<registry, calls, callCenter, tell, closed, ended>>

\* GetAllTelegramBotsRL, sorted by priority.
ListBots(g) ==
    /\ pc[g] = "list" /\ lock = Nobody
    /\ left' = [left EXCEPT ![g] = Registered]
    /\ first' = [first EXCEPT ![g] = Registered \cap prio]
    /\ Go(g, "tell")
    /\ UNCHANGED <<registry, calls, callCenter, stopped, telling, told, refused, known,
                   broken, closed, ended>>

\* The panic is recovered at the end of the function.
TellingPanics(g) ==
    /\ left' = [left EXCEPT ![g] = {}]
    /\ broken' = TRUE
    /\ UNCHANGED <<pc, stopped, telling>>

\* A bot is stopped before its chats are read.  The library may panic when a bot
\* is stopped twice.
StopBot(g, t) ==
    /\ pc[g] = "tell" /\ t \in left[g]
    /\ t \in first[g] \/ left[g] \cap first[g] = {}
    /\ \/ t \in stopped /\ TellingPanics(g)
       \/ /\ stopped' = stopped \cup {t}
          /\ telling' = [telling EXCEPT ![g] = t]
          /\ Go(g, "send")
          /\ UNCHANGED <<left, broken>>
    /\ UNCHANGED <<registry, calls, callCenter, first, told, refused, known, closed, ended>>

\* The chats that Telegram does not take the message for; an error is logged.
TryChats(t, reached) ==
    /\ told' = told \cup ({t} \X reached)
    /\ refused' = refused \cup ({t} \X (chats[t] \ reached))

\* Mutant: an error ends the loop.
TellChatsOrReturn(g) ==
    /\ pc[g] = "send"
    /\ \E reached \in SUBSET chats[telling[g]] :
          /\ TryChats(telling[g], reached)
          /\ left' = [left EXCEPT ![g] = IF reached = chats[telling[g]] THEN @ \ {telling[g]} ELSE {}]
    /\ telling' = [telling EXCEPT ![g] = Nobody]
    /\ Go(g, "tell")
    /\ UNCHANGED <<registry, calls, callCenter, stopped, first, known, broken, closed, ended>>

\* A bot with priority sends to one chat after the other, with retries, and goes
\* on after an error; another bot sends to all in one call, which may fail for
\* some or all.  In either case the loop goes on to the next bot.
TellChats(g) ==
    /\ pc[g] = "send"
    /\ \E reached \in SUBSET chats[telling[g]] : TryChats(telling[g], reached)
    /\ left' = [left EXCEPT ![g] = @ \ {telling[g]}]
    /\ telling' = [telling EXCEPT ![g] = Nobody]
    /\ Go(g, "tell")
    /\ UNCHANGED <<registry, calls, callCenter, stopped, first, known, broken, closed, ended>>

EndTelling(g) ==
    /\ pc[g] = "tell" /\ left[g] = {}
    /\ first' = [first EXCEPT ![g] = {}]
    /\ Go(g, "close")
    /\ UNCHANGED <<registry, calls, callCenter, stopped, left, telling, told, refused, known,
                   broken, closed, ended>>

-----------------------------------------------------------------------------
(* The exit function. *)

AwaitSignal ==
    /\ pc.trap = "starting"
    /\ Go("trap", "waiting")
    /\ UNCHANGED <<registry, calls, callCenter, tell, closed, ended>>

\* The channel of signals is unbuffered, too: a signal that finds nobody waiting
\* is dropped.
Signal ==
    /\ pc.trap = "waiting"
    /\ Go("trap", "exit")
    /\ UNCHANGED <<registry, calls, callCenter, tell, closed, ended>>

\* A file with other permissions than expected makes the reload panic.
PanicOnFile ==
    /\ pc.reload \in {"sleeping", "users"} /\ (pc.reload = "users" => todo = {})
    /\ Go("reload", "exit")
    /\ UNCHANGED <<registry, calls, callCenter, tell, closed, ended>>

RaiseFlag(g) ==
    /\ pc[g] = "exit" /\ lock = Nobody
    /\ shuttingDown' = TRUE
    /\ known' = IF shuttingDown THEN known ELSE UNION {{t} \X chats[t] : t \in Registered}
    /\ Go(g, "list")
    /\ UNCHANGED <<lock, bots, chats, prio, calls, callCenter,
                   stopped, left, first, telling, told, refused, broken, closed, ended>>

\* A second close panics, and nothing recovers: the process ends at once.
Close(g) ==
    /\ pc[g] = "close"
    /\ IF closed THEN ended' = TRUE ELSE UNCHANGED ended
    /\ closed' = TRUE
    /\ Go(g, "done")
    /\ UNCHANGED <<registry, calls, callCenter, tell>>

\* waitGroup.Done lets main return.
Done(g) ==
    /\ pc[g] = "done"
    /\ ended' = TRUE
    /\ UNCHANGED <<pc, registry, calls, callCenter, tell, closed>>

-----------------------------------------------------------------------------
Call(g) == (\E u \in Users : LookUp(g, u)) \/ Lock(g) \/ Create(g) \/ HandOver(g)

Reload == Call("reload") \/ ReadUsersFile \/ RegisterChat \/ EndReload

Tell(g) == ListBots(g) \/ (\E t \in Tokens : StopBot(g, t)) \/ TellChats(g) \/ EndTelling(g)

Exit(g) == RaiseFlag(g) \/ Tell(g) \/ Close(g) \/ Done(g)

Center == Launch \/ EndCenter

Next ==
    /\ ~ended
    /\ \/ Reload \/ Call("pusher") \/ Center \/ InformStartup
       \/ AwaitSignal \/ Signal \/ PanicOnFile
       \/ \E g \in Exits : Exit(g)

Spec == Init /\ [][Next]_vars

Running(A) == ~ended /\ A

\* Goroutines go on when they can, and who waits for a lock is not passed over
\* for ever (sync.RWMutex).  Signals, panics and reloads need not come.
Fairness ==
    /\ WF_vars(Running(Center))
    /\ \A g \in Callers : SF_vars(Running(Call(g)))
    /\ \A g \in Exits : SF_vars(Running(Exit(g)))

FairSpec == Spec /\ Fairness

-----------------------------------------------------------------------------
Labels == {"sleeping", "users", "register", "idle", "missed", "creating", "sending",
           "starting", "waiting", "list", "tell", "send", "finished", "exit", "close", "done"}

TypeOK ==
    /\ pc \in [Goroutines -> Labels]
    /\ file \in File /\ todo \in SUBSET Users /\ asked \in [Callers -> Users \cup {Nobody}]
    /\ lock \in Callers \cup {Nobody} /\ shuttingDown \in BOOLEAN
    /\ bots \in [Tokens -> Nat] /\ chats \in [Tokens -> SUBSET Users] /\ prio \in SUBSET Tokens
    /\ center \in {"receiving", "launching", "ended"} /\ inHand \in Tokens \cup {Nobody}
    /\ launched \in [Tokens -> Nat] /\ stopped \in SUBSET Tokens
    /\ left \in [Exits -> SUBSET Tokens] /\ first \in [Exits -> SUBSET Tokens]
    /\ telling \in [Exits -> Tokens \cup {Nobody}]
    /\ closed \in BOOLEAN /\ ended \in BOOLEAN /\ broken \in BOOLEAN
    /\ told \in SUBSET (Tokens \X Users) /\ refused \in SUBSET (Tokens \X Users)
    /\ known \in SUBSET (Tokens \X Users)

\* Telegram lets one reader at a time receive the updates of a token: whoever
\* asks for a bot and whenever, at most one is created for a token, and it is on
\* its way to one employee or has one (telegram_bot_registry.go:29-53).
OneReaderPerToken ==
    \A t \in Tokens :
        LET sending == {g \in Callers : pc[g] = "sending" /\ TokenAsked(g) = t}
            hand == IF inHand = t THEN 1 ELSE 0 IN
        bots[t] <= 1 /\ launched[t] + hand + Cardinality(sending) = bots[t]

\* The exit function closes the channel of new bots (start.go:60) while the
\* reload and the pusher go on: none of them can be about to send on it.
ClosedUnused == closed => \A g \in Callers : pc[g] \notin {"creating", "sending"}

\* Whoever ends the process, no chat that was registered when the shutdown was
\* flagged is left out: by then it has been told, or the send to it has failed and
\* the error was logged.  A failure at one chat or bot takes the message from no
\* other, and the process does not end under an exit that still has chats to try,
\* unless a panic broke off the message to everyone (start.go:202-240).
NoChatLeftOut == ended /\ ~broken => known \subseteq told \cup refused

\* An exit function that was begun ends the process: the lock it needs is held
\* across a send, and who must receive never waits for that lock.
ShutdownCompletes == (\E g \in Exits : pc[g] = "exit") ~> ended
=============================================================================
