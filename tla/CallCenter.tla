----------------------------- MODULE CallCenter -----------------------------
(***************************************************************************)
(* The employees of the call center, one per bot, each with one command at *)
(* a time: /pause and /silent, the commands that change something.  Who    *)
(* may do what is read from the registries of users and chains, which the  *)
(* hot reload replaces meanwhile; root users are told of every pause.      *)
(*                                                                         *)
(* Every lock an employee takes is a step, but for the rate limiter, whose *)
(* answer no other lock bears upon.                                        *)
(***************************************************************************)
EXTENDS HotReload, Silencer

CONSTANTS
    Employees,
    Commands,        \* the commands there may be
    RateInterval     \* least time between two commands of a user

Targets  == ChainNames \cup Valopers
Pauses   == [op : {"pause", "unpause"}, target : Targets]
Silences == [op : {"silent", "unsilent"}, chat : Chats, pattern : Patterns]

ASSUME CallCenterAssumption == Commands \subseteq Pauses \cup Silences /\ RateInterval \in Nat

VARIABLES
    paused,        \* keys of pausedChains and pausedValidators
    lastRequest,   \* of the rate limiter
    emp,           \* what each employee is at
    \* observations
    word           \* the word a user was given on the last treatment of a target

vars == <<config, silencer, paused, lastRequest, emp, word>>

\* Nobody owes a word to those who were not root ever since the treatment, nor
\* to anybody when it met another one under way.
Excused == "excused"

NoOne == "nobody"
NoCmd == [op |-> "none"]
Free  == [pc |-> "free", who |-> NoOne, root |-> FALSE, cmd |-> NoCmd, roots |-> {}]

Init ==
    /\ InitConfig /\ InitSilencer
    /\ paused = {}
    /\ lastRequest = [a \in Accounts |-> 0]
    /\ emp = [e \in Employees |-> Free]
    /\ word = [t \in Targets |-> [i \in Identities |-> Excused]]

-----------------------------------------------------------------------------
(* processUpdate *)

\* Request of the rate limiter, which all employees share.
Allowed(a) == lastRequest[a] = 0 \/ now - lastRequest[a] >= RateInterval

\* A command of somebody who is no user, or too early, is answered only.
Receive(e, i, cmd) ==
    /\ emp[e].pc = "free"
    /\ i \in DOMAIN users
    /\ LET a == users[i].telegram IN
       /\ Allowed(a)
       /\ lastRequest' = [lastRequest EXCEPT ![a] = now]
    /\ emp' = [emp EXCEPT ![e] = [pc |-> "check", who |-> i, root |-> users[i].root, cmd |-> cmd, roots |-> {}]]
    /\ UNCHANGED <<config, silencer, paused, word>>

At(e, pc, ops) == emp[e].pc = pc /\ emp[e].cmd.op \in ops
Set(e, pc)     == emp' = [emp EXCEPT ![e].pc = pc]
Treats(e, t)   == emp[e].pc \in {"list", "tell"} /\ emp[e].cmd.target = t

\* A user may treat a validator that she watches on chain c, a root user any.
MayTreat(e, t, c) == emp[e].root \/ emp[e].who \in c.watchers[t]

\* processCommandPauseTryChainForRoot and ...TryValidator: the first chain found
\* with the validator decides, and chains come in any order.
Granted(e, t) ==
    \/ emp[e].root /\ HasChain(t)
    \/ \E c \in ChainsWith(t) : MayTreat(e, t, c)

Denied(e, t) ==
    /\ ~(emp[e].root /\ HasChain(t))
    /\ ChainsWith(t) = {} \/ \E c \in ChainsWith(t) : ~MayTreat(e, t, c)

CheckPause(e) ==
    /\ At(e, "check", {"pause", "unpause"})
    /\ \/ Granted(e, emp[e].cmd.target) /\ emp' = [emp EXCEPT ![e] = [Free EXCEPT !.pc = "treat", !.cmd = emp[e].cmd]]
       \/ Denied(e, emp[e].cmd.target) /\ emp' = [emp EXCEPT ![e] = Free]
    /\ UNCHANGED <<config, silencer, paused, lastRequest, word>>

TreatPause(e) ==
    /\ At(e, "treat", {"pause", "unpause"})
    /\ LET t == emp[e].cmd.target IN
       /\ paused' = IF emp[e].cmd.op = "pause" THEN paused \cup {t} ELSE paused \ {t}
       /\ word' = [word EXCEPT ![t] =
             [i \in Identities |-> IF i \in Roots /\ (\A o \in Employees : ~Treats(o, t)) THEN "untold" ELSE Excused]]
    /\ Set(e, "list")
    /\ UNCHANGED <<config, silencer, lastRequest>>

\* enqueueToAllRootUsers: identities first, then the record of each.
ListRoots(e) ==
    /\ emp[e].pc = "list"
    /\ emp' = [emp EXCEPT ![e].pc = "tell", ![e].roots = Roots]
    /\ UNCHANGED <<config, silencer, paused, lastRequest, word>>

Give(i, t, op) == word' = [word EXCEPT ![t][i] = IF @ = Excused THEN @ ELSE op]

\* Mutant: the first that is no user any more ends the loop.
TellRootOrReturn(e, i) ==
    /\ emp[e].pc = "tell" /\ i \in emp[e].roots
    /\ IF i \in DOMAIN users
       THEN Give(i, emp[e].cmd.target, emp[e].cmd.op) /\ emp' = [emp EXCEPT ![e].roots = @ \ {i}]
       ELSE emp' = [emp EXCEPT ![e].roots = {}] /\ UNCHANGED word
    /\ UNCHANGED <<config, silencer, paused, lastRequest>>

TellRoot(e, i) ==
    /\ emp[e].pc = "tell" /\ i \in emp[e].roots
    /\ emp' = [emp EXCEPT ![e].roots = @ \ {i}]
    /\ IF i \in DOMAIN users THEN Give(i, emp[e].cmd.target, emp[e].cmd.op) ELSE UNCHANGED word
    /\ UNCHANGED <<config, silencer, paused, lastRequest>>

EndPause(e) ==
    /\ emp[e].pc = "tell" /\ emp[e].roots = {}
    /\ emp' = [emp EXCEPT ![e] = Free]
    /\ UNCHANGED <<config, silencer, paused, lastRequest, word>>

\* processCommandSilent: any user, for the chat the command came from.
Silence(e) ==
    /\ At(e, "check", {"silent", "unsilent"})
    /\ LET cmd == emp[e].cmd IN
       \/ cmd.op = "silent" /\ \E d \in 0..Longest : SetSilencePattern(cmd.chat, cmd.pattern, d)
       \/ cmd.op = "unsilent" /\ RemoveSilencePattern(cmd.chat, cmd.pattern)
    /\ emp' = [emp EXCEPT ![e] = Free]
    /\ UNCHANGED <<config, now, match, paused, lastRequest, word>>

-----------------------------------------------------------------------------
Reload ==
    /\ ReloadUsers \/ ReloadChains
    /\ word' = [t \in Targets |-> [i \in Identities |-> IF i \in Roots' THEN word[t][i] ELSE Excused]]
    /\ UNCHANGED <<silencer, paused, lastRequest, emp>>

Work(e) ==
    \/ CheckPause(e) \/ TreatPause(e) \/ ListRoots(e) \/ (\E i \in Identities : TellRoot(e, i))
    \/ EndPause(e) \/ Silence(e)

Next ==
    \/ \E e \in Employees : Work(e) \/ \E i \in Identities, cmd \in Commands : Receive(e, i, cmd)
    \/ Reload
    \/ (Match \/ Pass) /\ UNCHANGED <<config, paused, lastRequest, emp, word>>

Spec == Init /\ [][Next]_vars

TypeOK ==
    /\ SilencerTypeOK
    /\ users \in UsersFiles \cup {NoUsers} /\ chains \subseteq Chain
    /\ usersConf \subseteq Identities
    /\ paused \subseteq Targets
    /\ lastRequest \in [Accounts -> 0..MaxTime]
    /\ \A e \in Employees :
          emp[e] = Free \/ emp[e] \in [pc : {"check", "treat", "list", "tell"}, who : Identities \cup {NoOne}, root : BOOLEAN,
                                      cmd : Commands, roots : SUBSET Identities]
    /\ word \in [Targets -> [Identities -> {"pause", "unpause", "untold", Excused}]]

-----------------------------------------------------------------------------
\* Root users know what is paused: when no command on a chain or validator is
\* under way, every root user was told of the last one, and the last word is how
\* it is, even when users were replaced in the middle of the command.  It must
\* not have met another one, and the user must have been root since it took
\* effect (command_pause.go:95-122, employee.go:100-114).
RootsKnowPauses ==
    \A t \in Targets :
        (\A e \in Employees : ~Treats(e, t)) =>
            \A i \in Identities : word[t][i] \in {Excused, IF t \in paused THEN "pause" ELSE "unpause"}

\* A pattern goes by command or when its time is over, although the clean-up
\* judges by a time read before it got the lock, and the command may have set
\* the pattern again meanwhile (silencer.go:98-110).
LivePatternKept ==
    [][\A c \in Chats, p \in Patterns :
          Effective(c, p) /\ expiry'[c][p] = Absent =>
             \E e \in Employees : /\ emp[e].pc = "check" /\ emp'[e].pc = "free"
                                 /\ emp[e].cmd = [op |-> "unsilent", chat |-> c, pattern |-> p]]_vars
=============================================================================
