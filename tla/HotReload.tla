----------------------------- MODULE HotReload -----------------------------
(***************************************************************************)
(* The hot reload of the configuration: the users file replaces the user   *)
(* registry, then the chain files are validated against the users just     *)
(* read and replace the chain registry.  Either file may be refused, and   *)
(* refused chains leave the users replaced.                                *)
(*                                                                         *)
(* An account stands for a username and a user ID, which no two users may  *)
(* share.                                                                  *)
(***************************************************************************)
EXTENDS Naturals, FiniteSets

CONSTANTS
    Identities, Accounts,
    Incomplete,     \* a telegram config that lacks something
    Valopers, ChainNames, Endpoints,
    UsersFiles,     \* users files there may be: identity -> user
    ChainsFiles     \* chain files there may be: a set of chains

User  == [root : BOOLEAN, telegram : Accounts \cup {Incomplete}]
Chain == [name : ChainNames, disable : BOOLEAN, rpc : SUBSET Endpoints,
          watchers : UNION {[V -> SUBSET Identities] : V \in SUBSET Valopers}]

ASSUME HotReloadAssumption ==
    /\ Incomplete \notin Accounts
    /\ \A f \in UsersFiles : DOMAIN f \subseteq Identities /\ \A i \in DOMAIN f : f[i] \in User
    /\ \A f \in ChainsFiles : f \subseteq Chain

VARIABLES
    users,       \* globalIdentityToUsersConfig
    chains,      \* the enabled chains: globalChainNameToChainConfig
    usersConf    \* the users whose chains the reload has still to read, or {}

config == <<users, chains, usersConf>>

NoUsers == [i \in {} |-> TRUE]

InitConfig == users = NoUsers /\ chains = {} /\ usersConf = {}

\* UserRecord.Validate and UserRecords.Validate.
ValidUsers(f) ==
    /\ DOMAIN f # {}
    /\ \A i \in DOMAIN f : f[i].telegram # Incomplete
    /\ \A i, j \in DOMAIN f : f[i].telegram = f[j].telegram => i = j
    /\ \E i \in DOMAIN f : f[i].root

\* ChainConfig.Validate: little is asked of a disabled chain.
ValidChain(c) ==
    \/ c.disable
    \/ /\ c.rpc # {}
       /\ DOMAIN c.watchers # {}
       /\ \A v \in DOMAIN c.watchers : c.watchers[v] # {}

WatchersOf(c) == UNION {c.watchers[v] : v \in DOMAIN c.watchers}

\* ChainsConfig.Validate.
ValidChains(f, known) ==
    /\ f # {}
    /\ \A c \in f : ValidChain(c) /\ WatchersOf(c) \subseteq known
    /\ \A c, d \in f : c.name = d.name => c = d
    /\ \E c \in f : ~c.disable

\* UpdateUsersConfigWL.  A file that does not pass leaves all as it was.
ReloadUsers ==
    /\ usersConf = {}
    /\ \E f \in UsersFiles : ValidUsers(f) /\ users' = f /\ usersConf' = DOMAIN f
    /\ UNCHANGED chains

\* UpdateChainsConfigWL.
ReloadChains ==
    /\ usersConf # {}
    /\ \E f \in ChainsFiles :
          chains' = IF ValidChains(f, usersConf) THEN {c \in f : ~c.disable} ELSE chains
    /\ usersConf' = {}
    /\ UNCHANGED users

-----------------------------------------------------------------------------
(* What the registries tell others. *)

\* GetRootUsersIdentityRL
Roots == {i \in DOMAIN users : users[i].root}

HasChain(name) == \E c \in chains : c.name = name

ChainsWith(v) == {c \in chains : v \in DOMAIN c.watchers}
=============================================================================
