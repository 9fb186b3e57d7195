------------------------------ MODULE RpcPool ------------------------------
(***************************************************************************)
(* How the rounds of health check on one chain find its most healthy RPC:  *)
(* a worker reads the list of RPCs, asks all of them at once from one      *)
(* goroutine each, waits for every answer, takes the best, and moves it to *)
(* the front of the list.  Rounds of several workers overlap.  The clients *)
(* of all RPCs are in a registry that creates them on demand.              *)
(*                                                                         *)
(* A step ends where a goroutine waits: for the lock of the registry, for  *)
(* the network, or for the answers of the others.                          *)
(***************************************************************************)
EXTENDS Integers, Sequences, SequencesExt, FiniteSets

CONSTANTS
    Workers,
    Spellings,     \* endpoints as the chain file spells them
    EndpointOf,    \* what a spelling is normalised to
    ChainFiles,    \* rpc: and health-check-rpc: of a chain file
    MaxBlock,      \* bound on the heights that tell RPCs apart
    Garbage        \* what lies past the end of a slice

Endpoints == {EndpointOf[s] : s \in Spellings}

ASSUME RpcAssumption ==
    /\ IsFiniteSet(Spellings) /\ DOMAIN EndpointOf = Spellings
    /\ ChainFiles \subseteq (SUBSET Spellings) \ {{}}
    /\ MaxBlock \in Nat \ {0}
    /\ Garbage \notin Endpoints

\* What an RPC answers: the height of its latest block, or an error: no client,
\* no status, another network, a panic.
Blocks  == 1..MaxBlock
Failure == 0
Answers == Blocks \cup {Failure}

Stages == {"lookUp", "missed", "creating", "asking", "answered"}

VARIABLES
    rpc,        \* the list of the registered chain
    clients,    \* clients created for an endpoint
    lock,       \* who holds the lock of the registry of clients: <<worker, n>>
    pc,         \* of a worker: "idle", "reading", "waiting" or "informing"
    before,     \* the list when a worker began to read it
    seen,       \* the list a worker works with
    stage,      \* per RPC of that list: where its goroutine is
    answer,     \* and what it answered
    best,       \* the endpoint a worker has chosen
    \* observation
    spelledOnce \* the chain file has one spelling of every RPC

registry == <<clients, lock>>
vars == <<rpc, registry, pc, before, seen, stage, answer, best, spelledOnce>>

Nobody == <<>>

\* newRegisteredChainConfig: distinct spellings in any order, then normalised.
Lists(file) == {[n \in DOMAIN q |-> EndpointOf[q[n]]] : q \in SetToSeqs(file)}

Init ==
    /\ \E file \in ChainFiles : rpc \in Lists(file)
    /\ spelledOnce = IsInjective(rpc)
    /\ clients = [e \in Endpoints |-> 0] /\ lock = Nobody
    /\ pc = [w \in Workers |-> "idle"]
    /\ before = [w \in Workers |-> <<>>] /\ seen = before
    /\ stage = before /\ answer = before
    /\ best = [w \in Workers |-> Garbage]

-----------------------------------------------------------------------------
(* GetRPCs reads the slice without the lock of the chain. *)

\* Pointer and length are read apart: while a shorter list replaces the slice,
\* elements may be missing or lie past the end.
Torn(elements, length) == [n \in 1..length |-> IF n <= Len(elements) THEN elements[n] ELSE Garbage]

BeginRead(w) ==
    /\ pc[w] = "idle"
    /\ pc' = [pc EXCEPT ![w] = "reading"]
    /\ before' = [before EXCEPT ![w] = rpc]
    /\ UNCHANGED <<rpc, registry, seen, stage, answer, best, spelledOnce>>

EndRead(w) ==
    /\ pc[w] = "reading"
    /\ \E elements, lengths \in {before[w], rpc} :
          seen' = [seen EXCEPT ![w] = Torn(elements, Len(lengths))]
    /\ stage' = [stage EXCEPT ![w] = [n \in DOMAIN seen'[w] |-> "lookUp"]]
    /\ answer' = [answer EXCEPT ![w] = [n \in DOMAIN seen'[w] |-> Failure]]
    /\ pc' = [pc EXCEPT ![w] = "waiting"]
    /\ before' = [before EXCEPT ![w] = <<>>]
    /\ UNCHANGED <<rpc, registry, best, spelledOnce>>

-----------------------------------------------------------------------------
(* The goroutine that asks the n-th RPC, and GetRpcClientByEndpointWL. *)

At(w, n, label) == pc[w] = "waiting" /\ n \in DOMAIN seen[w] /\ stage[w][n] = label

Go(w, n, label) == stage' = [stage EXCEPT ![w][n] = label] /\ UNCHANGED answer

Send(w, n, a) ==
    /\ stage' = [stage EXCEPT ![w][n] = "answered"]
    /\ answer' = [answer EXCEPT ![w][n] = a]

LookUp(w, n) ==
    /\ At(w, n, "lookUp")
    /\ \/ seen[w][n] = Garbage /\ Send(w, n, Failure)
       \/ /\ seen[w][n] # Garbage /\ lock = Nobody
          /\ Go(w, n, IF clients[seen[w][n]] > 0 THEN "asking" ELSE "missed")
    /\ UNCHANGED <<rpc, registry, pc, before, seen, best, spelledOnce>>

\* Mutant: no second look under the lock.
LockNoDoubleCheck(w, n) ==
    /\ At(w, n, "missed") /\ lock = Nobody
    /\ lock' = <<w, n>> /\ Go(w, n, "creating")
    /\ UNCHANGED <<rpc, clients, pc, before, seen, best, spelledOnce>>

Lock(w, n) ==
    /\ At(w, n, "missed") /\ lock = Nobody
    /\ IF clients[seen[w][n]] > 0
       THEN Go(w, n, "asking") /\ UNCHANGED lock
       ELSE Go(w, n, "creating") /\ lock' = <<w, n>>
    /\ UNCHANGED <<rpc, clients, pc, before, seen, best, spelledOnce>>

Create(w, n) ==
    /\ At(w, n, "creating")
    /\ \/ Send(w, n, Failure) /\ UNCHANGED clients
       \/ Go(w, n, "asking") /\ clients' = [clients EXCEPT ![seen[w][n]] = @ + 1]
    /\ lock' = Nobody
    /\ UNCHANGED <<rpc, pc, before, seen, best, spelledOnce>>

\* Mutant: an RPC that fails is asked again until it answers.
AskUntilAnswered(w, n) ==
    /\ At(w, n, "asking")
    /\ \/ \E a \in Blocks : Send(w, n, a)
       \/ Go(w, n, "lookUp")
    /\ UNCHANGED <<rpc, registry, pc, before, seen, best, spelledOnce>>

\* After a bounded number of attempts, and a panic included, something is sent.
Ask(w, n) ==
    /\ At(w, n, "asking")
    /\ \E a \in Answers : Send(w, n, a)
    /\ UNCHANGED <<rpc, registry, pc, before, seen, best, spelledOnce>>

-----------------------------------------------------------------------------
(* The worker, once all have answered. *)

\* Mutant: errors are not told apart by the comparison.
PrefersErrors(a, b) == a < b

\* The order of sort.Slice: a before b.
Healthier(a, b) ==
    /\ a # Failure
    /\ b # Failure => a > b

\* What may come first in the sorted answers.
Foremost(answers) == {n \in DOMAIN answers : \A o \in DOMAIN answers : ~Healthier(answers[o], answers[n])}

\* The error of the first is that of the round.  The client of the healthiest is
\* looked up again (worker.go:972), which finds it: it has just answered, and no
\* client is ever removed.
Choose(w) ==
    /\ pc[w] = "waiting"
    /\ \A n \in DOMAIN seen[w] : stage[w][n] = "answered"
    /\ \E n \in Foremost(answer[w]) :
          IF answer[w][n] = Failure
          THEN /\ pc' = [pc EXCEPT ![w] = "idle"]
               /\ UNCHANGED best
          ELSE /\ pc' = [pc EXCEPT ![w] = "informing"]
               /\ best' = [best EXCEPT ![w] = seen[w][n]]
    /\ seen' = [seen EXCEPT ![w] = <<>>]
    /\ stage' = [stage EXCEPT ![w] = <<>>] /\ answer' = [answer EXCEPT ![w] = <<>>]
    /\ UNCHANGED <<rpc, registry, before, spelledOnce>>

Rest(w) ==
    /\ pc' = [pc EXCEPT ![w] = "idle"]
    /\ best' = [best EXCEPT ![w] = Garbage]

\* Mutant: the best RPC overwrites the first of the list.
OverwriteFirst(w) ==
    /\ pc[w] = "informing"
    /\ rpc' = [rpc EXCEPT ![1] = best[w]]
    /\ Rest(w)
    /\ UNCHANGED <<registry, before, seen, stage, answer, spelledOnce>>

\* Mutant: the best RPC is put in front, and not taken from its place.
PutInFront(w) ==
    /\ pc[w] = "informing"
    /\ rpc' = <<best[w]>> \o Tail(rpc)  \o <<Head(rpc)>>
    /\ Rest(w)
    /\ UNCHANGED <<registry, before, seen, stage, answer, spelledOnce>>

\* The list q with e put in front, and taken from its place.
Reordered(q, e) ==
    LET reordered[n \in 0..Len(q)] ==
            IF n = 0 THEN <<e>>
            ELSE IF q[n] = e THEN reordered[n - 1]
            ELSE Append(reordered[n - 1], q[n])
    IN  reordered[Len(q)]

\* InformPriorityLatestHealthyRpcWL.
Inform(w) ==
    /\ pc[w] = "informing"
    /\ rpc' = Reordered(rpc, best[w])
    /\ Rest(w)
    /\ UNCHANGED <<registry, before, seen, stage, answer, spelledOnce>>

-----------------------------------------------------------------------------
Goroutine(w, n) == LookUp(w, n) \/ Lock(w, n) \/ Create(w, n) \/ Ask(w, n)

Work(w) == EndRead(w) \/ (\E n \in DOMAIN seen[w] : Goroutine(w, n)) \/ Choose(w) \/ Inform(w)

Next == \E w \in Workers : BeginRead(w) \/ Work(w)

Spec == Init /\ [][Next]_vars

\* A worker and its goroutines go on when they can; who waits for the lock is
\* not passed over for ever.  Every call returns.
FairSpec == Spec /\ \A w \in Workers : SF_vars(Work(w))

-----------------------------------------------------------------------------
TypeOK ==
    /\ rpc \in Seq(Endpoints)
    /\ clients \in [Endpoints -> Nat]
    /\ lock \in {Nobody} \cup (Workers \X Nat)
    /\ pc \in [Workers -> {"idle", "reading", "waiting", "informing"}]
    /\ before \in [Workers -> Seq(Endpoints)]
    /\ seen \in [Workers -> Seq(Endpoints \cup {Garbage})]
    /\ stage \in [Workers -> Seq(Stages)] /\ answer \in [Workers -> Seq(Answers)]
    /\ best \in [Workers -> Endpoints \cup {Garbage}] /\ spelledOnce \in BOOLEAN

\* However many goroutines ask for an endpoint at once, one client is created
\* (rpc_client_registry.go:28-48), and under the lock.
OneClientPerEndpoint ==
    \A e \in Endpoints : clients[e] <= 1

\* Reordering, by rounds that overlap and work with lists of different age,
\* forgets none of the RPCs of the chain file and adds none
\* (registered_chain_config.go:96-113).
NoRpcForgotten == [][ToSet(rpc') = ToSet(rpc)]_vars

\* A chain file without two spellings of one RPC: although the list is read
\* without its lock, every round asks every RPC, each once.
AllAsked ==
    \A w \in Workers :
        spelledOnce /\ pc[w] = "waiting" => IsInjective(seen[w]) /\ ToSet(seen[w]) = ToSet(rpc)

\* A round that goes on does so with an RPC that answered, and no RPC it asked
\* has a later block; a round fails only when no RPC answers (worker.go:948-977).
BestIsHealthiest ==
    [][\A w \in Workers : pc[w] = "waiting" /\ pc'[w] # "waiting" =>
          IF pc'[w] = "idle" THEN ToSet(answer[w]) = {Failure}
          ELSE \E n \in DOMAIN seen[w] :
                  /\ best'[w] = seen[w][n] /\ answer[w][n] # Failure
                  /\ \A o \in DOMAIN seen[w] : answer[w][o] <= answer[w][n]]_vars

\* Every round hears from all its goroutines, those included that failed or
\* panicked, and ends.
RoundsJoin == \A w \in Workers : pc[w] = "waiting" ~> pc[w] = "idle"
=============================================================================
