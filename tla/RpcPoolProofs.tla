--------------------------- MODULE RpcPoolProofs ---------------------------
(***************************************************************************)
(* Proofs about RpcPool, for any workers, endpoints and chain files: one   *)
(* client is created for an endpoint, a round takes an RPC that answered   *)
(* and that no other one is ahead of, the list keeps its RPCs, and every   *)
(* round asks them all.                                                    *)
(***************************************************************************)
EXTENDS RpcPool, FiniteSetTheorems, WellFoundedInduction, TLAPS

\* What the proofs need of types: for every RPC of the list a worker works
\* with there is a stage and an answer.
Shape ==
    /\ clients \in [Endpoints -> Nat]
    /\ pc = [w \in Workers |-> pc[w]]
    /\ seen = [w \in Workers |-> seen[w]] /\ best = [w \in Workers |-> best[w]]
    /\ stage = [w \in Workers |-> stage[w]] /\ answer = [w \in Workers |-> answer[w]]
    /\ \A w \in Workers : /\ stage[w] = [n \in DOMAIN seen[w] |-> stage[w][n]]
                          /\ answer[w] \in [DOMAIN seen[w] -> Answers]

\* Who creates a client holds the lock, for an endpoint that has none.
CreatorHoldsLock ==
    \A w \in Workers : \A n \in DOMAIN seen[w] :
        stage[w][n] = "creating" =>
            /\ lock = <<w, n>>
            /\ seen[w][n] \in Endpoints => clients[seen[w][n]] = 0

\* Goroutines are those of a round that waits.
OnlyWhileWaiting ==
    \A w \in Workers : pc[w] # "waiting" => DOMAIN seen[w] = {}

IInv == Shape /\ CreatorHoldsLock /\ OnlyWhileWaiting /\ OneClientPerEndpoint

-----------------------------------------------------------------------------
LEMMA InitIInv == Init => IInv
<1> SUFFICES ASSUME Init PROVE IInv
  OBVIOUS
<1>1. \A w \in Workers : seen[w] = <<>> /\ stage[w] = <<>> /\ answer[w] = <<>>
  BY DEF Init
<1>2. DOMAIN <<>> = {}
  OBVIOUS
<1>3. Shape
  BY <1>1, <1>2 DEF Init, Shape
<1>4. CreatorHoldsLock /\ OnlyWhileWaiting
  BY <1>1, <1>2 DEF CreatorHoldsLock, OnlyWhileWaiting
<1>5. OneClientPerEndpoint
  BY DEF Init, OneClientPerEndpoint
<1> QED BY <1>3, <1>4, <1>5 DEF IInv

\* A goroutine changes its own stage to x, and maybe its own answer.
Moves(w, n, x) ==
    /\ UNCHANGED <<pc, seen, best>>
    /\ clients' \in [Endpoints -> Nat]
    /\ stage' = [stage EXCEPT ![w][n] = x]
    /\ answer' = answer \/ \E a \in Answers : answer' = [answer EXCEPT ![w][n] = a]

LEMMA Stage ==
    ASSUME Shape, NEW w \in Workers, NEW n \in DOMAIN seen[w], NEW x, Moves(w, n, x)
    PROVE  /\ Shape'
           /\ \A v \in Workers : \A m \in DOMAIN seen[v] :
                 stage'[v][m] = IF v = w /\ m = n THEN x ELSE stage[v][m]
<1> USE DEF Moves
<1>1. \A v \in Workers : stage'[v] = IF v = w THEN [stage[w] EXCEPT ![n] = x] ELSE stage[v]
  BY DEF Shape
<1>2. ASSUME NEW v \in Workers
      PROVE  /\ \A m \in DOMAIN seen[v] : stage'[v][m] = IF v = w /\ m = n THEN x ELSE stage[v][m]
             /\ stage'[v] = [m \in DOMAIN seen[v] |-> stage'[v][m]]
  <2>1. stage[v] = [m \in DOMAIN seen[v] |-> stage[v][m]]
    BY DEF Shape
  <2>2. CASE v # w
    BY <1>1, <2>1, <2>2
  <2>3. CASE v = w
    <3>1. stage'[v] = [stage[v] EXCEPT ![n] = x] /\ DOMAIN stage[v] = DOMAIN seen[v]
      BY <1>1, <2>1, <2>3
    <3>2. stage'[v] = [m \in DOMAIN seen[v] |-> IF m = n THEN x ELSE stage[v][m]]
      BY <3>1
    <3> QED BY <2>3, <3>2
  <2> QED BY <2>2, <2>3
<1>5. stage' = [v \in Workers |-> stage'[v]]
  BY DEF Shape
<1>6. answer' = [v \in Workers |-> answer'[v]]
      /\ \A v \in Workers : answer'[v] \in [DOMAIN seen[v] -> Answers]
  <2>1. CASE answer' = answer
    BY <2>1 DEF Shape
  <2>2. ASSUME NEW a \in Answers, answer' = [answer EXCEPT ![w][n] = a]
        PROVE  answer' = [v \in Workers |-> answer'[v]]
               /\ \A v \in Workers : answer'[v] \in [DOMAIN seen[v] -> Answers]
    <3>1. \A v \in Workers : answer'[v] = IF v = w THEN [answer[w] EXCEPT ![n] = a] ELSE answer[v]
      BY <2>2 DEF Shape
    <3>2. \A v \in Workers : answer[v] \in [DOMAIN seen[v] -> Answers]
      BY DEF Shape
    <3>3. answer' = [v \in Workers |-> answer'[v]]
      BY <2>2 DEF Shape
    <3> QED BY <3>1, <3>2, <3>3
  <2> QED BY <2>1, <2>2
<1> QED BY <1>2, <1>5, <1>6 DEF Shape

LEMMA NextIInv == IInv /\ [Next]_vars => IInv'
<1> SUFFICES ASSUME IInv, [Next]_vars PROVE IInv'
  OBVIOUS
<1>1. ASSUME NEW w \in Workers, BeginRead(w) PROVE IInv'
  <2> USE <1>1 DEF BeginRead, registry
  <2>1. Shape'
    BY DEF IInv, Shape
  <2>2. CreatorHoldsLock' /\ OneClientPerEndpoint'
    BY DEF IInv, CreatorHoldsLock, OneClientPerEndpoint
  <2>3. OnlyWhileWaiting'
    BY DEF IInv, Shape, OnlyWhileWaiting
  <2> QED BY <2>1, <2>2, <2>3 DEF IInv
<1>2. ASSUME NEW w \in Workers, EndRead(w) PROVE IInv'
  <2> USE <1>2 DEF EndRead, registry
  <2>0. \A v \in Workers :
            /\ v # w => seen'[v] = seen[v] /\ stage'[v] = stage[v] /\ answer'[v] = answer[v]
            /\ v = w => /\ stage'[v] = [n \in DOMAIN seen'[v] |-> "lookUp"]
                        /\ answer'[v] = [n \in DOMAIN seen'[v] |-> Failure]
    BY DEF IInv, Shape
  <2>1. Shape'
    BY <2>0 DEF IInv, Shape, Answers
  <2>2. CreatorHoldsLock' /\ OneClientPerEndpoint'
    BY <2>0 DEF IInv, CreatorHoldsLock, OneClientPerEndpoint
  <2>3. OnlyWhileWaiting'
    BY <2>0 DEF IInv, Shape, OnlyWhileWaiting
  <2> QED BY <2>1, <2>2, <2>3 DEF IInv
<1>3. ASSUME NEW w \in Workers, NEW n \in DOMAIN seen[w], LookUp(w, n) \/ Ask(w, n) PROVE IInv'
  <2>1. PICK x \in Stages : stage' = [stage EXCEPT ![w][n] = x] /\ x # "creating"
    BY <1>3 DEF LookUp, Ask, Go, Send, Stages
  <2>2. /\ answer' = answer \/ \E a \in Answers : answer' = [answer EXCEPT ![w][n] = a]
        /\ UNCHANGED <<pc, seen, best, clients, lock>>
    BY <1>3 DEF LookUp, Ask, Go, Send, registry, Answers
  <2>3. /\ Shape'
        /\ \A v \in Workers : \A m \in DOMAIN seen[v] :
              stage'[v][m] = IF v = w /\ m = n THEN x ELSE stage[v][m]
    <3>1. Shape /\ Moves(w, n, x)
      BY <2>1, <2>2 DEF IInv, Shape, Moves
    <3> QED BY <3>1, Stage
  <2>4. CreatorHoldsLock'
    BY <2>1, <2>2, <2>3 DEF IInv, CreatorHoldsLock
  <2>5. OnlyWhileWaiting' /\ OneClientPerEndpoint'
    BY <2>2 DEF IInv, OnlyWhileWaiting, OneClientPerEndpoint
  <2> QED BY <2>3, <2>4, <2>5 DEF IInv
<1>4. ASSUME NEW w \in Workers, NEW n \in DOMAIN seen[w], Lock(w, n) PROVE IInv'
  <2>1. PICK x \in {"asking", "creating"} :
            /\ stage' = [stage EXCEPT ![w][n] = x]
            /\ x = "creating" => lock' = <<w, n>> /\ ~(clients[seen[w][n]] > 0)
    BY <1>4 DEF Lock, Go
  <2>2. UNCHANGED <<pc, seen, best, clients, answer>> /\ lock = Nobody
    BY <1>4 DEF Lock, Go
  <2>3. /\ Shape'
        /\ \A v \in Workers : \A m \in DOMAIN seen[v] :
              stage'[v][m] = IF v = w /\ m = n THEN x ELSE stage[v][m]
    <3>1. Shape /\ Moves(w, n, x)
      BY <2>1, <2>2 DEF IInv, Shape, Moves
    <3> QED BY <3>1, Stage
  <2>4. \A v \in Workers : \A m \in DOMAIN seen[v] : stage[v][m] # "creating"
    BY <2>2 DEF IInv, CreatorHoldsLock, Nobody
  <2>5. CreatorHoldsLock'
    BY <2>1, <2>2, <2>3, <2>4 DEF IInv, CreatorHoldsLock, Shape
  <2>6. OnlyWhileWaiting' /\ OneClientPerEndpoint'
    BY <2>2 DEF IInv, OnlyWhileWaiting, OneClientPerEndpoint
  <2> QED BY <2>3, <2>5, <2>6 DEF IInv
<1>5. ASSUME NEW w \in Workers, NEW n \in DOMAIN seen[w], Create(w, n) PROVE IInv'
  <2>1. PICK x \in {"asking", "answered"} : stage' = [stage EXCEPT ![w][n] = x]
    BY <1>5 DEF Create, Go, Send
  <2>2. /\ UNCHANGED <<pc, seen, best>>
        /\ answer' = answer \/ \E a \in Answers : answer' = [answer EXCEPT ![w][n] = a]
        /\ clients' = clients \/ clients' = [clients EXCEPT ![seen[w][n]] = @ + 1]
        /\ stage[w][n] = "creating"
    BY <1>5 DEF Create, At, Go, Send, Answers
  <2>3. clients' \in [Endpoints -> Nat]
    BY <2>2 DEF IInv, Shape
  <2>4. /\ Shape'
        /\ \A v \in Workers : \A m \in DOMAIN seen[v] :
              stage'[v][m] = IF v = w /\ m = n THEN x ELSE stage[v][m]
    <3>1. Shape /\ Moves(w, n, x)
      BY <2>1, <2>2, <2>3 DEF IInv, Moves
    <3> QED BY <3>1, Stage
  <2>5. \A v \in Workers : \A m \in DOMAIN seen[v] : stage[v][m] = "creating" => v = w /\ m = n
    BY <2>2 DEF IInv, CreatorHoldsLock
  <2>6. CreatorHoldsLock'
    BY <2>1, <2>2, <2>4, <2>5 DEF CreatorHoldsLock
  <2>7. OneClientPerEndpoint'
    BY <2>2 DEF IInv, CreatorHoldsLock, OneClientPerEndpoint, Shape
  <2>8. OnlyWhileWaiting'
    BY <2>2 DEF IInv, OnlyWhileWaiting
  <2> QED BY <2>4, <2>6, <2>7, <2>8 DEF IInv
<1>6. ASSUME NEW w \in Workers, Choose(w) PROVE IInv'
  <2> USE <1>6 DEF Choose, registry
  <2>0. \A v \in Workers :
            /\ v # w => seen'[v] = seen[v] /\ stage'[v] = stage[v] /\ answer'[v] = answer[v]
            /\ v = w => seen'[v] = <<>> /\ stage'[v] = <<>> /\ answer'[v] = <<>>
    BY DEF IInv, Shape
  <2>1. DOMAIN <<>> = {} /\ <<>> = [n \in {} |-> <<>>[n]] /\ <<>> \in [{} -> Answers]
    OBVIOUS
  <2>2. \A v \in Workers : /\ stage'[v] = [n \in DOMAIN seen'[v] |-> stage'[v][n]]
                           /\ answer'[v] \in [DOMAIN seen'[v] -> Answers]
    BY <2>0, <2>1 DEF IInv, Shape
  <2>3. /\ pc' = [v \in Workers |-> pc'[v]] /\ best' = [v \in Workers |-> best'[v]]
        /\ \A v \in Workers : v # w => pc'[v] = pc[v]
    BY DEF IInv, Shape
  <2>4. Shape'
    BY <2>2, <2>3 DEF IInv, Shape
  <2>5. CreatorHoldsLock' /\ OneClientPerEndpoint'
    BY <2>0, <2>1 DEF IInv, CreatorHoldsLock, OneClientPerEndpoint
  <2>6. OnlyWhileWaiting'
    BY <2>0, <2>1, <2>3 DEF IInv, OnlyWhileWaiting
  <2> QED BY <2>4, <2>5, <2>6 DEF IInv
<1>7. ASSUME NEW w \in Workers, Inform(w) PROVE IInv'
  <2> USE <1>7 DEF Inform, Rest, registry
  <2>1. Shape'
    BY DEF IInv, Shape
  <2>2. CreatorHoldsLock' /\ OneClientPerEndpoint'
    BY DEF IInv, CreatorHoldsLock, OneClientPerEndpoint
  <2>3. OnlyWhileWaiting'
    BY DEF IInv, Shape, OnlyWhileWaiting
  <2> QED BY <2>1, <2>2, <2>3 DEF IInv
<1>8. ASSUME UNCHANGED vars PROVE IInv'
  BY <1>8 DEF vars, registry, IInv, Shape, CreatorHoldsLock, OnlyWhileWaiting, OneClientPerEndpoint
<1> QED
  BY <1>1, <1>2, <1>3, <1>4, <1>5, <1>6, <1>7, <1>8 DEF Next, Work, Goroutine

\* The strengthened invariant.
THEOREM Invariance == Spec => []IInv
BY InitIInv, NextIInv, PTL DEF Spec

\* However many goroutines of however many rounds ask for an endpoint at once,
\* one client is created for it (rpc_client_registry.go:28-48).
THEOREM OneClient == Spec => []OneClientPerEndpoint
<1>1. IInv => OneClientPerEndpoint
  BY DEF IInv
<1> QED BY <1>1, Invariance, PTL

-----------------------------------------------------------------------------
(* The choice of a round. *)

\* What comes first failed only if all did, and nothing is ahead of it.
LEMMA ForemostIsBest ==
    ASSUME NEW D, NEW a \in [D -> Answers], NEW n \in Foremost(a)
    PROVE  /\ n \in D
           /\ a[n] = Failure => \A o \in D : a[o] = Failure
           /\ \A o \in D : a[o] <= a[n]
BY DEF Foremost, Healthier, Answers, Blocks, Failure

\* No step but Choose ends the wait of a worker.
LEMMA WaitEndsByChoice ==
    ASSUME IInv, [Next]_vars, NEW w \in Workers, pc[w] = "waiting", pc'[w] # "waiting"
    PROVE  Choose(w)
<1>1. \A v \in Workers : BeginRead(v) \/ EndRead(v) \/ Inform(v) => pc'[w] = pc[w]
  BY DEF IInv, Shape, BeginRead, EndRead, Inform, Rest
<1>2. \A v \in Workers : \A n \in DOMAIN seen[v] : Goroutine(v, n) => pc' = pc
  BY DEF Goroutine, LookUp, Lock, Create, Ask
<1>3. \A v \in Workers : v # w /\ Choose(v) => pc'[w] = pc[w]
  BY DEF IInv, Shape, Choose
<1>4. UNCHANGED vars => pc' = pc
  BY DEF vars
<1> QED BY <1>1, <1>2, <1>3, <1>4 DEF Next, Work

\* A round that goes on does so with an RPC that answered and that no other one
\* is ahead of; it fails only when no RPC answers (worker.go:948-977).
THEOREM ChoiceIsHealthiest == Spec => BestIsHealthiest
<1>1. ASSUME IInv, [Next]_vars, NEW w \in Workers, pc[w] = "waiting", pc'[w] # "waiting"
      PROVE  IF pc'[w] = "idle" THEN ToSet(answer[w]) = {Failure}
             ELSE \E n \in DOMAIN seen[w] :
                     /\ best'[w] = seen[w][n] /\ answer[w][n] # Failure
                     /\ \A o \in DOMAIN seen[w] : answer[w][o] <= answer[w][n]
  <2>1. Choose(w)
    BY <1>1, WaitEndsByChoice
  <2>2. answer[w] \in [DOMAIN seen[w] -> Answers]
    BY <1>1 DEF IInv, Shape
  <2>3. PICK n \in Foremost(answer[w]) :
            IF answer[w][n] = Failure THEN pc' = [pc EXCEPT ![w] = "idle"]
            ELSE /\ pc' = [pc EXCEPT ![w] = "informing"]
                 /\ best' = [best EXCEPT ![w] = seen[w][n]]
    BY <2>1 DEF Choose
  <2>4. /\ n \in DOMAIN seen[w]
        /\ answer[w][n] = Failure => \A o \in DOMAIN seen[w] : answer[w][o] = Failure
        /\ \A o \in DOMAIN seen[w] : answer[w][o] <= answer[w][n]
    BY <2>2, ForemostIsBest
  <2>5. CASE answer[w][n] = Failure
    <3>1. ToSet(answer[w]) = {Failure}
      BY <2>2, <2>4, <2>5 DEF ToSet
    <3> QED BY <1>1, <2>3, <2>5, <3>1 DEF IInv, Shape
  <2>6. CASE answer[w][n] # Failure
    <3>1. best'[w] = seen[w][n] /\ pc'[w] # "idle"
      BY <1>1, <2>3, <2>6 DEF IInv, Shape
    <3> QED BY <2>4, <2>6, <3>1
  <2> QED BY <2>5, <2>6
<1> DEFINE Choice ==
        \A w \in Workers : pc[w] = "waiting" /\ pc'[w] # "waiting" =>
          IF pc'[w] = "idle" THEN ToSet(answer[w]) = {Failure}
          ELSE \E n \in DOMAIN seen[w] :
                  /\ best'[w] = seen[w][n] /\ answer[w][n] # Failure
                  /\ \A o \in DOMAIN seen[w] : answer[w][o] <= answer[w][n]
<1>2. IInv /\ [Next]_vars => [Choice]_vars
  BY <1>1
<1> QED BY <1>2, Invariance, PTL DEF BestIsHealthiest, Spec

-----------------------------------------------------------------------------
(***************************************************************************)
(* The loop that puts an RPC in front.                                     *)
(***************************************************************************)
\* The iterations of the loop from the first to the last-th.
Iterates(f, q, e, last) ==
    f = [n \in 0..last |-> IF n = 0 THEN <<e>>
                           ELSE IF q[n] = e THEN f[n - 1]
                           ELSE Append(f[n - 1], q[n])]

LEMMA Smallest ==
    ASSUME NEW T \in SUBSET Nat, T # {}
    PROVE  \E n \in T : \A m \in T : n <= m
<1> DEFINE Less == {p \in Nat \X Nat : p[1] < p[2]}
<1>1. IsWellFoundedOn(Less, Nat)
  BY NatLessThanWellFounded DEF OpToRel
<1>2. \A m, n \in Nat : m < n => <<m, n>> \in Less
  OBVIOUS
<1> HIDE DEF Less
<1>3. PICK n \in T : \A m \in T : ~(<<m, n>> \in Less)
  BY <1>1, WFMin
<1>4. ASSUME NEW m \in T
      PROVE  n <= m
  <2>1. m \in Nat /\ n \in Nat /\ ~(m < n)
    BY <1>2, <1>3, <1>4
  <2>2. QED
    BY <2>1
<1>5. QED
  BY <1>3, <1>4

LEMMA IteratesExist ==
    ASSUME NEW q, NEW e, NEW last \in Nat
    PROVE  \E f : Iterates(f, q, e, last)
<1> DEFINE T == {n \in Nat : ~\E f : Iterates(f, q, e, n)}
<1> SUFFICES ASSUME T # {} PROVE FALSE
  OBVIOUS
<1>1. PICK n \in T : \A m \in T : n <= m
  <2>1. T \in SUBSET Nat
    OBVIOUS
  <2> HIDE DEF T
  <2>2. QED
    BY <2>1, Smallest
<1>2. n # 0
  <2>1. Iterates([i \in 0..0 |-> <<e>>], q, e, 0)
    BY DEF Iterates
  <2>2. QED
    BY <2>1
<1>3. PICK g : Iterates(g, q, e, n - 1)
  BY <1>1, <1>2
<1> DEFINE h == [i \in 0..n |-> IF i < n THEN g[i]
                                ELSE IF q[n] = e THEN g[n - 1] ELSE Append(g[n - 1], q[n])]
<1>4. ASSUME NEW i \in 0..n
      PROVE  h[i] = IF i = 0 THEN <<e>> ELSE IF q[i] = e THEN h[i - 1] ELSE Append(h[i - 1], q[i])
  <2>1. CASE i < n
    <3>1. h[i] = g[i] /\ (i # 0 => h[i - 1] = g[i - 1])
      BY <2>1
    <3>2. i \in 0..(n - 1)
      BY <2>1
    <3> HIDE DEF h
    <3>3. g[i] = IF i = 0 THEN <<e>> ELSE IF q[i] = e THEN g[i - 1] ELSE Append(g[i - 1], q[i])
      BY <1>3, <3>2 DEF Iterates
    <3>4. QED
      BY <3>1, <3>3
  <2>2. CASE i = n
    BY <1>2, <2>2
  <2>3. QED
    BY <2>1, <2>2
<1>5. Iterates(h, q, e, n)
  BY <1>4 DEF Iterates
<1>6. QED
  BY <1>5

LEMMA ReorderedIsIterated ==
    ASSUME NEW S, NEW q \in Seq(S), NEW e
    PROVE  \E f : Iterates(f, q, e, Len(q)) /\ Reordered(q, e) = f[Len(q)]
<1>1. \E f : Iterates(f, q, e, Len(q))
  <2>1. Len(q) \in Nat
    OBVIOUS
  <2>2. QED
    BY <2>1, IteratesExist
<1>2. QED
  BY <1>1 DEF Reordered, Iterates

\* The loop collects e and what it has passed, each once if q has each once.
Collected(S, r, q, e, n) ==
    /\ r \in Seq(S)
    /\ ToSet(r) = {e} \cup {q[i] : i \in 1..n}
    /\ IsInjective(q) => IsInjective(r)

LEMMA Collecting ==
    ASSUME NEW S, NEW q \in Seq(S), NEW e \in S, NEW f, Iterates(f, q, e, Len(q)),
           NEW n \in 1..Len(q), Collected(S, f[n - 1], q, e, n - 1)
    PROVE  Collected(S, f[n], q, e, n)
<1> DEFINE r == f[n - 1]
<1>0. n \in Nat /\ n # 0 /\ q[n] \in S /\ n - 1 \in Nat /\ 1..n = (1..(n - 1)) \cup {n}
  OBVIOUS
<1>1. f[n] = IF q[n] = e THEN r ELSE Append(r, q[n])
  <2>1. n \in 0..Len(q)
    BY <1>0
  <2>2. f[n] = IF n = 0 THEN <<e>> ELSE IF q[n] = e THEN f[n - 1] ELSE Append(f[n - 1], q[n])
    BY <2>1 DEF Iterates
  <2>3. QED
    BY <1>0, <2>2
<1>2. {q[i] : i \in 1..n} = {q[i] : i \in 1..(n - 1)} \cup {q[n]}
  BY <1>0
<1>3. CASE q[n] = e
  BY <1>1, <1>2, <1>3 DEF Collected
<1>4. CASE q[n] # e
  <2> DEFINE t == Append(r, q[n])
  <2>1. /\ r \in Seq(S) /\ ToSet(r) = {e} \cup {q[i] : i \in 1..(n - 1)}
        /\ IsInjective(q) => IsInjective(r)
    BY DEF Collected
  <2> HIDE DEF r
  <2>2. /\ t \in Seq(S) /\ DOMAIN t = 1..(Len(r) + 1) /\ DOMAIN r = 1..Len(r)
        /\ \A i \in 1..Len(r) : t[i] = r[i]
        /\ t[Len(r) + 1] = q[n] /\ Len(r) \in Nat
    BY <1>0, <2>1
  <2> HIDE DEF t
  <2>3. DOMAIN t = DOMAIN r \cup {Len(r) + 1}
    BY <2>2
  <2>4. ToSet(t) = ToSet(r) \cup {q[n]}
    BY <2>2, <2>3 DEF ToSet
  <2>5. ASSUME IsInjective(q)
        PROVE  IsInjective(t)
    <3>1. q[n] \notin ToSet(r)
      <4>1. \A i \in 1..(n - 1) : q[i] # q[n]
        BY <1>0, <2>5 DEF IsInjective
      <4>2. QED
        BY <1>4, <2>1, <4>1
    <3>2. \A i \in DOMAIN r : r[i] # q[n]
      BY <3>1 DEF ToSet
    <3>3. QED
      BY <2>1, <2>2, <2>3, <2>5, <3>2 DEF IsInjective
  <2>6. f[n] = t
    BY <1>1, <1>4 DEF t, r
  <2>7. QED
    BY <1>2, <2>1, <2>2, <2>4, <2>5, <2>6 DEF Collected
<1>5. QED
  BY <1>3, <1>4

\* What InformPriorityLatestHealthyRpcWL makes of the list.
LEMMA ReorderedList ==
    ASSUME NEW S, NEW q \in Seq(S), NEW e \in S
    PROVE  /\ Reordered(q, e) \in Seq(S)
           /\ ToSet(Reordered(q, e)) = ToSet(q) \cup {e}
           /\ IsInjective(q) => IsInjective(Reordered(q, e))
<1>1. PICK f : Iterates(f, q, e, Len(q)) /\ Reordered(q, e) = f[Len(q)]
  BY ReorderedIsIterated
<1> DEFINE T == {n \in 0..Len(q) : ~Collected(S, f[n], q, e, n)}
<1>2. Len(q) \in Nat
  OBVIOUS
<1>3. 0 \notin T
  <2>1. f[0] = <<e>>
    BY <1>1, <1>2 DEF Iterates
  <2>2. <<e>> \in Seq(S) /\ ToSet(<<e>>) = {e} /\ IsInjective(<<e>>)
    BY DEF ToSet, IsInjective
  <2>3. {q[i] : i \in 1..0} = {}
    OBVIOUS
  <2>4. QED
    BY <2>1, <2>2, <2>3 DEF Collected
<1>4. ASSUME T # {}
      PROVE  FALSE
  <2>1. T \in SUBSET Nat
    OBVIOUS
  <2>2. PICK n \in T : \A m \in T : n <= m
    <3> HIDE DEF T
    <3>1. QED
      BY <1>4, <2>1, Smallest
  <2>3. n \in 1..Len(q) /\ n - 1 \in 0..Len(q) /\ ~(n <= n - 1)
    BY <1>2, <1>3
  <2>4. Collected(S, f[n - 1], q, e, n - 1)
    BY <2>2, <2>3
  <2>5. QED
    BY <1>1, <2>3, <2>4, Collecting
<1>5. Collected(S, f[Len(q)], q, e, Len(q))
  BY <1>2, <1>4
<1>6. {q[i] : i \in 1..Len(q)} = ToSet(q)
  BY DEF ToSet
<1>7. QED
  BY <1>1, <1>5, <1>6 DEF Collected

\* Lists of the same RPCs, each once, are equally long.
LEMMA SetLength ==
    ASSUME NEW S, NEW q \in Seq(S), IsInjective(q)
    PROVE  Cardinality(ToSet(q)) = Len(q)
<1>1. q \in Bijection(1..Len(q), ToSet(q))
  BY DEF IsInjective, ToSet, Bijection, Injection, Surjection
<1>2. IsFiniteSet(1..Len(q)) /\ Cardinality(1..Len(q)) = Len(q)
  <2>1. Len(q) \in Nat
    OBVIOUS
  <2>2. IsFiniteSet(1..Len(q)) /\ Cardinality(1..Len(q)) = IF 1 > Len(q) THEN 0 ELSE Len(q) - 1 + 1
    BY <2>1, FS_Interval
  <2>3. QED
    BY <2>1, <2>2
<1>3. ExistsBijection(1..Len(q), ToSet(q))
  BY <1>1 DEF ExistsBijection
<1>4. QED
  BY <1>2, <1>3, FS_Bijection

\* A read that is torn by a reordering misses nothing then.
LEMMA TornList ==
    ASSUME NEW S, NEW q \in Seq(S), NEW r \in Seq(S), ToSet(q) = ToSet(r), IsInjective(q), IsInjective(r)
    PROVE  Torn(q, Len(r)) = q
<1>1. Len(r) = Len(q) /\ Len(q) \in Nat
  BY SetLength
<1>2. Torn(q, Len(r)) = [n \in 1..Len(q) |-> q[n]]
  BY <1>1 DEF Torn
<1>3. QED
  BY <1>2

(***************************************************************************)
(* The lists in the hands of the workers.                                  *)
(***************************************************************************)
\* q has the RPCs of r, and each once if the chain file spells each once.
SameRpcs(q, r, once) == q \in Seq(Endpoints) /\ ToSet(q) = ToSet(r) /\ (once => IsInjective(q))

Registered == SameRpcs(rpc, rpc, spelledOnce)

Readers ==
    /\ before = [w \in Workers |-> before[w]]
    /\ \A w \in Workers : pc[w] = "reading" => SameRpcs(before[w], rpc, spelledOnce)

Askers ==
    \A w \in Workers :
        pc[w] = "waiting" =>
            /\ ToSet(seen[w]) \subseteq ToSet(rpc) \cup {Garbage}
            /\ spelledOnce => SameRpcs(seen[w], rpc, spelledOnce)

\* What lies past the end of the slice is no RPC: its goroutine finds no client.
GarbageFails ==
    \A w \in Workers : \A n \in DOMAIN seen[w] :
        seen[w][n] = Garbage => stage[w][n] \in {"lookUp", "answered"} /\ answer[w][n] = Failure

Informers == \A w \in Workers : pc[w] = "informing" => best[w] \in ToSet(rpc)

ListInv == Registered /\ Readers /\ Askers /\ GarbageFails /\ Informers

LEMMA InitListInv == Init => ListInv
<1> SUFFICES ASSUME Init
             PROVE  ListInv
  OBVIOUS
<1>1. Registered
  <2>1. PICK file \in ChainFiles : rpc \in Lists(file)
    BY DEF Init
  <2>2. PICK q \in SetToSeqs(file) : rpc = [n \in DOMAIN q |-> EndpointOf[q[n]]]
    BY <2>1 DEF Lists
  <2>3. file \in SUBSET Spellings /\ IsFiniteSet(Spellings)
    BY RpcAssumption
  <2>4. Cardinality(file) \in Nat
    BY <2>3, FS_Subset, FS_CardinalityType
  <2>5. q \in [1..Cardinality(file) -> file]
    BY DEF SetToSeqs
  <2>6. rpc \in [1..Cardinality(file) -> Endpoints]
    BY <2>2, <2>3, <2>5 DEF Endpoints
  <2>7. rpc \in Seq(Endpoints)
    BY <2>4, <2>6
  <2>8. spelledOnce = IsInjective(rpc)
    BY DEF Init
  <2>9. QED
    BY <2>7, <2>8 DEF Registered, SameRpcs
<1>2. \A w \in Workers : pc[w] = "idle" /\ DOMAIN seen[w] = {}
  <2>1. DOMAIN <<>> = {}
    OBVIOUS
  <2>2. QED
    BY <2>1 DEF Init
<1>3. Readers
  BY <1>2 DEF Init, Readers
<1>4. Askers /\ Informers
  BY <1>2 DEF Askers, Informers
<1>5. GarbageFails
  BY <1>2 DEF GarbageFails
<1>6. QED
  BY <1>1, <1>3, <1>4, <1>5 DEF ListInv

LEMMA BeginReadLists ==
    ASSUME IInv, ListInv, NEW w \in Workers, BeginRead(w)
    PROVE  ListInv'
<1>1. /\ UNCHANGED <<rpc, seen, stage, answer, best, spelledOnce>>
      /\ \A v \in Workers : v # w => pc'[v] = pc[v] /\ before'[v] = before[v]
      /\ pc'[w] = "reading" /\ before'[w] = rpc
      /\ before' = [v \in Workers |-> before'[v]]
  BY DEF BeginRead, IInv, Shape, ListInv, Readers
<1>2. Registered' /\ GarbageFails'
  BY <1>1 DEF ListInv, Registered, GarbageFails
<1>3. Readers'
  BY <1>1 DEF ListInv, Registered, Readers
<1>4. Askers' /\ Informers'
  BY <1>1 DEF ListInv, Askers, Informers
<1>5. QED
  BY <1>2, <1>3, <1>4 DEF ListInv

LEMMA EndReadLists ==
    ASSUME IInv, ListInv, NEW w \in Workers, EndRead(w)
    PROVE  ListInv'
<1>1. PICK elements \in {before[w], rpc}, lengths \in {before[w], rpc} :
         seen' = [seen EXCEPT ![w] = Torn(elements, Len(lengths))]
  BY DEF EndRead
<1> DEFINE t == Torn(elements, Len(lengths))
<1>2. /\ SameRpcs(elements, rpc, spelledOnce) /\ SameRpcs(lengths, rpc, spelledOnce)
  BY DEF EndRead, ListInv, Registered, Readers
<1>3. Len(lengths) \in Nat
  BY <1>2 DEF SameRpcs
<1>4. ToSet(t) \subseteq ToSet(rpc) \cup {Garbage}
  <2>1. elements \in Seq(Endpoints) /\ ToSet(elements) = ToSet(rpc)
    BY <1>2 DEF SameRpcs
  <2>2. Len(elements) \in Nat /\ DOMAIN elements = 1..Len(elements)
    BY <2>1
  <2>3. DOMAIN t = 1..Len(lengths)
    BY DEF Torn
  <2>4. ASSUME NEW n \in 1..Len(lengths)
        PROVE  t[n] \in ToSet(elements) \cup {Garbage}
    <3>1. t[n] = IF n <= Len(elements) THEN elements[n] ELSE Garbage
      BY <2>4 DEF Torn
    <3>2. n \in Nat /\ n >= 1
      BY <1>3, <2>4
    <3>3. n <= Len(elements) => n \in DOMAIN elements
      BY <2>2, <3>2
    <3>4. n <= Len(elements) => elements[n] \in ToSet(elements)
      BY <3>3 DEF ToSet
    <3>5. QED
      BY <3>1, <3>4
  <2> HIDE DEF t
  <2>5. QED
    BY <2>1, <2>3, <2>4 DEF ToSet
<1>5. spelledOnce => SameRpcs(t, rpc, spelledOnce)
  <2>1. spelledOnce => t = elements
    BY <1>2, TornList DEF SameRpcs
  <2> HIDE DEF t
  <2>2. QED
    BY <1>2, <2>1
<1> HIDE DEF t
<1>6. /\ UNCHANGED <<rpc, best, spelledOnce>>
      /\ \A v \in Workers : v # w => /\ pc'[v] = pc[v] /\ before'[v] = before[v] /\ seen'[v] = seen[v]
                                     /\ stage'[v] = stage[v] /\ answer'[v] = answer[v]
      /\ pc'[w] = "waiting" /\ before' = [v \in Workers |-> before'[v]]
  BY DEF EndRead, IInv, Shape, ListInv, Readers
<1>7. /\ seen'[w] = t
      /\ \A n \in DOMAIN t : stage'[w][n] = "lookUp" /\ answer'[w][n] = Failure
  <2>1. seen'[w] = t
    BY <1>1 DEF IInv, Shape, t
  <2>2. stage'[w] = [n \in DOMAIN t |-> "lookUp"] /\ answer'[w] = [n \in DOMAIN t |-> Failure]
    BY <2>1 DEF EndRead, IInv, Shape
  <2>3. QED
    BY <2>1, <2>2
<1>8. Registered'
  BY <1>6 DEF ListInv, Registered
<1>9. Readers' /\ Informers'
  BY <1>6 DEF ListInv, Readers, Informers
<1>10. Askers'
  BY <1>4, <1>5, <1>6, <1>7 DEF ListInv, Askers
<1>11. GarbageFails'
  <2> SUFFICES ASSUME NEW v \in Workers, NEW n \in DOMAIN seen'[v], seen'[v][n] = Garbage
               PROVE  stage'[v][n] \in {"lookUp", "answered"} /\ answer'[v][n] = Failure
    BY DEF GarbageFails
  <2>1. CASE v = w
    BY <1>7, <2>1
  <2>2. CASE v # w
    BY <1>6, <2>2 DEF ListInv, GarbageFails
  <2>3. QED
    BY <2>1, <2>2
<1>12. QED
  BY <1>8, <1>9, <1>10, <1>11 DEF ListInv

LEMMA GoroutineLists ==
    ASSUME IInv, ListInv, NEW w \in Workers, NEW n \in DOMAIN seen[w], Goroutine(w, n)
    PROVE  ListInv'
<1>1. UNCHANGED <<rpc, pc, before, seen, best, spelledOnce>>
  BY DEF Goroutine, LookUp, Lock, Create, Ask
<1>2. Registered' /\ Readers' /\ Askers' /\ Informers'
  BY <1>1 DEF ListInv, Registered, Readers, Askers, Informers
<1>3. stage[w] = [m \in DOMAIN seen[w] |-> stage[w][m]] /\ answer[w] \in [DOMAIN seen[w] -> Answers]
  BY DEF IInv, Shape
<1>4. \A v \in Workers : v # w => stage'[v] = stage[v] /\ answer'[v] = answer[v]
  BY DEF Goroutine, LookUp, Lock, Create, Ask, Go, Send, IInv, Shape
<1>5. \A m \in DOMAIN seen[w] : m # n => stage'[w][m] = stage[w][m] /\ answer'[w][m] = answer[w][m]
  BY <1>3 DEF Goroutine, LookUp, Lock, Create, Ask, Go, Send, IInv, Shape
<1>6. ASSUME seen[w][n] = Garbage
      PROVE  stage'[w][n] = "answered" /\ answer'[w][n] = Failure
  <2>1. LookUp(w, n)
    BY <1>6 DEF Goroutine, Lock, Create, Ask, At, ListInv, GarbageFails
  <2>2. Send(w, n, Failure)
    BY <1>6, <2>1 DEF LookUp
  <2>3. QED
    BY <1>3, <2>2 DEF Send, IInv, Shape
<1>7. GarbageFails'
  <2> SUFFICES ASSUME NEW v \in Workers, NEW m \in DOMAIN seen[v], seen[v][m] = Garbage
               PROVE  stage'[v][m] \in {"lookUp", "answered"} /\ answer'[v][m] = Failure
    BY <1>1 DEF GarbageFails
  <2>1. stage[v][m] \in {"lookUp", "answered"} /\ answer[v][m] = Failure
    BY DEF ListInv, GarbageFails
  <2>2. CASE v = w /\ m = n
    BY <1>6, <2>2
  <2>3. CASE v = w /\ m # n
    BY <1>5, <2>1, <2>3
  <2>4. CASE v # w
    BY <1>4, <2>1, <2>4
  <2>5. QED
    BY <2>2, <2>3, <2>4
<1>8. QED
  BY <1>2, <1>7 DEF ListInv

LEMMA ChooseLists ==
    ASSUME IInv, ListInv, NEW w \in Workers, Choose(w)
    PROVE  ListInv'
<1>1. /\ UNCHANGED <<rpc, before, spelledOnce>>
      /\ \A v \in Workers : v # w => /\ pc'[v] = pc[v] /\ best'[v] = best[v] /\ seen'[v] = seen[v]
                                     /\ stage'[v] = stage[v] /\ answer'[v] = answer[v]
      /\ seen'[w] = <<>> /\ pc'[w] \in {"idle", "informing"}
  BY DEF Choose, IInv, Shape
<1>2. DOMAIN <<>> = {}
  OBVIOUS
<1>3. pc'[w] = "informing" => best'[w] \in ToSet(rpc)
  <2> SUFFICES ASSUME pc'[w] = "informing"
               PROVE  best'[w] \in ToSet(rpc)
    OBVIOUS
  <2>1. PICK n \in Foremost(answer[w]) :
           answer[w][n] # Failure /\ best' = [best EXCEPT ![w] = seen[w][n]]
    BY DEF Choose, IInv, Shape
  <2>2. n \in DOMAIN seen[w]
    BY DEF Foremost, IInv, Shape
  <2>3. best'[w] = seen[w][n] /\ seen[w][n] # Garbage
    BY <2>1, <2>2 DEF IInv, Shape, ListInv, GarbageFails
  <2>4. seen[w][n] \in ToSet(seen[w])
    BY <2>2 DEF ToSet
  <2>5. QED
    BY <2>3, <2>4 DEF Choose, ListInv, Askers
<1>4. Registered'
  BY <1>1 DEF ListInv, Registered
<1>5. Readers' /\ Askers'
  BY <1>1 DEF ListInv, Readers, Askers
<1>6. Informers'
  BY <1>1, <1>3 DEF ListInv, Informers
<1>7. GarbageFails'
  BY <1>1, <1>2 DEF ListInv, GarbageFails
<1>8. QED
  BY <1>4, <1>5, <1>6, <1>7 DEF ListInv

LEMMA InformSet ==
    ASSUME ListInv, NEW w \in Workers, Inform(w)
    PROVE  SameRpcs(rpc', rpc, spelledOnce)
<1>1. rpc \in Seq(Endpoints) /\ (spelledOnce => IsInjective(rpc))
  BY DEF ListInv, Registered, SameRpcs
<1>2. best[w] \in ToSet(rpc) /\ rpc' = Reordered(rpc, best[w])
  BY DEF Inform, ListInv, Informers
<1>3. best[w] \in Endpoints
  BY <1>1, <1>2 DEF ToSet
<1>4. /\ rpc' \in Seq(Endpoints)
      /\ ToSet(rpc') = ToSet(rpc) \cup {best[w]}
      /\ IsInjective(rpc) => IsInjective(rpc')
  <2> DEFINE e == best[w]
  <2>1. e \in Endpoints /\ rpc' = Reordered(rpc, e)
    BY <1>2, <1>3
  <2> HIDE DEF e
  <2>2. /\ rpc' \in Seq(Endpoints)
        /\ ToSet(rpc') = ToSet(rpc) \cup {e}
        /\ IsInjective(rpc) => IsInjective(rpc')
    BY <1>1, <2>1, ReorderedList
  <2>3. QED
    BY <2>2 DEF e
<1>5. QED
  BY <1>1, <1>2, <1>4 DEF SameRpcs

LEMMA InformLists ==
    ASSUME IInv, ListInv, NEW w \in Workers, Inform(w)
    PROVE  ListInv'
<1>1. /\ UNCHANGED <<before, seen, stage, answer, spelledOnce>>
      /\ \A v \in Workers : v # w => pc'[v] = pc[v] /\ best'[v] = best[v]
      /\ pc'[w] = "idle"
  BY DEF Inform, Rest, IInv, Shape
<1>2. SameRpcs(rpc', rpc, spelledOnce)
  BY InformSet
<1>3. Registered'
  BY <1>1, <1>2 DEF Registered, SameRpcs
<1>4. Readers' /\ Askers'
  BY <1>1, <1>2 DEF ListInv, Readers, Askers, SameRpcs
<1>5. Informers'
  BY <1>1, <1>2 DEF ListInv, Informers, SameRpcs
<1>6. GarbageFails'
  BY <1>1 DEF ListInv, GarbageFails
<1>7. QED
  BY <1>3, <1>4, <1>5, <1>6 DEF ListInv

LEMMA NextListInv == IInv /\ ListInv /\ [Next]_vars => ListInv'
<1> SUFFICES ASSUME IInv, ListInv, [Next]_vars
             PROVE  ListInv'
  OBVIOUS
<1>1. ASSUME NEW w \in Workers, BeginRead(w) \/ Work(w)
      PROVE  ListInv'
  BY <1>1, BeginReadLists, EndReadLists, GoroutineLists, ChooseLists, InformLists DEF Work
<1>2. CASE UNCHANGED vars
  BY <1>2 DEF vars, registry, ListInv, Registered, Readers, Askers, GarbageFails, Informers
<1>3. QED
  BY <1>1, <1>2 DEF Next

\* For any workers, chain files and interleaving of reads without the lock and
\* reorderings under it, every round asks every RPC once, if the chain file spells
\* each once (registered_chain_config.go:92-113, worker.go:884-925).
THEOREM AllAreAsked == Spec => []AllAsked
<1>1. ListInv => AllAsked
  BY DEF ListInv, Askers, SameRpcs, AllAsked
<1>2. QED
  BY <1>1, InitIInv, NextIInv, InitListInv, NextListInv, PTL DEF Spec

\* And no reordering forgets an RPC or adds one, whatever list its round had read
\* (registered_chain_config.go:96-113).
THEOREM NoRpcIsForgotten == Spec => NoRpcForgotten
<1> DEFINE Kept == ToSet(rpc') = ToSet(rpc)
<1>1. IInv /\ ListInv /\ [Next]_vars => [Kept]_vars
  <2> SUFFICES ASSUME ListInv, Next
               PROVE  Kept
    OBVIOUS
  <2>1. ASSUME NEW w \in Workers, Inform(w)
        PROVE  Kept
    BY <2>1, InformSet DEF SameRpcs
  <2>2. UNCHANGED rpc \/ \E w \in Workers : Inform(w)
    BY DEF Next, BeginRead, Work, EndRead, Goroutine, LookUp, Lock, Create, Ask, Choose
  <2>3. QED
    BY <2>1, <2>2
<1>2. QED
  BY <1>1, InitIInv, NextIInv, InitListInv, NextListInv, PTL DEF Spec, NoRpcForgotten

-----------------------------------------------------------------------------
(***************************************************************************)
(* The types.                                                              *)
(***************************************************************************)
LEMMA InitType == Init => TypeOK
<1> SUFFICES ASSUME Init
             PROVE  TypeOK
  OBVIOUS
<1>1. rpc \in Seq(Endpoints) /\ spelledOnce \in BOOLEAN
  BY InitListInv DEF ListInv, Registered, SameRpcs, Init, IsInjective
<1>2. <<>> \in Seq(Endpoints) /\ <<>> \in Seq(Endpoints \cup {Garbage}) /\ <<>> \in Seq(Stages) /\ <<>> \in Seq(Answers)
  OBVIOUS
<1>3. QED
  BY <1>1, <1>2 DEF Init, TypeOK

\* A goroutine takes its stage, and maybe its answer, to values of their types.
LEMMA GoroutineType ==
    ASSUME IInv, TypeOK, NEW w \in Workers, NEW n \in DOMAIN seen[w], Goroutine(w, n)
    PROVE  TypeOK'
<1>1. UNCHANGED <<rpc, pc, before, seen, best, spelledOnce>>
  BY DEF Goroutine, LookUp, Lock, Create, Ask
<1>2. n \in Nat /\ n \in DOMAIN stage[w] /\ n \in DOMAIN answer[w]
  BY DEF IInv, Shape, TypeOK
<1>3. PICK x \in Stages : stage' = [stage EXCEPT ![w][n] = x]
  BY DEF Goroutine, LookUp, Lock, Create, Ask, Go, Send, Stages
<1>4. stage' \in [Workers -> Seq(Stages)]
  <2>1. [stage[w] EXCEPT ![n] = x] \in Seq(Stages)
    BY <1>2 DEF TypeOK
  <2>2. stage' = [stage EXCEPT ![w] = [stage[w] EXCEPT ![n] = x]]
    BY <1>3 DEF TypeOK
  <2>3. QED
    BY <2>1, <2>2 DEF TypeOK
<1>5. answer' = answer \/ \E a \in Answers : answer' = [answer EXCEPT ![w][n] = a]
  BY DEF Goroutine, LookUp, Lock, Create, Ask, Go, Send, Answers
<1>6. answer' \in [Workers -> Seq(Answers)]
  <2>1. ASSUME NEW a \in Answers, answer' = [answer EXCEPT ![w][n] = a]
        PROVE  answer' \in [Workers -> Seq(Answers)]
    <3>1. [answer[w] EXCEPT ![n] = a] \in Seq(Answers)
      BY <1>2 DEF TypeOK
    <3>2. answer' = [answer EXCEPT ![w] = [answer[w] EXCEPT ![n] = a]]
      BY <2>1 DEF TypeOK
    <3>3. QED
      BY <3>1, <3>2 DEF TypeOK
  <2>2. QED
    BY <1>5, <2>1 DEF TypeOK
<1>7. lock' \in {Nobody} \cup (Workers \X Nat)
  BY <1>2 DEF Goroutine, LookUp, Lock, Create, Ask, registry, TypeOK
<1>8. clients' \in [Endpoints -> Nat]
  <2>1. clients' = clients \/ clients' = [clients EXCEPT ![seen[w][n]] = @ + 1]
    BY DEF Goroutine, LookUp, Lock, Create, Ask, registry
  <2>2. clients \in [Endpoints -> Nat]
    BY DEF TypeOK
  <2>3. QED
    BY <2>1, <2>2
<1>9. QED
  BY <1>1, <1>4, <1>6, <1>7, <1>8 DEF TypeOK

LEMMA TornType ==
    ASSUME NEW S, NEW q \in Seq(S), NEW len \in Nat
    PROVE  Torn(q, len) \in Seq(S \cup {Garbage})
<1>1. DOMAIN q = 1..Len(q) /\ \A n \in 1..Len(q) : q[n] \in S
  OBVIOUS
<1>2. \A n \in 1..len : (IF n <= Len(q) THEN q[n] ELSE Garbage) \in S \cup {Garbage}
  BY <1>1
<1>3. QED
  BY <1>2 DEF Torn

LEMMA NextType == IInv /\ ListInv /\ TypeOK /\ [Next]_vars => TypeOK'
<1> SUFFICES ASSUME IInv, ListInv, TypeOK, [Next]_vars
             PROVE  TypeOK'
  OBVIOUS
<1>0. <<>> \in Seq(Endpoints) /\ <<>> \in Seq(Endpoints \cup {Garbage}) /\ <<>> \in Seq(Stages) /\ <<>> \in Seq(Answers)
  OBVIOUS
<1>1. ASSUME NEW w \in Workers, BeginRead(w)
      PROVE  TypeOK'
  BY <1>1 DEF BeginRead, registry, TypeOK
<1>2. ASSUME NEW w \in Workers, EndRead(w)
      PROVE  TypeOK'
  <2>1. PICK elements \in {before[w], rpc}, lengths \in {before[w], rpc} :
           seen' = [seen EXCEPT ![w] = Torn(elements, Len(lengths))]
    BY <1>2 DEF EndRead
  <2> DEFINE t == Torn(elements, Len(lengths))
  <2>2. t \in Seq(Endpoints \cup {Garbage})
    <3>1. elements \in Seq(Endpoints) /\ Len(lengths) \in Nat
      BY DEF TypeOK
    <3>2. QED
      BY <3>1, TornType
  <2> HIDE DEF t
  <2>3. seen' = [seen EXCEPT ![w] = t] /\ seen' \in [Workers -> Seq(Endpoints \cup {Garbage})]
    BY <2>1, <2>2 DEF TypeOK, t
  <2>4. DOMAIN seen'[w] = 1..Len(t) /\ Len(t) \in Nat
    BY <2>2, <2>3 DEF TypeOK
  <2>5. [n \in DOMAIN seen'[w] |-> "lookUp"] \in Seq(Stages) /\ [n \in DOMAIN seen'[w] |-> Failure] \in Seq(Answers)
    BY <2>4 DEF Stages, Answers
  <2>6. stage' \in [Workers -> Seq(Stages)] /\ answer' \in [Workers -> Seq(Answers)]
    BY <1>2, <2>5 DEF EndRead, TypeOK
  <2>7. QED
    BY <1>0, <1>2, <2>3, <2>6 DEF EndRead, registry, TypeOK
<1>3. ASSUME NEW w \in Workers, NEW n \in DOMAIN seen[w], Goroutine(w, n)
      PROVE  TypeOK'
  BY <1>3, GoroutineType
<1>4. ASSUME NEW w \in Workers, Choose(w)
      PROVE  TypeOK'
  <2>1. best' \in [Workers -> Endpoints \cup {Garbage}] /\ pc' \in [Workers -> {"idle", "reading", "waiting", "informing"}]
    <3>1. \A n \in Foremost(answer[w]) : n \in DOMAIN seen[w]
      BY DEF Foremost, IInv, Shape
    <3>2. \A n \in DOMAIN seen[w] : seen[w][n] \in Endpoints \cup {Garbage}
      BY DEF TypeOK
    <3>3. pc' \in [Workers -> {"idle", "reading", "waiting", "informing"}]
      BY <1>4 DEF Choose, TypeOK
    <3>4. best' = best \/ \E n \in DOMAIN seen[w] : best' = [best EXCEPT ![w] = seen[w][n]]
      BY <1>4, <3>1 DEF Choose
    <3>5. QED
      BY <3>2, <3>3, <3>4 DEF TypeOK
  <2>2. QED
    BY <1>0, <1>4, <2>1 DEF Choose, registry, TypeOK
<1>5. ASSUME NEW w \in Workers, Inform(w)
      PROVE  TypeOK'
  <2>1. rpc' \in Seq(Endpoints)
    BY <1>5, InformSet DEF SameRpcs
  <2>2. QED
    BY <1>5, <2>1 DEF Inform, Rest, registry, TypeOK
<1>6. CASE UNCHANGED vars
  BY <1>6 DEF vars, registry, TypeOK
<1>7. QED
  BY <1>1, <1>2, <1>3, <1>4, <1>5, <1>6 DEF Next, Work

\* Every variable keeps its type (registered_chain_config.go:92-113,
\* rpc_client_registry.go:28-48, worker.go:884-977).
THEOREM TypeCorrect == Spec => []TypeOK
BY InitType, NextType, InitIInv, NextIInv, InitListInv, NextListInv, PTL DEF Spec
=============================================================================
