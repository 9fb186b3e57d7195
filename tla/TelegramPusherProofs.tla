------------------------ MODULE TelegramPusherProofs ------------------------
(***************************************************************************)
(* Proofs about TelegramPusher, for any messages, receivers and limits: no *)
(* accepted message is lost, the turns of a receiver are spaced, no queue  *)
(* is missed, every copy of a message is accounted for, the order is kept, *)
(* and the push service implements AlertOutbox.                            *)
(***************************************************************************)
EXTENDS TelegramPusher, SequenceTheorems, FiniteSetTheorems, FunctionTheorems,
        TLAPS

-----------------------------------------------------------------------------
(* What the operations on sequences do to the messages they hold.          *)

\* Appending adds one element, taking the head removes at most one.
LEMMA RangeAppend ==
    ASSUME NEW S, NEW s \in Seq(S), NEW e \in S
    PROVE  Range(Append(s, e)) = Range(s) \cup {e}
<1>1. /\ Append(s, e) \in Seq(S) /\ Len(Append(s, e)) = Len(s) + 1
      /\ \A i \in 1..Len(s) : Append(s, e)[i] = s[i]
      /\ Append(s, e)[Len(s) + 1] = e
  BY AppendProperties
<1>2. /\ Range(s) = {s[i] : i \in 1..Len(s)}
      /\ Range(Append(s, e)) = {Append(s, e)[i] : i \in 1..Len(s) + 1}
  BY <1>1, RangeEquality
<1>3. Len(s) \in Nat
  BY LenProperties
<1> QED BY <1>1, <1>2, <1>3

LEMMA RangeHeadTail ==
    ASSUME NEW S, NEW s \in Seq(S), s # <<>>
    PROVE  /\ Head(s) \in S /\ Tail(s) \in Seq(S)
           /\ Range(s) = {Head(s)} \cup Range(Tail(s))
<1>1. /\ Head(s) \in S /\ Tail(s) \in Seq(S) /\ Len(Tail(s)) = Len(s) - 1
      /\ \A i \in 1..Len(Tail(s)) : Tail(s)[i] = s[i + 1]
  BY HeadTailProperties
<1>2. Len(s) \in Nat \ {0} /\ Head(s) = s[1]
  BY EmptySeq
<1>3. /\ Range(s) = {s[i] : i \in 1..Len(s)}
      /\ Range(Tail(s)) = {Tail(s)[i] : i \in 1..Len(s) - 1}
  BY <1>1, RangeEquality
<1>4. \A i \in 1..Len(s) : i = 1 \/ (i - 1 \in 1..Len(s) - 1 /\ Tail(s)[i - 1] = s[i])
  BY <1>1, <1>2
<1>5. \A i \in 1..Len(s) - 1 : i + 1 \in 1..Len(s)
  BY <1>2
<1>6. Range(s) \subseteq {Head(s)} \cup Range(Tail(s))
  <2> SUFFICES ASSUME NEW i \in 1..Len(s)
               PROVE  s[i] \in {Head(s)} \cup Range(Tail(s))
    BY <1>3
  <2>1. CASE i = 1
    BY <2>1, <1>2
  <2>2. CASE i - 1 \in 1..Len(s) - 1 /\ Tail(s)[i - 1] = s[i]
    BY <2>2, <1>3
  <2> QED BY <2>1, <2>2, <1>4
<1>7. {Head(s)} \cup Range(Tail(s)) \subseteq Range(s)
  BY <1>1, <1>2, <1>3, <1>5
<1> QED BY <1>1, <1>6, <1>7

\* A dequeue hands out a part of the queue and leaves at least the other part.
LEMMA DequeueKeeps ==
    ASSUME NEW s \in Seq(Msgs), NEW k \in Nat, k <= Len(Take(s))
    PROVE  /\ Take(s) \in Seq(Msgs) /\ LeftBehind(s, k) \in Seq(Msgs)
           /\ TooLong(s, k) \in Seq(Msgs)
           /\ s # <<>> => Take(s) # <<>>
           /\ Range(s) \subseteq Range(Take(s)) \cup Range(LeftBehind(s, k))
           /\ Range(Take(s)) \cup Range(LeftBehind(s, k)) \subseteq Range(s)
<1> DEFINE n == IF BatchSize < Len(s) THEN BatchSize ELSE Len(s)
           t == SubSeq(s, 1, n)
           u == SubSeq(s, n + 1, Len(s))
           v == SubSeq(t, k + 1, n)
<1>1. Len(s) \in Nat /\ n \in 0..Len(s) /\ (s # <<>> => n > 0)
  BY LenProperties, EmptySeq, LimitsAssumption
<1>2. \A i \in 1..Len(s) : s[i] \in Msgs
  BY ElementOfSeq
<1>3. /\ t \in Seq(Msgs) /\ Len(t) = n
      /\ \A i \in 1..n : t[i] = s[i]
  <2>1. \A i \in 1..n : s[i] \in Msgs
    BY <1>1, <1>2
  <2> HIDE DEF n
  <2> QED BY <1>1, <2>1, SubSeqProperties
<1>4. /\ u \in Seq(Msgs) /\ Len(u) = Len(s) - n
      /\ \A i \in 1..Len(s) - n : u[i] = s[n + i]
  <2>1. \A i \in n + 1 .. Len(s) : s[i] \in Msgs
    BY <1>1, <1>2
  <2> HIDE DEF n
  <2>2. /\ SubSeq(s, n + 1, Len(s)) \in Seq(Msgs)
        /\ Len(SubSeq(s, n + 1, Len(s))) = IF n + 1 <= Len(s) THEN Len(s) - (n + 1) + 1 ELSE 0
        /\ \A i \in 1..Len(s) - (n + 1) + 1 : SubSeq(s, n + 1, Len(s))[i] = s[n + 1 + i - 1]
    BY <1>1, <2>1, SubSeqProperties
  <2> QED BY <1>1, <2>2
<1>5. /\ Take(s) = t /\ Rest(s) = u
      /\ TooLong(s, k) = v /\ LeftBehind(s, k) = v \o u
  BY <1>3 DEF Take, Rest, LeftBehind, TooLong
<1>6. v \in Seq(Msgs) /\ Range(v) \subseteq Range(t)
  <2>1. k \in 0..n
    BY <1>1, <1>3, <1>5
  <2>2. \A i \in k + 1 .. n : t[i] \in Msgs
    BY <1>3, <2>1, ElementOfSeq, <1>1
  <2> HIDE DEF n, t
  <2>3. /\ v \in Seq(Msgs)
        /\ Len(v) = IF k + 1 <= n THEN n - (k + 1) + 1 ELSE 0
        /\ \A i \in 1..n - (k + 1) + 1 : v[i] = t[k + 1 + i - 1]
    BY <1>1, <2>1, <2>2, SubSeqProperties
  <2>4. Range(v) = {v[i] : i \in 1..Len(v)} /\ Range(t) = {t[i] : i \in 1..n}
    BY <2>3, <1>3, RangeEquality
  <2>5. \A i \in 1..Len(v) : k + i \in 1..n /\ v[i] = t[k + i]
    BY <1>1, <2>1, <2>3
  <2> HIDE DEF v
  <2> QED BY <2>3, <2>4, <2>5
<1>7. Range(s) = Range(t) \cup Range(u)
  <2> HIDE DEF n, t, u
  <2>a. Range(s) = {s[i] : i \in 1..Len(s)}
    BY RangeEquality
  <2>b. Range(t) = {t[i] : i \in 1..n}
    BY <1>3, RangeEquality
  <2>1. /\ Range(s) = {s[i] : i \in 1..Len(s)}
        /\ Range(t) = {t[i] : i \in 1..n}
        /\ Range(u) = {u[i] : i \in 1..Len(s) - n}
    BY <1>4, RangeEquality, <2>a, <2>b
  <2>2. \A i \in 1..Len(s) :
           \/ i \in 1..n /\ t[i] = s[i]
           \/ i - n \in 1..Len(s) - n /\ u[i - n] = s[i]
    BY <1>1, <1>3, <1>4
  <2>3. \A i \in 1..n : i \in 1..Len(s) /\ t[i] = s[i]
    BY <1>1, <1>3
  <2>4. \A i \in 1..Len(s) - n : n + i \in 1..Len(s) /\ u[i] = s[n + i]
    BY <1>1, <1>4
  <2> QED BY <2>1, <2>2, <2>3, <2>4
<1> HIDE DEF n, t, u, v
<1>8. v \o u \in Seq(Msgs) /\ Range(v \o u) = Range(v) \cup Range(u)
  BY <1>4, <1>6, ConcatProperties, RangeConcatenation
<1>9. s # <<>> => t # <<>>
  BY <1>1, <1>3, EmptySeq
<1> QED BY <1>3, <1>5, <1>6, <1>7, <1>8, <1>9

\* Sorting a selection of a batch neither adds nor drops a message of it.
LEMMA SelectionKeeps ==
    ASSUME NEW s \in Seq(Msgs), NEW keep \in SUBSET DOMAIN s,
           NEW t \in SortedSelections(s, keep)
    PROVE  /\ t \in Seq(Msgs)
           /\ Range(t) = {s[i] : i \in keep}
           /\ t = <<>> <=> keep = {}
<1> DEFINE n == Cardinality(keep)
<1>1. DOMAIN s = 1..Len(s) /\ Len(s) \in Nat
  BY LenProperties
<1>2. IsFiniteSet(keep) /\ n \in Nat /\ (n = 0 <=> keep = {})
  <2>1. IsFiniteSet(1..Len(s))
    BY <1>1, FS_Interval
  <2>2. IsFiniteSet(keep)
    BY <1>1, <2>1, FS_Subset
  <2> QED BY <2>2, FS_CardinalityType, FS_EmptySet
<1>3. PICK p \in Bijection(1..n, keep) : t = [i \in 1..n |-> s[p[i]]]
  BY DEF SortedSelections
<1> HIDE DEF n
<1>a. p \in [1..n -> keep] /\ \A j \in keep : \E i \in 1..n : p[i] = j
  BY <1>3 DEF Bijection, Injection, Surjection
<1>4. /\ \A i \in 1..n : p[i] \in keep
      /\ \A j \in keep : \E i \in 1..n : p[i] = j
  BY <1>a
<1>5. \A i \in keep : s[i] \in Msgs
  BY <1>1, ElementOfSeq
<1>6. t \in [1..n -> Msgs]
  BY <1>3, <1>4, <1>5
<1>7. t \in Seq(Msgs)
  BY <1>2, <1>6, SeqDef
<1>8. DOMAIN t = 1..n /\ Len(t) = n
  BY <1>2, <1>6, <1>7, LenProperties
<1>9. Range(t) = {s[i] : i \in keep}
  BY <1>3, <1>4, <1>8 DEF Range
<1>10. t = <<>> <=> n = 0
  BY <1>2, <1>7, <1>8, EmptySeq
<1> QED BY <1>2, <1>7, <1>9, <1>10

-----------------------------------------------------------------------------
(* Types.                                                                  *)

\* What enqueueMessageWL does to the types, for whoever calls it.
LEMMA EnqueueType ==
    ASSUME TypeOK, NEW m \in Msgs, Enqueue(m)
    PROVE  /\ queue' \in [Receivers -> Seq(Msgs)]
           /\ priorityQueue' \in Seq(Receivers)
           /\ nonPriorityQueue' \in Seq(Receivers)
           /\ cool' \in [Receivers -> 0..Cooldown]
           /\ snap' \in Seq(Receivers) /\ shared' \in BOOLEAN
<1> DEFINE r == To[m]
<1>1. r \in Receivers
  BY MessagesAssumption
<1>2. queue' \in [Receivers -> Seq(Msgs)]
  <2>1. Append(queue[r], m) \in Seq(Msgs)
    BY <1>1, AppendProperties DEF TypeOK, QueuesType
  <2> QED BY <1>1, <2>1 DEF Enqueue, TypeOK, QueuesType
<1>3. cool' \in [Receivers -> 0..Cooldown]
  <2>1. Cooldown \in 0..Cooldown
    BY LimitsAssumption
  <2> QED BY <2>1 DEF Enqueue, TypeOK, ClocksType
<1>4. /\ Append(priorityQueue, r) \in Seq(Receivers)
      /\ Append(nonPriorityQueue, r) \in Seq(Receivers)
  BY <1>1, AppendProperties DEF TypeOK, QueuesType
<1>5. priorityQueue' \in Seq(Receivers) /\ nonPriorityQueue' \in Seq(Receivers)
  BY <1>4 DEF Enqueue, TypeOK, QueuesType, lists
<1>6. \A n : [snap EXCEPT ![n] = r] \in Seq(Receivers)
  <2> SUFFICES ASSUME NEW n PROVE [snap EXCEPT ![n] = r] \in Seq(Receivers)
    OBVIOUS
  <2>1. Len(snap) \in Nat /\ snap \in [1..Len(snap) -> Receivers]
    BY LenProperties DEF TypeOK, TurnType
  <2>2. [snap EXCEPT ![n] = r] \in [1..Len(snap) -> Receivers]
    BY <1>1, <2>1
  <2> QED BY <2>1, <2>2, SeqDef
<1>7. snap' \in Seq(Receivers) /\ shared' \in BOOLEAN
  BY <1>6 DEF Enqueue, TypeOK, TurnType, lists
<1> QED BY <1>2, <1>3, <1>5, <1>7

\* Counting the copies of a message in a batch gives a natural number, which
\* is positive when the batch holds the message.
LEMMA CopiesType ==
    ASSUME NEW s \in Seq(Msgs)
    PROVE  /\ \A m \in Msgs : Copies(m, s) \in Nat
           /\ \A m \in Range(s) : Copies(m, s) > 0
<1>1. DOMAIN s = 1..Len(s) /\ Len(s) \in Nat
  BY LenProperties
<1>2. IsFiniteSet(DOMAIN s)
  BY <1>1, FS_Interval
<1> SUFFICES ASSUME NEW m
             PROVE  /\ Copies(m, s) \in Nat
                    /\ m \in Range(s) => Copies(m, s) > 0
  BY RangeOfSeq
<1> DEFINE I == {i \in DOMAIN s : s[i] = m}
<1>3. IsFiniteSet(I)
  BY <1>2, FS_Subset
<1>4. m \in Range(s) => I # {}
  BY DEF Range
<1> HIDE DEF I
<1>5. Cardinality(I) \in Nat /\ (Cardinality(I) = 0 <=> I = {})
  BY <1>3, FS_CardinalityType, FS_EmptySet
<1>6. Copies(m, s) = Cardinality(I)
  BY DEF Copies, I
<1> QED BY <1>4, <1>5, <1>6

\* A queue is chosen before it is dequeued.
Chosen == pc = "dequeue" => firstNonEmptyQueue # NoReceiver

\* Every step keeps the types.
LEMMA TypeStep == TypeOK /\ Chosen /\ [Next]_vars => TypeOK' /\ Chosen'
<1> SUFFICES ASSUME TypeOK, Chosen, [Next]_vars PROVE TypeOK' /\ Chosen'
  OBVIOUS
<1> DEFINE Pcs == {"sleep", "scan", "dequeue", "filter", "send", "requeue"}
<1>t. /\ QueuesType /\ TurnType /\ SendingType /\ CountsType /\ ClocksType
      /\ pc \in Pcs /\ pushedPreviousTurn \in BOOLEAN
  BY DEF TypeOK
<1>f. /\ UNCHANGED <<queue, lists>> => QueuesType'
      /\ UNCHANGED turn => TurnType'
      /\ UNCHANGED sending => SendingType'
      /\ UNCHANGED counts => CountsType'
      /\ UNCHANGED clocks => ClocksType'
  <2>1. UNCHANGED <<queue, lists>> => QueuesType'
    BY <1>t DEF QueuesType, lists
  <2>2. UNCHANGED turn => TurnType'
    BY <1>t DEF TurnType, turn
  <2>3. UNCHANGED sending => SendingType'
    BY <1>t DEF SendingType, sending
  <2>4. UNCHANGED counts => CountsType'
    BY <1>t DEF CountsType, counts
  <2>5. UNCHANGED clocks => ClocksType'
    BY <1>t DEF ClocksType, clocks
  <2> QED BY <2>1, <2>2, <2>3, <2>4, <2>5
<1>0. /\ 0 \in 0..Cooldown /\ Cooldown \in 0..Cooldown
      /\ 0 \in 0..PushSleep /\ PushSleep \in 0..PushSleep
  BY LimitsAssumption
<1>e. <<>> \in Seq(Msgs) /\ <<>> \in Seq(Receivers)
  BY EmptySeq
<1>1. ASSUME NEW m \in Msgs, EnqueueMessage(m) PROVE TypeOK' /\ Chosen'
  <2>1. Enqueue(m)
    BY <1>1 DEF EnqueueMessage
  <2>2. /\ QueuesType' /\ cool' \in [Receivers -> 0..Cooldown]
        /\ snap' \in Seq(Receivers) /\ shared' \in BOOLEAN
    BY <2>1, EnqueueType DEF QueuesType
  <2>3. TurnType'
    BY <1>t, <1>1, <2>2 DEF EnqueueMessage, TurnType
  <2>4. ClocksType'
    BY <1>t, <1>1, <2>2 DEF EnqueueMessage, ClocksType
  <2>5. CountsType'
    BY <1>t, <1>1 DEF EnqueueMessage, CountsType
  <2>6. UNCHANGED <<sending, pc, pushedPreviousTurn, firstNonEmptyQueue>>
    BY <1>1 DEF EnqueueMessage
  <2> QED BY <1>t, <1>f, <2>2, <2>3, <2>4, <2>5, <2>6 DEF TypeOK, Chosen
<1>2. CASE StartTurn
  <2>1. priorityQueue \o nonPriorityQueue \in Seq(Receivers)
    BY <1>t, ConcatProperties DEF QueuesType
  <2>2. /\ snap' \in Seq(Receivers) /\ firstNonEmptyQueue' = NoReceiver
        /\ at' = 1
    BY <1>2, <2>1 DEF StartTurn
  <2>3. shared' \in BOOLEAN
    BY <1>2 DEF StartTurn
  <2>4. TurnType'
    BY <2>2, <2>3 DEF TurnType
  <2>5. UNCHANGED <<queue, lists, clocks, sending, counts>>
    BY <1>2 DEF StartTurn
  <2>6. pc' = "scan" /\ pushedPreviousTurn' = FALSE
    BY <1>2 DEF StartTurn
  <2> QED BY <1>f, <2>4, <2>5, <2>6 DEF TypeOK, Chosen
<1>3. CASE Look
  <2>1. at \in 1..Len(snap)
    BY <1>t, <1>3, LenProperties DEF Look, TurnType
  <2>2. snap[at] \in Receivers
    BY <1>t, <2>1, ElementOfSeq DEF TurnType
  <2>3. at' \in Nat \ {0} /\ snap' = snap /\ shared' = shared
    BY <1>t, <1>3 DEF Look, TurnType
  <2>4. firstNonEmptyQueue' \in Receivers \cup {NoReceiver}
    BY <1>t, <1>3, <2>2 DEF Look, TurnType
  <2>5. TurnType'
    BY <1>t, <2>3, <2>4 DEF TurnType
  <2>6. UNCHANGED <<queue, lists, clocks, sending, counts, pc, pushedPreviousTurn>>
    BY <1>3 DEF Look
  <2>7. pc = "scan"
    BY <1>3 DEF Look
  <2> QED BY <1>t, <1>f, <2>5, <2>6, <2>7 DEF TypeOK, Chosen
<1>4. CASE EndScan
  <2>1. at' = 1
    BY <1>4 DEF EndScan
  <2>2. UNCHANGED firstNonEmptyQueue
    BY <1>4 DEF EndScan
  <2>s. snap' \in Seq(Receivers)
    BY <1>e, <1>4 DEF EndScan
  <2>a. shared' \in BOOLEAN
    BY <1>4 DEF EndScan
  <2>3. TurnType'
    BY <1>t, <2>1, <2>s, <2>a, <2>2 DEF TurnType
  <2>4. UNCHANGED <<queue, lists, clocks, sending, counts, pushedPreviousTurn>>
    BY <1>4 DEF EndScan
  <2>5. pc' \in Pcs /\ (pc' = "dequeue" => firstNonEmptyQueue # NoReceiver)
    BY <1>4 DEF EndScan
  <2> QED BY <1>t, <1>f, <2>2, <2>3, <2>4, <2>5 DEF TypeOK, Chosen
<1>5. ASSUME NEW k \in 0..BatchSize, Dequeue(k) PROVE TypeOK' /\ Chosen'
  <2> DEFINE s == queue[firstNonEmptyQueue]
  <2>1. firstNonEmptyQueue \in Receivers
    BY <1>t, <1>5 DEF Dequeue, TurnType, Chosen
  <2>2. s \in Seq(Msgs) /\ k \in Nat /\ k <= Len(Take(s))
    BY <1>t, <1>5, <2>1, LimitsAssumption DEF Dequeue, IsCut, QueuesType
  <2>d. /\ batch' = Take(s)
        /\ queue' = [queue EXCEPT ![firstNonEmptyQueue] = LeftBehind(s, k)]
        /\ cool' = [cool EXCEPT ![firstNonEmptyQueue] = Cooldown]
        /\ sinceTurn' = [sinceTurn EXCEPT ![firstNonEmptyQueue] = 0]
        /\ putBack' = [m \in Msgs |-> putBack[m] + Copies(m, TooLong(s, k))]
        /\ pc' \in {"sleep", "filter"}
        /\ UNCHANGED <<lists, pushedPreviousTurn, turn, tryCount, faults, enqueued,
                       stamp, delivered, silenced, unacked, sinceSend>>
    BY <1>5 DEF Dequeue
  <2> HIDE DEF s
  <2>3. /\ Take(s) \in Seq(Msgs) /\ LeftBehind(s, k) \in Seq(Msgs)
        /\ \A m \in Msgs : Copies(m, TooLong(s, k)) \in Nat
    BY <2>2, DequeueKeeps, CopiesType
  <2>4. QueuesType'
    BY <1>t, <2>d, <2>3 DEF QueuesType, lists
  <2>5. SendingType'
    BY <1>t, <2>d, <2>3 DEF SendingType
  <2>6. CountsType'
    BY <1>t, <2>d, <2>3 DEF CountsType
  <2>7. ClocksType'
    BY <1>t, <1>0, <2>d DEF ClocksType
  <2> QED BY <1>t, <1>f, <2>d, <2>4, <2>5, <2>6, <2>7 DEF TypeOK, Chosen
<1>6. ASSUME NEW S \in SUBSET Silenceable, Filter(S) PROVE TypeOK' /\ Chosen'
  <2>d. /\ UNCHANGED <<queue, lists, clocks, pushedPreviousTurn, turn, faults,
                       enqueued, stamp, delivered, putBack, unacked>>
        /\ tryCount' = 0
        /\ pc' \in {"sleep", "send"}
        /\ \E keep \in SUBSET DOMAIN batch : batch' \in SortedSelections(batch, keep)
        /\ silenced' = [m \in Msgs |-> IF m \in S THEN silenced[m] + Copies(m, batch)
                                       ELSE silenced[m]]
    BY <1>6 DEF Filter
  <2>1. batch \in Seq(Msgs) /\ \A m \in Msgs : Copies(m, batch) \in Nat
    BY <1>t, CopiesType DEF SendingType
  <2>2. batch' \in Seq(Msgs)
    BY <2>d, <2>1, SelectionKeeps
  <2>3. SendingType'
    BY <1>t, <2>d, <2>2 DEF SendingType
  <2>4. CountsType'
    BY <1>t, <2>d, <2>1 DEF CountsType
  <2> QED BY <1>t, <1>f, <2>d, <2>3, <2>4 DEF TypeOK, Chosen
<1>7. CASE CannotSend
  <2>1. SendingType'
    BY <1>t, <1>7, LimitsAssumption DEF CannotSend, SendingType
  <2>2. /\ UNCHANGED <<queue, lists, clocks, pushedPreviousTurn, turn, counts>>
        /\ pc' = "requeue"
    BY <1>7 DEF CannotSend
  <2> QED BY <1>t, <1>f, <2>1, <2>2 DEF TypeOK, Chosen
<1>8. CASE SendSucceeds
  <2>d. /\ UNCHANGED <<queue, lists, cool, sinceTurn, pushedPreviousTurn, turn,
                       tryCount, faults, enqueued, stamp, silenced, putBack, unacked>>
        /\ batch' = <<>> /\ pc' = "sleep" /\ sinceSend' = 0
        /\ delivered' = [m \in Msgs |-> delivered[m] + Copies(m, batch)]
    BY <1>8 DEF SendSucceeds, DeliverBatch
  <2>1. \A m \in Msgs : Copies(m, batch) \in Nat
    BY <1>t, CopiesType DEF SendingType
  <2>2. CountsType'
    BY <1>t, <2>d, <2>1 DEF CountsType
  <2>3. SendingType'
    BY <1>t, <1>e, <2>d DEF SendingType
  <2>4. ClocksType'
    BY <1>t, <1>0, <2>d DEF ClocksType
  <2> QED BY <1>t, <1>f, <2>d, <2>2, <2>3, <2>4 DEF TypeOK, Chosen
<1>9. ASSUME NEW reached \in BOOLEAN, SendFails(reached) PROVE TypeOK' /\ Chosen'
  <2>d. /\ UNCHANGED <<queue, lists, cool, sinceTurn, pushedPreviousTurn, turn,
                       batch, enqueued, stamp, silenced, putBack>>
        /\ faults < MaxFaults /\ faults' = faults + 1 /\ tryCount' = tryCount + 1
        /\ pc' \in {"send", "requeue"}
        /\ \/ /\ delivered' = [m \in Msgs |-> delivered[m] + Copies(m, batch)]
              /\ unacked' = [m \in Msgs |-> unacked[m] + Copies(m, batch)]
              /\ sinceSend' = 0
           \/ UNCHANGED <<delivered, unacked, sinceSend>>
    BY <1>9 DEF SendFails, DeliverBatch
  <2>1. \A m \in Msgs : Copies(m, batch) \in Nat
    BY <1>t, CopiesType DEF SendingType
  <2>2. CountsType'
    BY <1>t, <2>d, <2>1 DEF CountsType
  <2>3. SendingType'
    BY <1>t, <2>d, LimitsAssumption DEF SendingType
  <2>4. ClocksType'
    BY <1>t, <1>0, <2>d DEF ClocksType
  <2> QED BY <1>t, <1>f, <2>d, <2>2, <2>3, <2>4 DEF TypeOK, Chosen
<1>10. CASE Requeue
  <2>1. Head(batch) \in Msgs /\ Tail(batch) \in Seq(Msgs)
    BY <1>t, <1>10, RangeHeadTail DEF Requeue, SendingType
  <2>2. Enqueue(Head(batch))
    BY <1>10 DEF Requeue
  <2>3. /\ QueuesType' /\ cool' \in [Receivers -> 0..Cooldown]
        /\ snap' \in Seq(Receivers) /\ shared' \in BOOLEAN
    BY <2>1, <2>2, EnqueueType DEF QueuesType
  <2>4. /\ UNCHANGED <<pushedPreviousTurn, at, firstNonEmptyQueue,
                       tryCount, faults, counts, sinceTurn, sinceSend>>
        /\ batch' = Tail(batch) /\ pc' \in {"sleep", "requeue"}
    BY <1>10 DEF Requeue
  <2>5. TurnType'
    BY <1>t, <2>3, <2>4 DEF TurnType
  <2>6. SendingType'
    BY <1>t, <2>1, <2>4 DEF SendingType
  <2>7. ClocksType'
    BY <1>t, <2>3, <2>4 DEF ClocksType
  <2> QED BY <1>t, <1>f, <2>3, <2>4, <2>5, <2>6, <2>7 DEF TypeOK, Chosen
<1>11. CASE Tick
  <2>1. ClocksType'
    BY <1>t, <1>11, LimitsAssumption DEF Tick, Minus1, Plus1, ClocksType
  <2>2. UNCHANGED <<queue, lists, pc, pushedPreviousTurn, turn, sending, counts>>
    BY <1>11 DEF Tick
  <2>3. firstNonEmptyQueue' = firstNonEmptyQueue
    BY <2>2 DEF turn
  <2> QED BY <1>t, <1>f, <2>1, <2>2, <2>3 DEF TypeOK, Chosen
<1>12. CASE UNCHANGED vars
  BY <1>t, <1>f, <1>12 DEF vars, turn, TypeOK, Chosen
<1> QED
  BY <1>1, <1>2, <1>3, <1>4, <1>5, <1>6, <1>7, <1>8, <1>9, <1>10, <1>11, <1>12
     DEF Next, PusherStep

LEMMA TypeInit == Init => TypeOK /\ Chosen
<1> SUFFICES ASSUME Init PROVE TypeOK /\ Chosen
  OBVIOUS
<1>1. <<>> \in Seq(Msgs) /\ <<>> \in Seq(Receivers)
  BY EmptySeq
<1>2. QueuesType
  BY <1>1 DEF Init, QueuesType
<1>3. TurnType
  <2>1. snap \in Seq(Receivers)
    BY <1>1 DEF Init
  <2>2. shared \in BOOLEAN /\ at = 1
    BY DEF Init
  <2>3. firstNonEmptyQueue = NoReceiver
    BY DEF Init
  <2> QED BY <2>1, <2>2, <2>3 DEF TurnType
<1>4. SendingType
  BY <1>1, LimitsAssumption DEF Init, SendingType
<1>5. CountsType
  BY DEF Init, CountsType
<1>6. ClocksType
  BY LimitsAssumption DEF Init, ClocksType
<1>7. pc = "sleep" /\ pushedPreviousTurn = FALSE
  BY DEF Init
<1> QED BY <1>2, <1>3, <1>4, <1>5, <1>6, <1>7 DEF TypeOK, Chosen

\* The state always has its type.
THEOREM TypeCorrect == Spec => []TypeOK
<1> QED BY TypeInit, TypeStep, PTL DEF Spec

-----------------------------------------------------------------------------
(* What a step does to the sets of messages in the system, delivered and   *)
(* silenced.                                                               *)

\* The pusher holds messages from a dequeue to the end of the turn alone.
Phase == batch # <<>> => pc \in {"filter", "send", "requeue"}

Accepts(m) ==
    /\ m \notin Accepted /\ Accepted' = Accepted \cup {m}
    /\ InSystem' = InSystem \cup {m}
    /\ DeliveredSet' = DeliveredSet /\ SilencedSet' = SilencedSet

Silences(B) ==
    /\ Accepted' = Accepted /\ DeliveredSet' = DeliveredSet
    /\ SilencedSet' = SilencedSet \cup B
    /\ InSystem' \subseteq InSystem /\ InSystem \subseteq InSystem' \cup B

Delivers(B) ==
    /\ Accepted' = Accepted /\ SilencedSet' = SilencedSet
    /\ DeliveredSet' = DeliveredSet \cup B
    /\ InSystem' \subseteq InSystem /\ InSystem \subseteq InSystem' \cup B

MovesOnly == Silences({}) /\ Delivers({})

\* What enqueueMessageWL adds to the queues.
LEMMA EnqueueEffect ==
    ASSUME TypeOK, NEW m \in Msgs, Enqueue(m)
    PROVE  \A r \in Receivers :
              Waiting(r)' = IF r = To[m] THEN Waiting(r) \cup {m} ELSE Waiting(r)
<1>1. To[m] \in Receivers /\ queue \in [Receivers -> Seq(Msgs)]
  BY MessagesAssumption DEF TypeOK, QueuesType
<1>2. queue' = [queue EXCEPT ![To[m]] = Append(queue[To[m]], m)]
  BY DEF Enqueue
<1>3. Range(Append(queue[To[m]], m)) = Range(queue[To[m]]) \cup {m}
  BY <1>1, RangeAppend
<1> QED BY <1>1, <1>2, <1>3 DEF Waiting

\* Counting up the copies of a message leaves a positive count exactly when
\* the count was positive or s holds the message.
LEMMA CountingMarks ==
    ASSUME NEW s \in Seq(Msgs), NEW m \in Msgs, NEW c \in Nat
    PROVE  c + Copies(m, s) > 0 <=> c > 0 \/ m \in Range(s)
<1>1. Copies(m, s) \in Nat /\ (m \in Range(s) => Copies(m, s) > 0)
  BY CopiesType
<1>2. ASSUME m \notin Range(s) PROVE Copies(m, s) = 0
  <2>1. {i \in DOMAIN s : s[i] = m} = {}
    BY <1>2 DEF Range
  <2> QED BY <2>1, FS_EmptySet DEF Copies
<1> QED BY <1>1, <1>2

\* Every step accepts a message, silences or delivers messages of the batch,
\* or moves messages around.
LEMMA Effects ==
    ASSUME TypeOK, Chosen, Phase, [Next]_vars
    PROVE  \/ \E m \in Msgs : Accepts(m)
           \/ \E B \in SUBSET Range(batch) : Silences(B)
           \/ Delivers(Range(batch))
           \/ MovesOnly
<1>t. /\ QueuesType /\ TurnType /\ SendingType /\ CountsType
  BY DEF TypeOK
<1>b. /\ batch \in Seq(Msgs) /\ queue \in [Receivers -> Seq(Msgs)]
      /\ Range(batch) \subseteq Msgs
  BY <1>t, RangeOfSeq DEF SendingType, QueuesType
<1>u. UNCHANGED <<queue, batch, stamp, delivered, silenced>> => MovesOnly
  BY DEF MovesOnly, Silences, Delivers, Accepted, InSystem, Waiting,
         DeliveredSet, SilencedSet
<1>1. ASSUME NEW m \in Msgs, EnqueueMessage(m) PROVE Accepts(m)
  <2>1. \A r \in Receivers :
           Waiting(r)' = IF r = To[m] THEN Waiting(r) \cup {m} ELSE Waiting(r)
    BY <1>1, EnqueueEffect DEF EnqueueMessage
  <2>2. batch' = batch /\ delivered' = delivered /\ silenced' = silenced
    BY <1>1 DEF EnqueueMessage, sending
  <2>3. To[m] \in Receivers
    BY MessagesAssumption
  <2>4. InSystem' = InSystem \cup {m}
    BY <2>1, <2>2, <2>3 DEF InSystem
  <2>5. /\ m \notin Accepted
        /\ Accepted' = Accepted \cup {m}
    <3>1. stamp \in [Msgs -> Nat] /\ enqueued \in Nat
      BY <1>t DEF CountsType
    <3>2. stamp[m] = 0 /\ stamp' = [stamp EXCEPT ![m] = enqueued + 1]
      BY <1>1 DEF EnqueueMessage
    <3> QED BY <3>1, <3>2 DEF Accepted
  <2> QED BY <2>2, <2>4, <2>5 DEF Accepts, DeliveredSet, SilencedSet
<1>2. CASE StartTurn
  BY <1>2, <1>u DEF StartTurn, sending, counts
<1>3. CASE Look
  BY <1>3, <1>u DEF Look, sending, counts
<1>4. CASE EndScan
  BY <1>4, <1>u DEF EndScan, sending, counts
<1>5. ASSUME NEW k \in 0..BatchSize, Dequeue(k) PROVE MovesOnly
  <2>1. PICK r \in Receivers : r = firstNonEmptyQueue
    BY <1>t, <1>5 DEF Dequeue, TurnType, Chosen
  <2>2. PICK s \in Seq(Msgs) : s = queue[r]
    BY <1>b
  <2>3. /\ batch' = Take(s)
        /\ queue' = [queue EXCEPT ![r] = LeftBehind(s, k)]
        /\ UNCHANGED <<stamp, delivered, silenced>>
        /\ k \in Nat /\ k <= Len(Take(s))
    BY <1>5, <2>1, <2>2, LimitsAssumption DEF Dequeue, IsCut
  <2>4. Range(s) = Range(Take(s)) \cup Range(LeftBehind(s, k))
    BY <2>3, DequeueKeeps
  <2>5. Range(batch) = {}
    BY <1>5, EmptySeq DEF Dequeue, Phase, Range
  <2>6. /\ Waiting(r)' = Range(LeftBehind(s, k)) /\ Waiting(r) = Range(s)
        /\ \A q \in Receivers \ {r} : Waiting(q)' = Waiting(q)
    BY <1>b, <2>2, <2>3 DEF Waiting
  <2>7. InSystem' = InSystem
    <3>1. \A m : m \in InSystem <=> \E q \in Receivers : m \in Waiting(q)
      BY <2>5 DEF InSystem
    <3>2. \A m : m \in InSystem' <=> m \in Range(Take(s)) \/ \E q \in Receivers : m \in Waiting(q)'
      BY <2>3 DEF InSystem
    <3>3. ASSUME NEW m, m \in InSystem PROVE m \in InSystem'
      <4>1. PICK q \in Receivers : m \in Waiting(q)
        BY <3>1, <3>3
      <4>2. CASE q = r
        BY <2>1, <2>4, <2>6, <3>2, <4>1, <4>2
      <4>3. CASE q # r
        BY <2>6, <3>2, <4>1, <4>3
      <4> QED BY <4>2, <4>3
    <3>4. ASSUME NEW m, m \in InSystem' PROVE m \in InSystem
      <4>1. m \in Range(Take(s)) => m \in Waiting(r)
        BY <2>4, <2>6
      <4>2. ASSUME NEW q \in Receivers, m \in Waiting(q)' PROVE m \in Waiting(q)
        BY <2>4, <2>6, <4>2
      <4> QED BY <3>1, <3>2, <3>4, <4>1, <4>2
    <3> QED BY <3>3, <3>4
  <2> QED BY <2>3, <2>7 DEF MovesOnly, Silences, Delivers, Accepted,
                            DeliveredSet, SilencedSet
<1>6. ASSUME NEW S \in SUBSET Silenceable, Filter(S)
      PROVE  Silences(S \cap Range(batch))
  <2> DEFINE keep == {i \in DOMAIN batch : batch[i] \notin S}
  <2>1. /\ batch' \in SortedSelections(batch, keep)
        /\ UNCHANGED <<queue, stamp, delivered>>
        /\ silenced' = [m \in Msgs |-> IF m \in S THEN silenced[m] + Copies(m, batch)
                                       ELSE silenced[m]]
    BY <1>6 DEF Filter
  <2>2. Range(batch') = {batch[i] : i \in keep}
    BY <1>b, <2>1, SelectionKeeps
  <2>3. Range(batch') = Range(batch) \ S
    BY <2>2 DEF Range
  <2>4. SilencedSet' = SilencedSet \cup (S \cap Range(batch))
    <3>1. silenced \in [Msgs -> Nat] /\ S \in SUBSET Msgs
      BY <1>t, MessagesAssumption DEF CountsType
    <3>2. ASSUME NEW m \in Msgs
          PROVE  silenced'[m] > 0 <=> silenced[m] > 0 \/ m \in S \cap Range(batch)
      <4>1. silenced'[m] = IF m \in S THEN silenced[m] + Copies(m, batch) ELSE silenced[m]
        BY <2>1
      <4>2. silenced[m] \in Nat
        BY <3>1
      <4>3. silenced[m] + Copies(m, batch) > 0 <=> silenced[m] > 0 \/ m \in Range(batch)
        BY <1>b, <4>2, CountingMarks
      <4> QED BY <4>1, <4>3
    <3> QED BY <1>b, <3>1, <3>2 DEF SilencedSet
  <2>5. InSystem' \subseteq InSystem /\ InSystem \subseteq InSystem' \cup (S \cap Range(batch))
    BY <2>1, <2>3 DEF InSystem, Waiting
  <2> QED BY <2>1, <2>4, <2>5 DEF Silences, Accepted, DeliveredSet
<1>7. CASE CannotSend
  BY <1>7, <1>u DEF CannotSend, counts
<1>d. DeliverBatch => DeliveredSet' = DeliveredSet \cup Range(batch)
  <2>1. delivered \in [Msgs -> Nat]
    BY <1>t DEF CountsType
  <2>2. SUFFICES ASSUME DeliverBatch
                 PROVE  DeliveredSet' = DeliveredSet \cup Range(batch)
    OBVIOUS
  <2>3. ASSUME NEW m \in Msgs
        PROVE  delivered'[m] > 0 <=> delivered[m] > 0 \/ m \in Range(batch)
    <3>1. delivered'[m] = delivered[m] + Copies(m, batch)
      BY <2>2 DEF DeliverBatch
    <3>2. delivered[m] \in Nat
      BY <2>1
    <3> QED BY <1>b, <3>1, <3>2, CountingMarks
  <2> QED BY <1>b, <2>3 DEF DeliveredSet
<1>8. CASE SendSucceeds
  <2>1. UNCHANGED <<queue, stamp, silenced>> /\ batch' = <<>> /\ DeliverBatch
    BY <1>8 DEF SendSucceeds
  <2>2. Range(batch') = {}
    BY <2>1, EmptySeq DEF Range
  <2> QED BY <1>d, <2>1, <2>2
          DEF Delivers, InSystem, Waiting, Accepted, SilencedSet
<1>9. ASSUME NEW reached \in BOOLEAN, SendFails(reached)
      PROVE  Delivers(Range(batch)) \/ MovesOnly
  <2>1. UNCHANGED <<queue, stamp, silenced, batch>>
        /\ (DeliverBatch \/ UNCHANGED delivered)
    BY <1>9 DEF SendFails
  <2> QED BY <1>d, <1>u, <2>1
          DEF Delivers, InSystem, Waiting, Accepted, SilencedSet
<1>10. CASE Requeue
  <2>1. /\ Head(batch) \in Msgs
        /\ Range(batch) = {Head(batch)} \cup Range(Tail(batch))
    BY <1>b, <1>10, RangeHeadTail DEF Requeue
  <2>2. Enqueue(Head(batch)) /\ batch' = Tail(batch) /\ UNCHANGED <<stamp, delivered, silenced>>
    BY <1>10 DEF Requeue, counts
  <2>3. \A r \in Receivers :
           Waiting(r)' = IF r = To[Head(batch)] THEN Waiting(r) \cup {Head(batch)}
                         ELSE Waiting(r)
    BY <2>1, <2>2, EnqueueEffect
  <2>4. To[Head(batch)] \in Receivers
    BY <2>1, MessagesAssumption
  <2>5. InSystem' = InSystem
    BY <2>1, <2>2, <2>3, <2>4 DEF InSystem
  <2> QED BY <2>2, <2>5 DEF MovesOnly, Silences, Delivers, Accepted,
                            DeliveredSet, SilencedSet
<1>11. CASE Tick
  BY <1>11, <1>u DEF Tick, sending, counts
<1>12. CASE UNCHANGED vars
  BY <1>12, <1>u DEF vars, sending, counts
<1> QED
  BY <1>1, <1>2, <1>3, <1>4, <1>5, <1>6, <1>7, <1>8, <1>9, <1>10, <1>11, <1>12
     DEF Next, PusherStep

-----------------------------------------------------------------------------
(* No message is lost.                                                     *)

\* The messages in the system, delivered or silenced are those accepted.
Accounted == Accepted = InSystem \cup DeliveredSet \cup SilencedSet

LEMMA PhaseStep == TypeOK /\ Phase /\ [Next]_vars => Phase'
<1> SUFFICES ASSUME TypeOK, Phase, [Next]_vars PROVE Phase'
  OBVIOUS
<1>1. ASSUME NEW m \in Msgs, EnqueueMessage(m) PROVE Phase'
  BY <1>1 DEF EnqueueMessage, Phase, sending
<1>2. CASE StartTurn
  BY <1>2 DEF StartTurn, Phase, sending
<1>3. CASE Look
  BY <1>3 DEF Look, Phase, sending
<1>4. CASE EndScan
  BY <1>4 DEF EndScan, Phase, sending
<1>5. ASSUME NEW k \in 0..BatchSize, Dequeue(k) PROVE Phase'
  BY <1>5 DEF Dequeue, Phase
<1>6. ASSUME NEW S \in SUBSET Silenceable, Filter(S) PROVE Phase'
  <2> DEFINE keep == {i \in DOMAIN batch : batch[i] \notin S}
  <2>1. /\ batch' \in SortedSelections(batch, keep)
        /\ pc' = IF keep = {} THEN "sleep" ELSE "send"
    BY <1>6 DEF Filter
  <2>2. batch \in Seq(Msgs)
    BY DEF TypeOK, SendingType
  <2>3. batch' = <<>> <=> keep = {}
    BY <2>1, <2>2, SelectionKeeps
  <2> HIDE DEF keep
  <2> QED BY <2>1, <2>3 DEF Phase
<1>7. CASE CannotSend
  BY <1>7 DEF CannotSend, Phase
<1>8. CASE SendSucceeds
  BY <1>8 DEF SendSucceeds, Phase
<1>9. ASSUME NEW reached \in BOOLEAN, SendFails(reached) PROVE Phase'
  BY <1>9 DEF SendFails, Phase
<1>10. CASE Requeue
  BY <1>10 DEF Requeue, Phase
<1>11. CASE Tick
  BY <1>11 DEF Tick, Phase, sending
<1>12. CASE UNCHANGED vars
  BY <1>12 DEF vars, Phase, sending
<1> QED
  BY <1>1, <1>2, <1>3, <1>4, <1>5, <1>6, <1>7, <1>8, <1>9, <1>10, <1>11, <1>12
     DEF Next, PusherStep

LEMMA AccountedStep ==
    TypeOK /\ Chosen /\ Phase /\ Accounted /\ [Next]_vars => Accounted'
<1> SUFFICES ASSUME TypeOK, Chosen, Phase, Accounted, [Next]_vars PROVE Accounted'
  OBVIOUS
<1>1. Range(batch) \subseteq InSystem
  BY DEF InSystem
<1>2. ASSUME NEW m \in Msgs, Accepts(m) PROVE Accounted'
  BY <1>2 DEF Accounted, Accepts
<1>3. ASSUME NEW B \in SUBSET Range(batch), Silences(B) PROVE Accounted'
  BY <1>1, <1>3 DEF Accounted, Silences
<1>4. ASSUME Delivers(Range(batch)) PROVE Accounted'
  BY <1>1, <1>4 DEF Accounted, Delivers
<1>5. ASSUME MovesOnly PROVE Accounted'
  BY <1>5 DEF Accounted, MovesOnly, Silences
<1> QED BY <1>2, <1>3, <1>4, <1>5, Effects

LEMMA EmptyAtFirst ==
    Init => /\ Phase /\ InSystem = {} /\ Accepted = {}
            /\ DeliveredSet = {} /\ SilencedSet = {}
<1> SUFFICES ASSUME Init
             PROVE  /\ Phase /\ InSystem = {} /\ Accepted = {}
                    /\ DeliveredSet = {} /\ SilencedSet = {}
  OBVIOUS
<1>1. Range(<<>>) = {}
  BY DEF Range
<1>2. batch = <<>> /\ \A r \in Receivers : queue[r] = <<>>
  BY DEF Init
<1>3. InSystem = {} /\ Phase
  BY <1>1, <1>2 DEF InSystem, Waiting, Phase
<1>4. Accepted = {} /\ DeliveredSet = {} /\ SilencedSet = {}
  BY DEF Init, Accepted, DeliveredSet, SilencedSet
<1> QED BY <1>3, <1>4

\* What holds of every reachable state.
MessagesInv == TypeOK /\ Chosen /\ Phase /\ Accounted

LEMMA MessagesInvariant == Spec => []MessagesInv
<1>1. Init => MessagesInv
  BY TypeInit, EmptyAtFirst DEF MessagesInv, Accounted
<1>2. MessagesInv /\ [Next]_vars => MessagesInv'
  BY TypeStep, PhaseStep, AccountedStep DEF MessagesInv
<1> QED BY <1>1, <1>2, PTL DEF Spec

\* Through batching, put-backs, failed attempts and re-enqueueing, no accepted
\* message disappears (telegram_pusher.go:106-192).
THEOREM NoMessageIsLost == Spec => []NothingLost
<1>1. MessagesInv => NothingLost
  BY DEF MessagesInv, Accounted, NothingLost
<1> QED BY <1>1, MessagesInvariant, PTL

-----------------------------------------------------------------------------
(* The push service implements AlertOutbox.                                *)

\* Messages wait in the queue of their receiver, a batch has one receiver.
Addressed ==
    /\ \A r \in Receivers : \A m \in Waiting(r) : To[m] = r
    /\ \A m, n \in Range(batch) : To[m] = To[n]

LEMMA AddressedStep ==
    TypeOK /\ Chosen /\ Addressed /\ [Next]_vars => Addressed'
<1> SUFFICES ASSUME TypeOK, Chosen, Addressed, [Next]_vars PROVE Addressed'
  OBVIOUS
<1>b. /\ batch \in Seq(Msgs) /\ queue \in [Receivers -> Seq(Msgs)]
      /\ Range(batch) \subseteq Msgs
  BY RangeOfSeq DEF TypeOK, SendingType, QueuesType
<1>u. UNCHANGED queue /\ Range(batch') \subseteq Range(batch) => Addressed'
  BY DEF Addressed, Waiting
<1>1. ASSUME NEW m \in Msgs, EnqueueMessage(m) PROVE Addressed'
  <2>1. \A r \in Receivers :
           Waiting(r)' = IF r = To[m] THEN Waiting(r) \cup {m} ELSE Waiting(r)
    BY <1>1, EnqueueEffect DEF EnqueueMessage
  <2>2. batch' = batch
    BY <1>1 DEF EnqueueMessage, sending
  <2> QED BY <2>1, <2>2 DEF Addressed
<1>2. CASE StartTurn
  BY <1>2, <1>u DEF StartTurn, sending
<1>3. CASE Look
  BY <1>3, <1>u DEF Look, sending
<1>4. CASE EndScan
  BY <1>4, <1>u DEF EndScan, sending
<1>5. ASSUME NEW k \in 0..BatchSize, Dequeue(k) PROVE Addressed'
  <2>1. PICK r \in Receivers : r = firstNonEmptyQueue
    BY <1>5 DEF Dequeue, TypeOK, TurnType, Chosen
  <2>2. PICK s \in Seq(Msgs) : s = queue[r]
    BY <1>b
  <2>3. /\ batch' = Take(s)
        /\ queue' = [queue EXCEPT ![r] = LeftBehind(s, k)]
        /\ k \in Nat /\ k <= Len(Take(s))
    BY <1>5, <2>1, <2>2, LimitsAssumption DEF Dequeue, IsCut
  <2>4. Range(Take(s)) \cup Range(LeftBehind(s, k)) \subseteq Range(s)
    BY <2>3, DequeueKeeps
  <2>5. \A m \in Range(s) : To[m] = r
    BY <2>2 DEF Addressed, Waiting
  <2>6. /\ Waiting(r)' = Range(LeftBehind(s, k))
        /\ \A q \in Receivers \ {r} : Waiting(q)' = Waiting(q)
    BY <1>b, <2>2, <2>3 DEF Waiting
  <2>7. \A q \in Receivers : \A m \in Waiting(q)' : To[m] = q
    BY <2>4, <2>5, <2>6 DEF Addressed
  <2>8. \A m \in Range(batch') : To[m] = r
    BY <2>3, <2>4, <2>5
  <2> QED BY <2>7, <2>8 DEF Addressed
<1>6. ASSUME NEW S \in SUBSET Silenceable, Filter(S) PROVE Addressed'
  <2> DEFINE keep == {i \in DOMAIN batch : batch[i] \notin S}
  <2>1. batch' \in SortedSelections(batch, keep) /\ UNCHANGED queue
    BY <1>6 DEF Filter
  <2>2. Range(batch') = {batch[i] : i \in keep}
    BY <1>b, <2>1, SelectionKeeps
  <2>3. Range(batch') \subseteq Range(batch)
    BY <2>2 DEF Range
  <2> QED BY <1>u, <2>1, <2>3
<1>7. CASE CannotSend
  BY <1>7, <1>u DEF CannotSend
<1>8. CASE SendSucceeds
  <2>1. UNCHANGED queue /\ Range(batch') = {}
    BY <1>8, EmptySeq DEF SendSucceeds, Range
  <2> QED BY <1>u, <2>1
<1>9. ASSUME NEW reached \in BOOLEAN, SendFails(reached) PROVE Addressed'
  BY <1>9, <1>u DEF SendFails
<1>10. CASE Requeue
  <2>1. /\ Head(batch) \in Msgs
        /\ Range(batch) = {Head(batch)} \cup Range(Tail(batch))
    BY <1>b, <1>10, RangeHeadTail DEF Requeue
  <2>2. Enqueue(Head(batch)) /\ batch' = Tail(batch)
    BY <1>10 DEF Requeue
  <2>3. \A r \in Receivers :
           Waiting(r)' = IF r = To[Head(batch)] THEN Waiting(r) \cup {Head(batch)}
                         ELSE Waiting(r)
    BY <2>1, <2>2, EnqueueEffect
  <2> QED BY <2>1, <2>2, <2>3 DEF Addressed
<1>11. CASE Tick
  BY <1>11, <1>u DEF Tick, sending
<1>12. CASE UNCHANGED vars
  BY <1>12, <1>u DEF vars, sending
<1> QED
  BY <1>1, <1>2, <1>3, <1>4, <1>5, <1>6, <1>7, <1>8, <1>9, <1>10, <1>11, <1>12
     DEF Next, PusherStep

LEMMA AddressedInvariant == Spec => []Addressed
<1>1. Init => Addressed
  BY EmptyAtFirst DEF InSystem, Addressed
<1>2. MessagesInv /\ Addressed /\ [Next]_vars => Addressed'
  BY AddressedStep DEF MessagesInv
<1> QED BY <1>1, <1>2, MessagesInvariant, PTL DEF Spec

\* A step of the pusher or of an enqueuer is a step of the outbox or leaves it
\* alone.
LEMMA OutboxStep ==
    MessagesInv /\ Addressed /\ [Next]_vars => [Outbox!Next]_(Outbox!outbox)
<1> SUFFICES ASSUME MessagesInv, Addressed, [Next]_vars
             PROVE  [Outbox!Next]_(Outbox!outbox)
  OBVIOUS
<1> DEFINE Owed == InSystem \ (DeliveredSet \cup SilencedSet)
<1>1. TypeOK /\ Chosen /\ Phase /\ Accounted
  BY DEF MessagesInv
<1>2. /\ Range(batch) \subseteq Msgs
      /\ Range(batch) \subseteq Owed \cup DeliveredSet \cup SilencedSet
  <2>1. Range(batch) \subseteq Msgs
    BY <1>1, RangeOfSeq DEF TypeOK, SendingType
  <2> QED BY <2>1 DEF InSystem
<1>3. ASSUME NEW m \in Msgs, Accepts(m) PROVE Outbox!Next
  <2>1. Outbox!Accept(m)
    BY <1>1, <1>3 DEF Accepts, Accounted, Outbox!Accept
  <2> QED BY <2>1 DEF Outbox!Next
<1>4. ASSUME NEW B \in SUBSET Range(batch), Silences(B) PROVE Outbox!Next
  <2>1. Outbox!Silence(B)
    BY <1>2, <1>4 DEF Silences, Outbox!Silence
  <2> QED BY <1>2, <2>1 DEF Outbox!Next
<1>5. ASSUME Delivers(Range(batch)) PROVE Outbox!Next \/ UNCHANGED Outbox!outbox
  <2>1. CASE Range(batch) = {}
    BY <1>5, <2>1 DEF Delivers, Outbox!outbox
  <2>2. ASSUME NEW m \in Range(batch) PROVE Outbox!Deliver(To[m], Range(batch))
    <3>1. \A n \in Range(batch) : To[n] = To[m]
      BY DEF Addressed
    <3> QED BY <1>2, <1>5, <3>1 DEF Delivers, Outbox!Deliver
  <2> QED BY <1>2, <2>1, <2>2 DEF Outbox!Next
<1>6. ASSUME MovesOnly PROVE UNCHANGED Outbox!outbox
  BY <1>6 DEF MovesOnly, Silences, Delivers, Outbox!outbox
<1> QED BY <1>1, <1>3, <1>4, <1>5, <1>6, Effects

\* The push service keeps the promise of AlertOutbox.
THEOREM PushServiceImplementsOutbox == Spec => ImplementsOutbox
<1>1. Init => Outbox!Init
  BY EmptyAtFirst DEF Outbox!Init
<1> QED BY <1>1, AddressedInvariant, OutboxStep, MessagesInvariant, PTL
        DEF Spec, ImplementsOutbox, Outbox!Spec

-----------------------------------------------------------------------------
(* The turns of a receiver.                                                *)

\* A queue that cooled down was not dequeued for as long.
CoolsDown == \A r \in Receivers : sinceTurn[r] + cool[r] >= Cooldown

\* A queue found eligible stays so until it is dequeued, whatever is enqueued.
Ready ==
    pc \in {"scan", "dequeue"} /\ firstNonEmptyQueue # NoReceiver
        => /\ sinceTurn[firstNonEmptyQueue] = Cooldown
           /\ queue[firstNonEmptyQueue] # <<>>

\* Enqueueing keeps both.
LEMMA EnqueueKeepsReady ==
    ASSUME TypeOK, CoolsDown, Ready, NEW m \in Msgs, Enqueue(m),
           UNCHANGED <<firstNonEmptyQueue, sinceTurn>>, pc' = pc \/ pc' = "sleep"
    PROVE  CoolsDown' /\ Ready'
<1>1. /\ To[m] \in Receivers /\ queue \in [Receivers -> Seq(Msgs)]
      /\ cool \in [Receivers -> 0..Cooldown]
      /\ sinceTurn \in [Receivers -> 0..Cooldown]
  BY MessagesAssumption DEF TypeOK, QueuesType, ClocksType
<1>2. /\ queue' = [queue EXCEPT ![To[m]] = Append(queue[To[m]], m)]
      /\ cool' = [cool EXCEPT ![To[m]] = Cooldown]
  BY DEF Enqueue
<1>3. CoolsDown'
  BY <1>1, <1>2, LimitsAssumption DEF CoolsDown
<1>4. \A r \in Receivers : queue[r] # <<>> => queue'[r] # <<>>
  <2>1. Append(queue[To[m]], m) # <<>>
    <3>1. queue[To[m]] \in Seq(Msgs)
      BY <1>1
    <3>2. Append(queue[To[m]], m) \in Seq(Msgs)
          /\ Len(Append(queue[To[m]], m)) = Len(queue[To[m]]) + 1
      BY <3>1, AppendProperties
    <3> QED BY <3>1, <3>2, EmptySeq, LenProperties
  <2>2. queue'[To[m]] = Append(queue[To[m]], m)
    BY <1>1, <1>2
  <2>3. \A r \in Receivers \ {To[m]} : queue'[r] = queue[r]
    BY <1>1, <1>2
  <2> QED BY <2>1, <2>2, <2>3
<1>5. Ready'
  BY <1>4 DEF Ready, TypeOK, TurnType
<1> QED BY <1>3, <1>5

LEMMA ReadyStep ==
    TypeOK /\ CoolsDown /\ Ready /\ [Next]_vars => CoolsDown' /\ Ready'
<1> SUFFICES ASSUME TypeOK, CoolsDown, Ready, [Next]_vars PROVE CoolsDown' /\ Ready'
  OBVIOUS
<1>t. /\ cool \in [Receivers -> 0..Cooldown]
      /\ sinceTurn \in [Receivers -> 0..Cooldown]
      /\ snap \in Seq(Receivers) /\ at \in Nat \ {0}
      /\ firstNonEmptyQueue \in Receivers \cup {NoReceiver}
      /\ batch \in Seq(Msgs) /\ queue \in [Receivers -> Seq(Msgs)]
  BY DEF TypeOK, ClocksType, TurnType, SendingType, QueuesType
<1>u. UNCHANGED <<cool, sinceTurn>> => CoolsDown'
  BY DEF CoolsDown
<1>r. UNCHANGED <<queue, sinceTurn, firstNonEmptyQueue>> /\
      (pc' \in {"scan", "dequeue"} => pc \in {"scan", "dequeue"}) => Ready'
  BY DEF Ready
<1>1. ASSUME NEW m \in Msgs, EnqueueMessage(m) PROVE CoolsDown' /\ Ready'
  BY <1>1, EnqueueKeepsReady DEF EnqueueMessage
<1>2. CASE StartTurn
  <2>1. UNCHANGED <<cool, sinceTurn>> /\ firstNonEmptyQueue' = NoReceiver
    BY <1>2 DEF StartTurn, clocks
  <2> QED BY <1>u, <2>1 DEF Ready
<1>3. CASE Look
  <2>1. UNCHANGED <<cool, sinceTurn, queue, pc>>
    BY <1>3 DEF Look, clocks
  <2>2. at \in 1..Len(snap)
    BY <1>t, <1>3, LenProperties DEF Look
  <2>3. PICK r \in Receivers : r = snap[at]
    BY <1>t, <2>2, ElementOfSeq
  <2>4. CASE Eligible(r)
    <3>1. firstNonEmptyQueue' = r
      BY <1>3, <2>3, <2>4 DEF Look
    <3>2. cool[r] = 0 /\ queue[r] # <<>>
      BY <2>4, EmptySeq DEF Eligible
    <3>3. sinceTurn[r] = Cooldown
      <4>1. sinceTurn[r] + 0 >= Cooldown
        BY <3>2 DEF CoolsDown
      <4> QED BY <1>t, <4>1, LimitsAssumption
    <3> QED BY <1>u, <2>1, <3>1, <3>2, <3>3 DEF Ready
  <2>5. CASE ~Eligible(r)
    BY <1>3, <1>u, <1>r, <2>1, <2>3, <2>5 DEF Look
  <2> QED BY <2>4, <2>5
<1>4. CASE EndScan
  <2>1. UNCHANGED <<queue, cool, sinceTurn, firstNonEmptyQueue>> /\ pc = "scan"
    BY <1>4 DEF EndScan, clocks
  <2> QED BY <1>u, <1>r, <2>1
<1>5. ASSUME NEW k \in 0..BatchSize, Dequeue(k) PROVE CoolsDown' /\ Ready'
  <2>1. /\ cool' = [cool EXCEPT ![firstNonEmptyQueue] = Cooldown]
        /\ sinceTurn' = [sinceTurn EXCEPT ![firstNonEmptyQueue] = 0]
        /\ pc' \in {"sleep", "filter"}
    BY <1>5 DEF Dequeue
  <2>2. CoolsDown'
    BY <1>t, <2>1, LimitsAssumption DEF CoolsDown
  <2> QED BY <2>1, <2>2 DEF Ready
<1>6. ASSUME NEW S \in SUBSET Silenceable, Filter(S) PROVE CoolsDown' /\ Ready'
  <2>1. UNCHANGED <<cool, sinceTurn>> /\ pc' \in {"sleep", "send"}
    BY <1>6 DEF Filter, clocks
  <2> QED BY <1>u, <2>1 DEF Ready
<1>7. CASE CannotSend
  <2>1. UNCHANGED <<cool, sinceTurn>> /\ pc' = "requeue"
    BY <1>7 DEF CannotSend, clocks
  <2> QED BY <1>u, <2>1 DEF Ready
<1>8. CASE SendSucceeds
  <2>1. UNCHANGED <<cool, sinceTurn>> /\ pc' = "sleep"
    BY <1>8 DEF SendSucceeds
  <2> QED BY <1>u, <2>1 DEF Ready
<1>9. ASSUME NEW reached \in BOOLEAN, SendFails(reached) PROVE CoolsDown' /\ Ready'
  <2>1. UNCHANGED <<cool, sinceTurn>> /\ pc' \in {"send", "requeue"}
    BY <1>9 DEF SendFails
  <2> QED BY <1>u, <2>1 DEF Ready
<1>10. CASE Requeue
  <2>1. Head(batch) \in Msgs
    BY <1>t, <1>10, RangeHeadTail DEF Requeue
  <2>2. /\ Enqueue(Head(batch)) /\ (pc' = pc \/ pc' = "sleep")
        /\ UNCHANGED <<firstNonEmptyQueue, sinceTurn>>
    BY <1>10 DEF Requeue
  <2> QED BY <2>1, <2>2, EnqueueKeepsReady
<1>11. CASE Tick
  <2>1. /\ cool' = [r \in Receivers |-> Minus1(cool[r])]
        /\ sinceTurn' = [r \in Receivers |-> Plus1(sinceTurn[r], Cooldown)]
        /\ UNCHANGED <<queue, pc, firstNonEmptyQueue>>
    BY <1>11 DEF Tick, turn
  <2>2. ASSUME NEW r \in Receivers
        PROVE  /\ sinceTurn'[r] + cool'[r] >= Cooldown
               /\ sinceTurn[r] = Cooldown => sinceTurn'[r] = Cooldown
    BY <1>t, <2>1, LimitsAssumption DEF CoolsDown, Minus1, Plus1
  <2>3. CoolsDown'
    BY <2>2 DEF CoolsDown
  <2> QED BY <1>t, <2>1, <2>2, <2>3 DEF Ready
<1>12. CASE UNCHANGED vars
  BY <1>12, <1>u, <1>r DEF vars, clocks, turn
<1> QED
  BY <1>1, <1>2, <1>3, <1>4, <1>5, <1>6, <1>7, <1>8, <1>9, <1>10, <1>11, <1>12
     DEF Next, PusherStep

LEMMA ReadyInvariant == Spec => [](TypeOK /\ Chosen /\ CoolsDown /\ Ready)
<1>1. Init => CoolsDown /\ Ready
  BY LimitsAssumption DEF Init, CoolsDown, Ready
<1> QED BY <1>1, TypeInit, TypeStep, ReadyStep, PTL DEF Spec

\* Two batches of a receiver are taken at least the cooldown apart
\* (receiver_based_queue.go:83, telegram_pusher.go:99).
THEOREM TurnsAreSpaced == Spec => []TurnsOfReceiverSpaced
<1>1. TypeOK /\ Chosen /\ Ready => TurnsOfReceiverSpaced
  BY LimitsAssumption DEF Chosen, Ready, TurnsOfReceiverSpaced
<1> QED BY <1>1, ReadyInvariant, PTL

\* What is enqueued while the pusher chooses never makes its choice an empty
\* queue (telegram_pusher.go:114).
THEOREM ChosenQueueHasMessages == Spec => []NoUnexpectedNoMessage
<1>1. Chosen /\ Ready => NoUnexpectedNoMessage
  BY DEF Chosen, Ready, NoUnexpectedNoMessage
<1> QED BY <1>1, ReadyInvariant, PTL

-----------------------------------------------------------------------------
(* The lists of queues, and the snapshot of a turn.                        *)

LEMMA InjectiveAppend ==
    ASSUME NEW S, NEW s \in Seq(S), NEW e \in S, e \notin Range(s), IsInjective(s)
    PROVE  IsInjective(Append(s, e))
<1>1. /\ DOMAIN s = 1..Len(s) /\ Len(s) \in Nat
      /\ DOMAIN Append(s, e) = 1..(Len(s) + 1)
      /\ \A i \in 1..Len(s) : Append(s, e)[i] = s[i]
      /\ Append(s, e)[Len(s) + 1] = e
  BY AppendProperties, LenProperties
<1>2. \A i \in 1..Len(s) : s[i] # e
  BY <1>1 DEF Range
<1> SUFFICES ASSUME NEW a \in 1..(Len(s) + 1), NEW b \in 1..(Len(s) + 1),
                    Append(s, e)[a] = Append(s, e)[b]
             PROVE  a = b
  BY <1>1 DEF IsInjective
<1>3. CASE a \in 1..Len(s) /\ b \in 1..Len(s)
  BY <1>1, <1>3 DEF IsInjective
<1>4. CASE a = Len(s) + 1 /\ b \in 1..Len(s)
  BY <1>1, <1>2, <1>4
<1>5. CASE a \in 1..Len(s) /\ b = Len(s) + 1
  BY <1>1, <1>2, <1>5
<1>6. CASE a = Len(s) + 1 /\ b = Len(s) + 1
  BY <1>6
<1> QED BY <1>1, <1>3, <1>4, <1>5, <1>6

LEMMA InjectiveConcat ==
    ASSUME NEW S, NEW s \in Seq(S), NEW t \in Seq(S),
           IsInjective(s), IsInjective(t), Range(s) \cap Range(t) = {}
    PROVE  IsInjective(s \o t) /\ Range(s \o t) \subseteq Range(s) \cup Range(t)
<1> DEFINE c == s \o t
<1>1. /\ DOMAIN s = 1..Len(s) /\ DOMAIN t = 1..Len(t) /\ Len(s) \in Nat /\ Len(t) \in Nat
      /\ DOMAIN c = 1..(Len(s) + Len(t))
      /\ \A i \in 1..(Len(s) + Len(t)) : c[i] = IF i <= Len(s) THEN s[i] ELSE t[i - Len(s)]
  BY ConcatProperties, LenProperties
<1> HIDE DEF c
<1>2. ASSUME NEW i \in DOMAIN c
      PROVE  \/ i \in DOMAIN s /\ c[i] = s[i]
             \/ i - Len(s) \in DOMAIN t /\ c[i] = t[i - Len(s)] /\ i > Len(s)
  BY <1>1
<1>3. ASSUME NEW a \in DOMAIN c, NEW b \in DOMAIN c, c[a] = c[b] PROVE a = b
  <2>0. a \in Int /\ b \in Int
    BY <1>1
  <2>1. CASE a \in DOMAIN s /\ c[a] = s[a] /\ b \in DOMAIN s /\ c[b] = s[b]
    BY <1>3, <2>1 DEF IsInjective
  <2>2. CASE a - Len(s) \in DOMAIN t /\ c[a] = t[a - Len(s)] /\ b - Len(s) \in DOMAIN t /\ c[b] = t[b - Len(s)]
    <3>1. a - Len(s) = b - Len(s)
      BY <1>3, <2>2 DEF IsInjective
    <3> QED BY <1>1, <2>0, <3>1
  <2>3. CASE \/ a \in DOMAIN s /\ c[a] = s[a] /\ b - Len(s) \in DOMAIN t /\ c[b] = t[b - Len(s)]
             \/ b \in DOMAIN s /\ c[b] = s[b] /\ a - Len(s) \in DOMAIN t /\ c[a] = t[a - Len(s)]
    BY <1>3, <2>3 DEF Range
  <2> QED BY <1>2, <2>1, <2>2, <2>3
<1>4. Range(c) \subseteq Range(s) \cup Range(t)
  BY <1>2 DEF Range
<1> QED BY <1>3, <1>4 DEF IsInjective, c

Listed ==
    /\ \A r \in Receivers : queue[r] # <<>> => r \in InUse
    /\ IsInjective(priorityQueue) /\ IsInjective(nonPriorityQueue)
    /\ Range(priorityQueue) \cap Range(nonPriorityQueue) = {}

ListsInv == Listed /\ SnapshotSound

\* A new queue is put in one list; in the snapshot it takes the place of a queue.
LEMMA EnqueueKeepsLists ==
    ASSUME TypeOK, ListsInv, NEW m \in Msgs, Enqueue(m) PROVE ListsInv'
<1> DEFINE r == To[m]
<1>0. /\ r \in Receivers /\ queue \in [Receivers -> Seq(Msgs)]
      /\ priorityQueue \in Seq(Receivers) /\ nonPriorityQueue \in Seq(Receivers)
      /\ snap \in Seq(Receivers)
  BY MessagesAssumption DEF TypeOK, QueuesType, TurnType
<1>1. \A q \in Receivers : q # r => queue'[q] = queue[q]
  BY <1>0 DEF Enqueue
<1>2. CASE r \in InUse
  <2>1. UNCHANGED <<priorityQueue, nonPriorityQueue, snap>>
    BY <1>2 DEF Enqueue, lists
  <2> QED BY <1>1, <1>2, <2>1 DEF ListsInv, Listed, SnapshotSound, InUse
<1>3. CASE r \notin InUse
  <2>1. /\ Range(Append(priorityQueue, r)) = Range(priorityQueue) \cup {r}
        /\ Range(Append(nonPriorityQueue, r)) = Range(nonPriorityQueue) \cup {r}
        /\ IsInjective(Append(priorityQueue, r)) /\ IsInjective(Append(nonPriorityQueue, r))
    BY <1>0, <1>3, RangeAppend, InjectiveAppend DEF ListsInv, Listed, InUse
  <2>2. \/ priorityQueue' = Append(priorityQueue, r) /\ UNCHANGED nonPriorityQueue
        \/ nonPriorityQueue' = Append(nonPriorityQueue, r) /\ UNCHANGED priorityQueue
    BY <1>3 DEF Enqueue
  <2>3. InUse' = InUse \cup {r}
    BY <2>1, <2>2 DEF InUse
  <2>4. Listed'
    <3>1. \A q \in Receivers : queue'[q] # <<>> => q \in InUse'
      BY <1>1, <2>3 DEF ListsInv, Listed
    <3>2. IsInjective(priorityQueue') /\ IsInjective(nonPriorityQueue')
      BY <2>1, <2>2 DEF ListsInv, Listed
    <3>3. Range(priorityQueue') \cap Range(nonPriorityQueue') = {}
      <4>1. CASE priorityQueue' = Append(priorityQueue, r) /\ UNCHANGED nonPriorityQueue
        BY <1>3, <2>1, <4>1 DEF ListsInv, Listed, InUse
      <4>2. CASE nonPriorityQueue' = Append(nonPriorityQueue, r) /\ UNCHANGED priorityQueue
        BY <1>3, <2>1, <4>2 DEF ListsInv, Listed, InUse
      <4> QED BY <2>2, <4>1, <4>2
    <3> QED BY <3>1, <3>2, <3>3 DEF Listed
  <2>5. UNCHANGED snap \/ \E n : snap' = [snap EXCEPT ![n] = r]
    BY <1>3 DEF Enqueue
  <2>6. r \notin Range(snap)
    BY <1>3 DEF ListsInv, SnapshotSound
  <2>7. SnapshotSound'
    <3>1. ASSUME NEW n, snap' = [snap EXCEPT ![n] = r] PROVE SnapshotSound'
      <4>1. /\ DOMAIN snap' = DOMAIN snap
            /\ \A i \in DOMAIN snap : snap'[i] = IF i = n THEN r ELSE snap[i]
        BY <3>1
      <4>2. \A i \in DOMAIN snap : snap[i] # r
        BY <2>6 DEF Range
      <4>3. IsInjective(snap')
        BY <4>1, <4>2 DEF ListsInv, SnapshotSound, IsInjective
      <4>4. Range(snap') \subseteq Range(snap) \cup {r}
        BY <4>1 DEF Range
      <4> QED BY <2>3, <4>3, <4>4 DEF ListsInv, SnapshotSound
    <3> QED BY <2>3, <2>5, <3>1 DEF ListsInv, SnapshotSound
  <2> QED BY <2>4, <2>7 DEF ListsInv
<1> QED BY <1>2, <1>3

LEMMA ListsStep == TypeOK /\ Chosen /\ Ready /\ ListsInv /\ [Next]_vars => ListsInv'
<1> SUFFICES ASSUME TypeOK, Chosen, Ready, ListsInv, [Next]_vars PROVE ListsInv'
  OBVIOUS
<1>0. /\ queue \in [Receivers -> Seq(Msgs)]
      /\ priorityQueue \in Seq(Receivers) /\ nonPriorityQueue \in Seq(Receivers)
  BY DEF TypeOK, QueuesType
<1>1. ASSUME NEW m \in Msgs, EnqueueMessage(m) PROVE ListsInv'
  BY <1>1, EnqueueKeepsLists DEF EnqueueMessage
<1>2. CASE StartTurn
  <2>1. /\ UNCHANGED <<queue, priorityQueue, nonPriorityQueue>>
        /\ snap' = priorityQueue \o nonPriorityQueue
    BY <1>2 DEF StartTurn, lists
  <2>2. IsInjective(snap') /\ Range(snap') \subseteq InUse
    BY <1>0, <2>1, InjectiveConcat DEF ListsInv, Listed, InUse
  <2> QED BY <2>1, <2>2 DEF ListsInv, Listed, SnapshotSound, InUse
<1>3. CASE EndScan
  <2>1. /\ UNCHANGED <<queue, priorityQueue, nonPriorityQueue>> /\ snap' = <<>>
    BY <1>3 DEF EndScan, lists
  <2>2. IsInjective(snap') /\ Range(snap') = {}
    BY <2>1 DEF IsInjective, Range
  <2> QED BY <2>1, <2>2 DEF ListsInv, Listed, SnapshotSound, InUse
<1>4. ASSUME NEW k \in 0..BatchSize, Dequeue(k) PROVE ListsInv'
  <2>1. /\ UNCHANGED <<priorityQueue, nonPriorityQueue, snap>>
        /\ \A q \in Receivers : q # firstNonEmptyQueue => queue'[q] = queue[q]
        /\ pc = "dequeue"
    BY <1>0, <1>4 DEF Dequeue, lists, turn
  <2>2. firstNonEmptyQueue \in Receivers => firstNonEmptyQueue \in InUse
    BY <2>1 DEF Ready, Chosen, ListsInv, Listed
  <2> QED BY <2>1, <2>2 DEF ListsInv, Listed, SnapshotSound, InUse
<1>5. CASE Requeue
  <2>1. Head(batch) \in Msgs /\ Enqueue(Head(batch))
    BY <1>5, RangeHeadTail DEF Requeue, TypeOK, SendingType
  <2> QED BY <2>1, EnqueueKeepsLists
<1>6. CASE UNCHANGED <<queue, priorityQueue, nonPriorityQueue, snap>>
  BY <1>6 DEF ListsInv, Listed, SnapshotSound, InUse
<1> QED
  BY <1>1, <1>2, <1>3, <1>4, <1>5, <1>6
     DEF Next, PusherStep, Look, Filter, CannotSend, SendSucceeds, SendFails, Tick, lists, turn, vars

LEMMA ListsInvariant == Spec => []ListsInv
<1>1. Init => ListsInv
  BY DEF Init, ListsInv, Listed, SnapshotSound, IsInjective, Range, InUse
<1> QED BY <1>1, ListsStep, ReadyInvariant, PTL DEF Spec

\* Whoever enqueues at whatever moment, a queue with messages is in exactly one
\* list, once, and holds messages of its receiver (telegram_pusher.go:51-61).
THEOREM NoQueueIsOrphaned == Spec => []NoOrphanQueue
<1>1. Listed /\ Addressed => NoOrphanQueue
  BY DEF Listed, Addressed, NoOrphanQueue
<1> QED BY <1>1, AddressedInvariant, ListsInvariant, PTL DEF ListsInv

\* The snapshot of a turn names queues, none twice, although an enqueue may
\* write into it (telegram_pusher.go:57, 199).
THEOREM SnapshotsAreSound == Spec => []SnapshotSound
BY ListsInvariant, PTL DEF ListsInv

-----------------------------------------------------------------------------
(* Where the copies of a message are.                                      *)

\* A bijection keeps the number of elements.
LEMMA SameCount ==
    ASSUME NEW S, NEW T, IsFiniteSet(S), NEW f \in [S -> T],
           \A a, b \in S : f[a] = f[b] => a = b,
           \A c \in T : \E a \in S : f[a] = c
    PROVE  IsFiniteSet(T) /\ Cardinality(T) = Cardinality(S)
<1>1. f \in Injection(S, T) /\ f \in Surjection(S, T)
  BY DEF Injection, Surjection, IsInjective
<1> QED BY <1>1, FS_Surjection

\* The copies in a sequence are those in its two parts.
LEMMA CopiesOfParts ==
    ASSUME NEW m \in Msgs, NEW s \in Seq(Msgs), NEW t \in Seq(Msgs), NEW u \in Seq(Msgs),
           Len(s) = Len(t) + Len(u),
           \A i \in 1..Len(t) : s[i] = t[i],
           \A i \in 1..Len(u) : s[Len(t) + i] = u[i]
    PROVE  Copies(m, s) = Copies(m, t) + Copies(m, u)
<1> DEFINE A == {i \in DOMAIN s : s[i] = m}
           B == {i \in DOMAIN t : t[i] = m}
           C == {i \in DOMAIN u : u[i] = m}
           D == {Len(t) + i : i \in C}
<1>1. /\ DOMAIN s = 1..Len(s) /\ DOMAIN t = 1..Len(t) /\ DOMAIN u = 1..Len(u)
      /\ Len(s) \in Nat /\ Len(t) \in Nat /\ Len(u) \in Nat
  BY LenProperties
<1>2. IsFiniteSet(B) /\ IsFiniteSet(C)
  <2>1. IsFiniteSet(1..Len(t)) /\ IsFiniteSet(1..Len(u))
    BY <1>1, FS_Interval
  <2> QED BY <1>1, <2>1, FS_Subset
<1>3. IsFiniteSet(D) /\ Cardinality(D) = Cardinality(C)
  <2> DEFINE f == [i \in C |-> Len(t) + i]
  <2>1. f \in [C -> D]
    OBVIOUS
  <2>2. \A a, b \in C : f[a] = f[b] => a = b
    BY <1>1
  <2>3. \A d \in D : \E a \in C : f[a] = d
    OBVIOUS
  <2> HIDE DEF C, D, f
  <2> QED BY <1>2, <2>1, <2>2, <2>3, SameCount
<1>4. A = B \cup D
  <2>1. ASSUME NEW i \in A PROVE i \in B \cup D
    <3>1. CASE i <= Len(t)
      BY <1>1, <3>1
    <3>2. CASE i > Len(t)
      <4>1. i - Len(t) \in C /\ i = Len(t) + (i - Len(t))
        BY <1>1, <3>2
      <4> QED BY <4>1
    <3> QED BY <1>1, <3>1, <3>2
  <2>2. B \subseteq A
    BY <1>1
  <2>3. D \subseteq A
    BY <1>1
  <2> QED BY <2>1, <2>2, <2>3
<1>5. B \cap D = {}
  BY <1>1
<1> HIDE DEF A, B, C, D
<1>6. Cardinality(A) = Cardinality(B) + Cardinality(D)
  <2>1. Cardinality(B \cap D) = 0
    BY <1>5, FS_EmptySet
  <2>2. Cardinality(B) \in Nat /\ Cardinality(D) \in Nat
    BY <1>2, <1>3, FS_CardinalityType
  <2>3. Cardinality(B \cup D) = Cardinality(B) + Cardinality(D) - Cardinality(B \cap D)
    BY <1>2, <1>3, FS_Union
  <2> QED BY <1>4, <2>1, <2>2, <2>3
<1> QED BY <1>3, <1>6 DEF Copies, A, B, C

LEMMA CopiesEmpty == \A m : Copies(m, <<>>) = 0
<1> TAKE m
<1>1. {i \in DOMAIN <<>> : <<>>[i] = m} = {}
  OBVIOUS
<1> QED BY <1>1, FS_EmptySet DEF Copies

LEMMA CopiesOfOne ==
    ASSUME NEW m \in Msgs, NEW e \in Msgs
    PROVE  Copies(m, <<e>>) = IF m = e THEN 1 ELSE 0
<1>1. DOMAIN <<e>> = {1} /\ <<e>>[1] = e
  OBVIOUS
<1>2. {i \in DOMAIN <<e>> : <<e>>[i] = m} = IF m = e THEN {1} ELSE {}
  BY <1>1
<1> QED BY <1>2, FS_EmptySet, FS_Singleton DEF Copies

LEMMA CopiesAppended ==
    ASSUME NEW m \in Msgs, NEW s \in Seq(Msgs), NEW e \in Msgs
    PROVE  Copies(m, Append(s, e)) = Copies(m, s) + (IF m = e THEN 1 ELSE 0)
<1> DEFINE u == <<e>>
<1>1. u \in Seq(Msgs) /\ Len(u) = 1 /\ u[1] = e
  OBVIOUS
<1>2. /\ Append(s, e) \in Seq(Msgs) /\ Len(Append(s, e)) = Len(s) + 1
      /\ \A i \in 1..Len(s) : Append(s, e)[i] = s[i]
      /\ Append(s, e)[Len(s) + 1] = e
  BY AppendProperties
<1>3. Copies(m, u) = IF m = e THEN 1 ELSE 0
  BY CopiesOfOne
<1> DEFINE t == Append(s, e)
<1>4. Len(s) \in Nat
  BY LenProperties
<1> HIDE DEF u, t
<1>5. /\ t \in Seq(Msgs) /\ Len(t) = Len(s) + Len(u)
      /\ \A i \in 1..Len(s) : t[i] = s[i]
      /\ \A i \in 1..Len(u) : t[Len(s) + i] = u[i]
  BY <1>1, <1>2, <1>4 DEF t
<1>6. Copies(m, t) = Copies(m, s) + Copies(m, u)
  BY <1>1, <1>5, CopiesOfParts
<1> QED BY <1>3, <1>6 DEF t

LEMMA CopiesHeadTail ==
    ASSUME NEW m \in Msgs, NEW s \in Seq(Msgs), s # <<>>
    PROVE  Copies(m, s) = (IF m = Head(s) THEN 1 ELSE 0) + Copies(m, Tail(s))
<1> DEFINE t == <<Head(s)>>
<1>1. /\ Head(s) \in Msgs /\ Tail(s) \in Seq(Msgs) /\ Len(Tail(s)) = Len(s) - 1
      /\ \A i \in 1..Len(Tail(s)) : Tail(s)[i] = s[i + 1]
      /\ Head(s) = s[1]
  BY HeadTailProperties
<1>2. t \in Seq(Msgs) /\ Len(t) = 1 /\ t[1] = s[1]
  BY <1>1
<1>3. Copies(m, t) = IF m = Head(s) THEN 1 ELSE 0
  BY <1>1, CopiesOfOne
<1>4. Len(s) \in Nat
  BY LenProperties
<1> HIDE DEF t
<1>5. /\ Len(s) = Len(t) + Len(Tail(s))
      /\ \A i \in 1..Len(t) : s[i] = t[i]
      /\ \A i \in 1..Len(Tail(s)) : s[Len(t) + i] = Tail(s)[i]
  BY <1>1, <1>2, <1>4
<1>6. Copies(m, s) = Copies(m, t) + Copies(m, Tail(s))
  <2> DEFINE u == Tail(s)
  <2>1. u \in Seq(Msgs)
    BY <1>1
  <2>2. /\ Len(s) = Len(t) + Len(u)
        /\ \A i \in 1..Len(t) : s[i] = t[i]
        /\ \A i \in 1..Len(u) : s[Len(t) + i] = u[i]
    BY <1>5
  <2> HIDE DEF u
  <2>3. Copies(m, s) = Copies(m, t) + Copies(m, u)
    BY <1>2, <2>1, <2>2, CopiesOfParts
  <2> QED BY <2>3 DEF u
<1> QED BY <1>3, <1>6

\* A dequeue hands out copies and leaves the others; what it puts back is
\* counted twice.
LEMMA CopiesOfDequeue ==
    ASSUME NEW m \in Msgs, NEW s \in Seq(Msgs), NEW k \in Nat, k <= Len(Take(s))
    PROVE  Copies(m, Take(s)) + Copies(m, LeftBehind(s, k))
              = Copies(m, s) + Copies(m, TooLong(s, k))
<1> DEFINE n == IF BatchSize < Len(s) THEN BatchSize ELSE Len(s)
<1>1. Len(s) \in Nat /\ n \in 0..Len(s)
  BY LenProperties, LimitsAssumption
<1>2. \A i \in 1..Len(s) : s[i] \in Msgs
  BY ElementOfSeq
<1> HIDE DEF n
<1>3. /\ SubSeq(s, 1, n) \in Seq(Msgs) /\ Len(SubSeq(s, 1, n)) = n
      /\ \A i \in 1..n : SubSeq(s, 1, n)[i] = s[i]
  BY <1>1, <1>2, SubSeqProperties
<1>4. Take(s) = SubSeq(s, 1, n) /\ Rest(s) = SubSeq(s, n + 1, Len(s))
  BY <1>3 DEF Take, Rest, n
<1>a. /\ Take(s) \in Seq(Msgs) /\ Len(Take(s)) = n
      /\ \A i \in 1..n : Take(s)[i] = s[i]
  BY <1>3, <1>4
<1>5. /\ Rest(s) \in Seq(Msgs) /\ Len(Rest(s)) = Len(s) - n
      /\ \A i \in 1..Len(s) - n : Rest(s)[i] = s[n + i]
  <2>1. /\ SubSeq(s, n + 1, Len(s)) \in Seq(Msgs)
        /\ Len(SubSeq(s, n + 1, Len(s))) = IF n + 1 <= Len(s) THEN Len(s) - (n + 1) + 1 ELSE 0
        /\ \A i \in 1..Len(s) - (n + 1) + 1 : SubSeq(s, n + 1, Len(s))[i] = s[n + 1 + i - 1]
    BY <1>1, <1>2, SubSeqProperties
  <2> QED BY <1>1, <1>4, <2>1
<1>6. Copies(m, s) = Copies(m, Take(s)) + Copies(m, Rest(s))
  <2>1. Take(s) \in Seq(Msgs) /\ Len(s) = Len(Take(s)) + Len(Rest(s))
    BY <1>1, <1>a, <1>5
  <2>2. \A i \in 1..Len(Take(s)) : s[i] = Take(s)[i]
    BY <1>a
  <2>3. \A i \in 1..Len(Rest(s)) : s[Len(Take(s)) + i] = Rest(s)[i]
    BY <1>a, <1>5
  <2> DEFINE t == Take(s)
             u == Rest(s)
  <2>4. t \in Seq(Msgs) /\ u \in Seq(Msgs) /\ Len(s) = Len(t) + Len(u)
    BY <1>5, <2>1
  <2>5. /\ \A i \in 1..Len(t) : s[i] = t[i]
        /\ \A i \in 1..Len(u) : s[Len(t) + i] = u[i]
    BY <2>2, <2>3
  <2> HIDE DEF t, u
  <2>6. Copies(m, s) = Copies(m, t) + Copies(m, u)
    BY <2>4, <2>5, CopiesOfParts
  <2> QED BY <2>6 DEF t, u
<1>7. Copies(m, LeftBehind(s, k)) = Copies(m, TooLong(s, k)) + Copies(m, Rest(s))
  <2>1. TooLong(s, k) \in Seq(Msgs) /\ LeftBehind(s, k) \in Seq(Msgs)
    BY DequeueKeeps
  <2>2. LeftBehind(s, k) = TooLong(s, k) \o Rest(s)
    BY DEF LeftBehind
  <2>3. Len(TooLong(s, k)) \in Nat /\ Len(Rest(s)) \in Nat
    BY <1>5, <2>1, LenProperties
  <2>4. /\ Len(LeftBehind(s, k)) = Len(TooLong(s, k)) + Len(Rest(s))
        /\ \A i \in 1..Len(TooLong(s, k)) : LeftBehind(s, k)[i] = TooLong(s, k)[i]
        /\ \A i \in 1..Len(Rest(s)) :
              LeftBehind(s, k)[Len(TooLong(s, k)) + i] = Rest(s)[i]
    <3> DEFINE v == TooLong(s, k)
               u == Rest(s)
    <3>1. v \in Seq(Msgs) /\ u \in Seq(Msgs) /\ Len(v) \in Nat /\ Len(u) \in Nat
      BY <1>5, <2>1, <2>3
    <3> HIDE DEF v, u
    <3>2. /\ Len(v \o u) = Len(v) + Len(u)
          /\ \A i \in 1..Len(v) + Len(u) :
                (v \o u)[i] = IF i <= Len(v) THEN v[i] ELSE u[i - Len(v)]
      BY <3>1, ConcatProperties
    <3>3. /\ \A i \in 1..Len(v) : (v \o u)[i] = v[i]
          /\ \A i \in 1..Len(u) : (v \o u)[Len(v) + i] = u[i]
      BY <3>1, <3>2
    <3> QED BY <2>2, <3>2, <3>3 DEF v, u
  <2> DEFINE l == LeftBehind(s, k)
             t == TooLong(s, k)
             u == Rest(s)
  <2>5. l \in Seq(Msgs) /\ t \in Seq(Msgs) /\ u \in Seq(Msgs) /\ Len(l) = Len(t) + Len(u)
    BY <1>5, <2>1, <2>4
  <2>6. /\ \A i \in 1..Len(t) : l[i] = t[i]
        /\ \A i \in 1..Len(u) : l[Len(t) + i] = u[i]
    BY <2>4
  <2> HIDE DEF l, t, u
  <2>7. Copies(m, l) = Copies(m, t) + Copies(m, u)
    BY <2>5, <2>6, CopiesOfParts
  <2> QED BY <2>7 DEF l, t, u
<1>8. /\ Copies(m, Take(s)) \in Nat /\ Copies(m, Rest(s)) \in Nat
      /\ Copies(m, TooLong(s, k)) \in Nat
  BY <1>5, CopiesType, DequeueKeeps
<1> QED BY <1>6, <1>7, <1>8

\* Filtering a batch keeps every copy of what is not silenced.
LEMMA CopiesOfSelection ==
    ASSUME NEW m \in Msgs, NEW s \in Seq(Msgs), NEW S,
           NEW t \in SortedSelections(s, {i \in DOMAIN s : s[i] \notin S})
    PROVE  Copies(m, t) = IF m \in S THEN 0 ELSE Copies(m, s)
<1> DEFINE keep == {i \in DOMAIN s : s[i] \notin S}
           n == Cardinality(keep)
           T == {i \in DOMAIN t : t[i] = m}
           K == {i \in DOMAIN s : s[i] = m}
<1>1. DOMAIN s = 1..Len(s) /\ Len(s) \in Nat /\ IsFiniteSet(DOMAIN s)
  <2>1. DOMAIN s = 1..Len(s) /\ Len(s) \in Nat
    BY LenProperties
  <2> QED BY <2>1, FS_Interval
<1>3. PICK p \in Bijection(1..n, keep) : t = [i \in 1..n |-> s[p[i]]]
  BY DEF SortedSelections
<1>4. /\ p \in [1..n -> keep]
      /\ \A a, b \in 1..n : p[a] = p[b] => a = b
      /\ \A j \in keep : \E i \in 1..n : p[i] = j
  <2> HIDE DEF n, keep
  <2> QED BY <1>3 DEF Bijection, Injection, Surjection, IsInjective
<1>5. DOMAIN t = 1..n /\ \A i \in 1..n : t[i] = s[p[i]]
  BY <1>3
<1>6. CASE m \in S
  <2>1. \A i \in 1..n : s[p[i]] \notin S
    BY <1>4
  <2>2. T = {}
    BY <1>5, <1>6, <2>1
  <2> QED BY <1>6, <2>2, FS_EmptySet DEF Copies
<1>7. CASE m \notin S
  <2> DEFINE f == [i \in T |-> p[i]]
  <2>0. IsFiniteSet(keep) /\ n \in Nat /\ IsFiniteSet(T)
    <3>1. IsFiniteSet(keep) /\ n \in Nat
      BY <1>1, FS_Subset, FS_CardinalityType
    <3>2. IsFiniteSet(1..n)
      BY <3>1, FS_Interval
    <3> QED BY <1>5, <3>1, <3>2, FS_Subset
  <2>1. f \in [T -> K]
    BY <1>4, <1>5
  <2>2. \A a, b \in T : f[a] = f[b] => a = b
    BY <1>4, <1>5
  <2>3. \A c \in K : \E a \in T : f[a] = c
    BY <1>4, <1>5, <1>7
  <2> HIDE DEF T, K, f
  <2>4. Cardinality(K) = Cardinality(T)
    BY <2>0, <2>1, <2>2, <2>3, SameCount
  <2> QED BY <1>7, <2>4 DEF Copies, T, K
<1> QED BY <1>6, <1>7

\* The copies of m that wait, and the sum of the copies there are of it.
Queued(m) == Copies(m, queue[To[m]])

Balance(m) ==
    Queued(m) + Copies(m, batch) + delivered[m] + silenced[m]
        = (IF m \in Accepted THEN 1 ELSE 0) + putBack[m] + unacked[m]

Balanced == \A m \in Msgs : Balance(m)

\* enqueueMessageWL adds one copy of its message.
LEMMA EnqueueAddsCopy ==
    ASSUME TypeOK, NEW e \in Msgs, Enqueue(e), NEW m \in Msgs
    PROVE  Queued(m)' = Queued(m) + (IF m = e THEN 1 ELSE 0)
<1>1. To[e] \in Receivers /\ To[m] \in Receivers /\ queue \in [Receivers -> Seq(Msgs)]
  BY MessagesAssumption DEF TypeOK, QueuesType
<1>2. PICK s \in Seq(Msgs) : s = queue[To[m]]
  BY <1>1
<1>3. Copies(m, s) \in Nat
  BY <1>2, CopiesType
<1>4. CASE To[m] = To[e]
  <2>1. queue'[To[m]] = Append(s, e)
    BY <1>1, <1>2, <1>4 DEF Enqueue
  <2>2. Copies(m, Append(s, e)) = Copies(m, s) + (IF m = e THEN 1 ELSE 0)
    BY <1>2, CopiesAppended
  <2> QED BY <1>2, <2>1, <2>2 DEF Queued
<1>5. CASE To[m] # To[e]
  <2>1. queue'[To[m]] = s
    BY <1>1, <1>2, <1>5 DEF Enqueue
  <2> QED BY <1>2, <1>3, <1>5, <2>1 DEF Queued
<1> QED BY <1>4, <1>5

LEMMA BalancedStep ==
    TypeOK /\ Chosen /\ Phase /\ Addressed /\ Balanced /\ [Next]_vars => Balanced'
<1> SUFFICES ASSUME TypeOK, Chosen, Phase, Addressed, Balanced, [Next]_vars,
                    NEW m \in Msgs
             PROVE  Balance(m)'
  BY DEF Balanced
<1>t. /\ batch \in Seq(Msgs) /\ queue \in [Receivers -> Seq(Msgs)]
      /\ To[m] \in Receivers /\ stamp \in [Msgs -> Nat] /\ enqueued \in Nat
      /\ delivered \in [Msgs -> Nat] /\ silenced \in [Msgs -> Nat]
      /\ putBack \in [Msgs -> Nat] /\ unacked \in [Msgs -> Nat]
  BY MessagesAssumption DEF TypeOK, QueuesType, SendingType, CountsType
<1>n. /\ Queued(m) \in Nat /\ Copies(m, batch) \in Nat
      /\ delivered[m] \in Nat /\ silenced[m] \in Nat
      /\ putBack[m] \in Nat /\ unacked[m] \in Nat
  BY <1>t, CopiesType DEF Queued
<1>b. Balance(m)
  BY DEF Balanced
<1>u. UNCHANGED <<queue, batch, stamp, delivered, silenced, putBack, unacked>>
        => Balance(m)'
  BY <1>b DEF Balance, Queued, Accepted
<1>1. ASSUME NEW e \in Msgs, EnqueueMessage(e) PROVE Balance(m)'
  <2>1. /\ Enqueue(e) /\ stamp[e] = 0 /\ stamp' = [stamp EXCEPT ![e] = enqueued + 1]
        /\ UNCHANGED <<batch, delivered, silenced, putBack, unacked>>
    BY <1>1 DEF EnqueueMessage, sending
  <2>2. Queued(m)' = Queued(m) + (IF m = e THEN 1 ELSE 0)
    BY <2>1, EnqueueAddsCopy
  <2>3. /\ m = e => m \notin Accepted /\ m \in Accepted'
        /\ m # e => (m \in Accepted' <=> m \in Accepted)
    BY <1>t, <2>1 DEF Accepted
  <2> QED BY <1>n, <1>b, <2>1, <2>2, <2>3 DEF Balance
<1>5. ASSUME NEW k \in 0..BatchSize, Dequeue(k) PROVE Balance(m)'
  <2>1. PICK r \in Receivers : r = firstNonEmptyQueue
    BY <1>5 DEF Dequeue, TypeOK, TurnType, Chosen
  <2>2. PICK s \in Seq(Msgs) : s = queue[r]
    BY <1>t
  <2>3. /\ batch' = Take(s)
        /\ queue' = [queue EXCEPT ![r] = LeftBehind(s, k)]
        /\ putBack'[m] = putBack[m] + Copies(m, TooLong(s, k))
        /\ UNCHANGED <<stamp, delivered, silenced, unacked>>
        /\ k \in Nat /\ k <= Len(Take(s))
    BY <1>5, <2>1, <2>2, LimitsAssumption DEF Dequeue, IsCut
  <2>4. Copies(m, batch) = 0
    BY <1>5, CopiesEmpty DEF Dequeue, Phase
  <2>5. /\ Copies(m, Take(s)) \in Nat /\ Copies(m, LeftBehind(s, k)) \in Nat
        /\ Copies(m, TooLong(s, k)) \in Nat
        /\ Range(Take(s)) \cup Range(LeftBehind(s, k)) \subseteq Range(s)
    BY <2>3, DequeueKeeps, CopiesType
  <2>6. CASE To[m] = r
    <3>1. /\ Queued(m) = Copies(m, s) /\ Queued(m)' = Copies(m, LeftBehind(s, k))
      BY <1>t, <2>2, <2>3, <2>6 DEF Queued
    <3>2. Copies(m, Take(s)) + Copies(m, LeftBehind(s, k))
             = Copies(m, s) + Copies(m, TooLong(s, k))
      BY <2>3, CopiesOfDequeue
    <3>3. Balance(m)' <=>
            Copies(m, LeftBehind(s, k)) + Copies(m, Take(s)) + delivered[m] + silenced[m]
              = (IF m \in Accepted THEN 1 ELSE 0)
                  + (putBack[m] + Copies(m, TooLong(s, k))) + unacked[m]
      BY <2>3, <3>1 DEF Balance, Accepted
    <3>4. Copies(m, s) + delivered[m] + silenced[m]
             = (IF m \in Accepted THEN 1 ELSE 0) + putBack[m] + unacked[m]
      BY <1>n, <1>b, <2>4, <3>1 DEF Balance
    <3>5. Copies(m, s) \in Nat
      BY <1>n, <3>1
    <3>6. Copies(m, LeftBehind(s, k)) + Copies(m, Take(s)) + delivered[m] + silenced[m]
             = (IF m \in Accepted THEN 1 ELSE 0)
                 + (putBack[m] + Copies(m, TooLong(s, k))) + unacked[m]
      <4> DEFINE one == IF m \in Accepted THEN 1 ELSE 0
                 l   == Copies(m, LeftBehind(s, k))
                 t   == Copies(m, Take(s))
                 c   == Copies(m, s)
                 x   == Copies(m, TooLong(s, k))
                 d   == delivered[m]
                 i   == silenced[m]
                 p   == putBack[m]
                 u   == unacked[m]
      <4>1. /\ one \in Nat /\ l \in Nat /\ t \in Nat /\ c \in Nat /\ x \in Nat
            /\ d \in Nat /\ i \in Nat /\ p \in Nat /\ u \in Nat
            /\ t + l = c + x
            /\ c + d + i = one + p + u
        BY <1>n, <2>5, <3>2, <3>4, <3>5
      <4> HIDE DEF one, l, t, c, x, d, i, p, u
      <4>2. l + t + d + i = one + (p + x) + u
        BY <4>1
      <4> QED BY <4>2 DEF one, l, t, c, x, d, i, p, u
    <3> QED BY <3>3, <3>6
  <2>7. CASE To[m] # r
    <3>1. Queued(m)' = Queued(m)
      BY <1>t, <2>3, <2>7 DEF Queued
    <3>2. m \notin Range(s)
      BY <2>2, <2>7 DEF Addressed, Waiting
    <3>3. Copies(m, Take(s)) = 0
      <4>1. m \notin Range(Take(s))
        BY <2>5, <3>2
      <4>2. {i \in DOMAIN Take(s) : Take(s)[i] = m} = {}
        BY <4>1 DEF Range
      <4> QED BY <4>2, FS_EmptySet DEF Copies
    <3>4. Copies(m, TooLong(s, k)) = 0
      <4>1. Copies(m, s) = 0
        <5>1. {i \in DOMAIN s : s[i] = m} = {}
          BY <3>2 DEF Range
        <5> QED BY <5>1, FS_EmptySet DEF Copies
      <4>2. m \notin Range(LeftBehind(s, k))
        BY <2>5, <3>2
      <4>3. Copies(m, LeftBehind(s, k)) = 0
        <5>1. {i \in DOMAIN LeftBehind(s, k) : LeftBehind(s, k)[i] = m} = {}
          BY <4>2 DEF Range
        <5> QED BY <5>1, FS_EmptySet DEF Copies
      <4>4. Copies(m, Take(s)) + Copies(m, LeftBehind(s, k))
               = Copies(m, s) + Copies(m, TooLong(s, k))
        BY <2>3, CopiesOfDequeue
      <4> QED BY <2>5, <3>3, <4>1, <4>3, <4>4
    <3>5. /\ Copies(m, batch') = 0 /\ putBack'[m] = putBack[m]
          /\ (m \in Accepted' <=> m \in Accepted)
      BY <1>n, <2>3, <3>3, <3>4 DEF Accepted
    <3> QED BY <1>b, <2>3, <2>4, <3>1, <3>5 DEF Balance
  <2> QED BY <2>6, <2>7
<1>6. ASSUME NEW S \in SUBSET Silenceable, Filter(S) PROVE Balance(m)'
  <2>1. /\ batch' \in SortedSelections(batch, {i \in DOMAIN batch : batch[i] \notin S})
        /\ UNCHANGED <<queue, stamp, delivered, putBack, unacked>>
        /\ silenced'[m] = IF m \in S THEN silenced[m] + Copies(m, batch) ELSE silenced[m]
    BY <1>6 DEF Filter
  <2>2. Copies(m, batch') = IF m \in S THEN 0 ELSE Copies(m, batch)
    BY <1>t, <2>1, CopiesOfSelection
  <2>3. Queued(m)' = Queued(m) /\ (m \in Accepted' <=> m \in Accepted)
    BY <2>1 DEF Queued, Accepted
  <2> QED BY <1>n, <1>b, <2>1, <2>2, <2>3 DEF Balance
<1>8. CASE SendSucceeds
  <2>1. /\ UNCHANGED <<queue, stamp, silenced, putBack, unacked>> /\ batch' = <<>>
        /\ delivered'[m] = delivered[m] + Copies(m, batch)
    BY <1>8 DEF SendSucceeds, DeliverBatch
  <2>2. Copies(m, batch') = 0 /\ Queued(m)' = Queued(m) /\ (m \in Accepted' <=> m \in Accepted)
    BY <2>1, CopiesEmpty DEF Queued, Accepted
  <2> QED BY <1>n, <1>b, <2>1, <2>2 DEF Balance
<1>9. ASSUME NEW reached \in BOOLEAN, SendFails(reached) PROVE Balance(m)'
  <2>1. UNCHANGED <<queue, stamp, silenced, putBack, batch>>
    BY <1>9 DEF SendFails
  <2>2. \/ /\ delivered'[m] = delivered[m] + Copies(m, batch)
           /\ unacked'[m] = unacked[m] + Copies(m, batch)
        \/ UNCHANGED <<delivered, unacked>>
    BY <1>9 DEF SendFails, DeliverBatch
  <2>3. Queued(m)' = Queued(m) /\ (m \in Accepted' <=> m \in Accepted)
    BY <2>1 DEF Queued, Accepted
  <2> QED BY <1>n, <1>b, <1>u, <2>1, <2>2, <2>3 DEF Balance
<1>10. CASE Requeue
  <2>1. /\ batch # <<>> /\ Enqueue(Head(batch)) /\ batch' = Tail(batch)
        /\ UNCHANGED <<stamp, delivered, silenced, putBack, unacked>>
    BY <1>10 DEF Requeue, counts
  <2>2. Head(batch) \in Msgs /\ Tail(batch) \in Seq(Msgs)
    BY <1>t, <2>1, RangeHeadTail
  <2>3. Queued(m)' = Queued(m) + (IF m = Head(batch) THEN 1 ELSE 0)
    BY <2>1, <2>2, EnqueueAddsCopy
  <2>4. /\ Copies(m, batch) = (IF m = Head(batch) THEN 1 ELSE 0) + Copies(m, batch')
        /\ Copies(m, batch') \in Nat
    BY <1>t, <2>1, <2>2, CopiesHeadTail, CopiesType
  <2>5. m \in Accepted' <=> m \in Accepted
    BY <2>1 DEF Accepted
  <2> QED BY <1>n, <1>b, <2>1, <2>3, <2>4, <2>5 DEF Balance
<1>11. CASE UNCHANGED <<queue, sending, counts>>
  BY <1>11, <1>u DEF sending, counts
<1>12. CASE CannotSend
  BY <1>12, <1>u DEF CannotSend, counts
<1> QED
  BY <1>1, <1>5, <1>6, <1>8, <1>9, <1>10, <1>11, <1>12
     DEF Next, PusherStep, StartTurn, Look, EndScan, Tick, vars

LEMMA BalancedAtFirst == Init => Balanced
<1> SUFFICES ASSUME Init, NEW m \in Msgs PROVE Balance(m)
  BY DEF Balanced
<1>1. To[m] \in Receivers
  BY MessagesAssumption
<1>2. Queued(m) = 0 /\ Copies(m, batch) = 0
  BY <1>1, CopiesEmpty DEF Init, Queued
<1>3. m \notin Accepted
  BY DEF Init, Accepted
<1> QED BY <1>2, <1>3 DEF Init, Balance

\* However a message is put back, sent again or silenced, there is one copy of
\* it, and one more for every put-back and every delivery that was not
\* acknowledged (receiver_based_queue.go:94-109, telegram_pusher.go:151-192).
THEOREM NoCopyIsUnaccounted == Spec => []CopiesAccounted
<1>1. MessagesInv /\ Addressed /\ Balanced /\ [Next]_vars => Balanced'
  BY BalancedStep DEF MessagesInv
<1>2. Balanced => CopiesAccounted
  BY DEF Balanced, Balance, Queued, CopiesAccounted, Accepted
<1> QED BY <1>1, <1>2, BalancedAtFirst, AddressedInvariant, MessagesInvariant, PTL DEF Spec

-----------------------------------------------------------------------------
(* The order of deliveries.                                                *)

\* Where the messages of a queue are after a dequeue: those taken come from its
\* head, and what is left behind is the queue without its first k messages.
LEMMA DequeueParts ==
    ASSUME NEW s \in Seq(Msgs), NEW k \in Nat, k <= Len(Take(s))
    PROVE  /\ Len(s) \in Nat /\ Len(Take(s)) \in 0..Len(s)
           /\ \A i \in 1..Len(Take(s)) : Take(s)[i] = s[i]
           /\ Len(LeftBehind(s, k)) = Len(s) - k
           /\ \A i \in 1..Len(s) - k : LeftBehind(s, k)[i] = s[k + i]
<1> DEFINE n == IF BatchSize < Len(s) THEN BatchSize ELSE Len(s)
           t == SubSeq(s, 1, n)
           u == SubSeq(s, n + 1, Len(s))
           v == SubSeq(t, k + 1, n)
<1>1. Len(s) \in Nat /\ n \in 0..Len(s)
  BY LenProperties, LimitsAssumption
<1>2. \A i \in 1..Len(s) : s[i] \in Msgs
  BY ElementOfSeq
<1>3. Take(s) = t
  BY DEF Take
<1> HIDE DEF n
<1>4. t \in Seq(Msgs) /\ Len(t) = n /\ \A i \in 1..n : t[i] = s[i]
  BY <1>1, <1>2, SubSeqProperties
<1>5. k \in 0..n
  BY <1>1, <1>3, <1>4
<1>6. u \in Seq(Msgs) /\ Len(u) = Len(s) - n /\ \A i \in 1..Len(s) - n : u[i] = s[n + i]
  <2>1. /\ SubSeq(s, n + 1, Len(s)) \in Seq(Msgs)
        /\ Len(SubSeq(s, n + 1, Len(s))) = IF n + 1 <= Len(s) THEN Len(s) - (n + 1) + 1 ELSE 0
        /\ \A i \in 1..Len(s) - (n + 1) + 1 : SubSeq(s, n + 1, Len(s))[i] = s[n + 1 + i - 1]
    BY <1>1, <1>2, SubSeqProperties
  <2> QED BY <1>1, <2>1
<1> HIDE DEF t, u
<1>7. v \in Seq(Msgs) /\ Len(v) = n - k /\ \A i \in 1..n - k : v[i] = s[k + i]
  <2>1. \A i \in k + 1 .. n : t[i] \in Msgs
    BY <1>1, <1>2, <1>4, <1>5
  <2>2. /\ SubSeq(t, k + 1, n) \in Seq(Msgs)
        /\ Len(SubSeq(t, k + 1, n)) = IF k + 1 <= n THEN n - (k + 1) + 1 ELSE 0
        /\ \A i \in 1..n - (k + 1) + 1 : SubSeq(t, k + 1, n)[i] = t[k + 1 + i - 1]
    BY <1>1, <1>5, <2>1, SubSeqProperties
  <2> QED BY <1>1, <1>4, <1>5, <2>2
<1>8. LeftBehind(s, k) = v \o u
  BY <1>3, <1>4 DEF LeftBehind, TooLong, Rest, u
<1> HIDE DEF v
<1>9. /\ Len(v \o u) = Len(s) - k
      /\ \A i \in 1..Len(s) - k : (v \o u)[i] = s[k + i]
  <2>1. /\ Len(v \o u) = Len(v) + Len(u)
        /\ \A i \in 1..Len(v) + Len(u) :
              (v \o u)[i] = IF i <= Len(v) THEN v[i] ELSE u[i - Len(v)]
    BY <1>6, <1>7, ConcatProperties
  <2>2. Len(v) + Len(u) = Len(s) - k
    BY <1>1, <1>5, <1>6, <1>7
  <2>a. \A i \in 1..Len(s) - k :
           (v \o u)[i] = IF i <= n - k THEN v[i] ELSE u[i - (n - k)]
    BY <1>7, <2>1, <2>2
  <2>3. ASSUME NEW i \in 1..Len(s) - k PROVE (v \o u)[i] = s[k + i]
    <3>0. i \in Nat \ {0} /\ n \in Nat /\ k \in Nat /\ Len(s) \in Nat /\ i <= Len(s) - k
      BY <1>1
    <3>1. CASE i <= n - k
      BY <1>5, <1>7, <2>a, <3>0, <3>1
    <3>2. CASE ~(i <= n - k)
      <4>1. i - (n - k) \in 1..Len(s) - n /\ n + (i - (n - k)) = k + i
        BY <1>5, <3>0, <3>2
      <4>2. (v \o u)[i] = u[i - (n - k)]
        BY <2>a, <3>2
      <4> QED BY <1>6, <4>1, <4>2
    <3> QED BY <3>1, <3>2
  <2> QED BY <2>1, <2>2, <2>3
<1> QED BY <1>1, <1>3, <1>4, <1>8, <1>9

Done(m) == delivered[m] > 0 \/ silenced[m] > 0
Earlier(m, n) == To[m] = To[n] /\ stamp[m] < stamp[n]

\* A queue holds its messages in the order they were accepted.
QueuesInOrder ==
    \A r \in Receivers : \A i, j \in DOMAIN queue[r] :
        i < j => stamp[queue[r][i]] < stamp[queue[r][j]]

\* What was accepted before a message in hand, or before one delivered, is in
\* hand with it or done.
BatchInOrder ==
    \A n \in Range(batch) : \A m \in Accepted :
        Earlier(m, n) => m \in Range(batch) \/ Done(m)

\* The order is kept until an attempt fails: what is enqueued again for that
\* goes to the tail.
OrderInv ==
    /\ \A m \in Msgs : stamp[m] <= enqueued
    /\ faults = 0 => pc # "requeue" /\ QueuesInOrder /\ BatchInOrder
    /\ DeliveredInOrder

LEMMA OrderStep ==
    MessagesInv /\ Addressed /\ OrderInv /\ [Next]_vars => OrderInv'
<1> SUFFICES ASSUME MessagesInv, Addressed, OrderInv, [Next]_vars PROVE OrderInv'
  OBVIOUS
<1>t. /\ batch \in Seq(Msgs) /\ queue \in [Receivers -> Seq(Msgs)]
      /\ stamp \in [Msgs -> Nat] /\ enqueued \in Nat /\ faults \in Nat
      /\ delivered \in [Msgs -> Nat] /\ silenced \in [Msgs -> Nat]
      /\ TypeOK /\ Chosen /\ Phase /\ Accounted
  BY LimitsAssumption DEF MessagesInv, TypeOK, QueuesType, SendingType, CountsType
<1>u. UNCHANGED <<queue, batch, stamp, enqueued, delivered, silenced, faults>>
      /\ pc' # "requeue" => OrderInv'
  BY DEF OrderInv, QueuesInOrder, BatchInOrder, DeliveredInOrder, Accepted, Earlier, Done
<1>1. ASSUME NEW e \in Msgs, EnqueueMessage(e) PROVE OrderInv'
  <2>1. /\ Enqueue(e) /\ stamp[e] = 0 /\ enqueued' = enqueued + 1
        /\ stamp' = [stamp EXCEPT ![e] = enqueued + 1]
        /\ UNCHANGED <<batch, delivered, silenced, faults, pc>>
    BY <1>1 DEF EnqueueMessage, sending
  <2>2. \A m \in Msgs : stamp'[m] <= enqueued'
    BY <1>t, <2>1 DEF OrderInv
  <2>3. \A m \in Msgs \ {e} : stamp'[m] = stamp[m] /\ stamp[m] < stamp'[e]
    BY <1>t, <2>1 DEF OrderInv
  <2>4. /\ e \notin Range(batch) /\ delivered[e] = 0 /\ silenced[e] = 0
        /\ \A r \in Receivers : e \notin Range(queue[r])
    <3>1. e \notin Accepted
      BY <2>1 DEF Accepted
    <3>2. e \notin InSystem /\ e \notin DeliveredSet /\ e \notin SilencedSet
      BY <1>t, <3>1 DEF Accounted
    <3>3. delivered[e] = 0 /\ silenced[e] = 0
      <4>1. delivered[e] \in Nat /\ silenced[e] \in Nat
        BY <1>t
      <4> QED BY <3>2, <4>1 DEF DeliveredSet, SilencedSet
    <3> QED BY <3>2, <3>3 DEF InSystem, Waiting
  <2>5. Range(batch) \subseteq Msgs
    BY <1>t, RangeOfSeq
  <2>6. /\ e \in Accepted'
        /\ \A m \in Msgs \ {e} : m \in Accepted' <=> m \in Accepted
    BY <1>t, <2>1, <2>3 DEF Accepted
  <2>7. ASSUME faults = 0 PROVE QueuesInOrder'
    <3> SUFFICES ASSUME NEW r \in Receivers, NEW i \in DOMAIN queue'[r],
                        NEW j \in DOMAIN queue'[r], i < j
                 PROVE  stamp'[queue'[r][i]] < stamp'[queue'[r][j]]
      BY DEF QueuesInOrder
    <3>1. PICK s \in Seq(Msgs) : s = queue[r]
      BY <1>t
    <3>2. DOMAIN s = 1..Len(s) /\ Len(s) \in Nat
      BY LenProperties
    <3>3. \A a \in 1..Len(s) : s[a] \in Msgs \ {e}
      BY <2>4, <3>1, <3>2, ElementOfSeq DEF Range
    <3>4. \A a, b \in 1..Len(s) : a < b => stamp'[s[a]] < stamp'[s[b]]
      BY <2>3, <2>7, <3>1, <3>2, <3>3 DEF OrderInv, QueuesInOrder
    <3>5. CASE r = To[e]
      <4>1. queue'[r] = Append(s, e)
        BY <1>t, <2>1, <3>1, <3>5 DEF Enqueue
      <4>2. /\ Append(s, e) \in Seq(Msgs) /\ Len(Append(s, e)) = Len(s) + 1
            /\ \A a \in 1..Len(s) : Append(s, e)[a] = s[a]
            /\ Append(s, e)[Len(s) + 1] = e
        BY AppendProperties
      <4>3. DOMAIN Append(s, e) = 1..(Len(s) + 1)
        BY <4>2, LenProperties
      <4>4. i \in 1..Len(s)
        BY <3>2, <4>1, <4>3
      <4>5. CASE j \in 1..Len(s)
        BY <3>4, <4>1, <4>2, <4>4, <4>5
      <4>6. CASE j = Len(s) + 1
        BY <2>3, <3>3, <4>1, <4>2, <4>4, <4>6
      <4> QED BY <3>2, <4>1, <4>3, <4>5, <4>6
    <3>6. CASE r # To[e]
      <4>1. queue'[r] = s
        BY <1>t, <2>1, <3>1, <3>6 DEF Enqueue
      <4> QED BY <3>2, <3>4, <4>1
    <3> QED BY <3>5, <3>6
  <2>8. ASSUME NEW n \in Msgs \ {e}, NEW m \in Accepted', Earlier(m, n)'
        PROVE  m \in Accepted /\ m # e /\ Earlier(m, n)
    <3>1. m \in Msgs /\ stamp'[m] < stamp[n]
      BY <2>3, <2>8 DEF Earlier, Accepted
    <3>2. m # e
      <4>1. stamp[n] < enqueued + 1 /\ stamp'[e] = enqueued + 1
        BY <1>t, <2>1, <2>3
      <4>2. stamp[n] \in Nat
        BY <1>t
      <4> QED BY <1>t, <3>1, <4>1, <4>2
    <3> QED BY <2>3, <2>6, <2>8, <3>1, <3>2 DEF Earlier
  <2>9. ASSUME faults = 0 PROVE BatchInOrder'
    <3> SUFFICES ASSUME NEW n \in Range(batch), NEW m \in Accepted', Earlier(m, n)'
                 PROVE  m \in Range(batch) \/ Done(m)'
      BY <2>1 DEF BatchInOrder
    <3>1. n \in Msgs \ {e}
      BY <2>4, <2>5
    <3>2. m \in Accepted /\ Earlier(m, n)
      BY <2>8, <3>1
    <3> QED BY <2>1, <2>9, <3>2 DEF OrderInv, BatchInOrder, Done
  <2>10. DeliveredInOrder'
    <3> SUFFICES ASSUME NEW m \in Accepted', NEW n \in Accepted',
                        faults = 0, Earlier(m, n)', delivered[n] > 0
                 PROVE  delivered[m] > 0 \/ silenced[m] > 0
      BY <2>1 DEF DeliveredInOrder, Earlier
    <3>1. n \in Msgs \ {e} /\ n \in Accepted
      BY <2>4, <2>6 DEF Accepted
    <3>2. m \in Accepted /\ Earlier(m, n)
      BY <2>8, <3>1
    <3> QED BY <3>1, <3>2 DEF OrderInv, DeliveredInOrder, Earlier
  <2> QED BY <2>1, <2>2, <2>7, <2>9, <2>10 DEF OrderInv
<1>2. CASE StartTurn
  BY <1>2, <1>u DEF StartTurn, sending, counts
<1>3. CASE Look \/ Tick
  <2>1. UNCHANGED <<queue, batch, stamp, enqueued, delivered, silenced, faults, pc>>
    BY <1>3 DEF Look, Tick, sending, counts
  <2> QED BY <2>1 DEF OrderInv, QueuesInOrder, BatchInOrder, DeliveredInOrder,
                       Accepted, Earlier, Done
<1>4. CASE EndScan
  BY <1>4, <1>u DEF EndScan, sending, counts
<1>5. ASSUME NEW k \in 0..BatchSize, Dequeue(k) PROVE OrderInv'
  <2>1. PICK r \in Receivers : r = firstNonEmptyQueue
    BY <1>t, <1>5 DEF Dequeue, TypeOK, TurnType, Chosen
  <2>2. PICK s \in Seq(Msgs) : s = queue[r]
    BY <1>t
  <2>3. /\ batch' = Take(s) /\ pc' # "requeue"
        /\ queue' = [queue EXCEPT ![r] = LeftBehind(s, k)]
        /\ UNCHANGED <<stamp, enqueued, delivered, silenced, faults>>
        /\ k \in Nat /\ k <= Len(Take(s))
    BY <1>5, <2>1, <2>2, LimitsAssumption DEF Dequeue, IsCut
  <2>4. /\ Len(s) \in Nat /\ Len(Take(s)) \in 0..Len(s)
        /\ \A i \in 1..Len(Take(s)) : Take(s)[i] = s[i]
        /\ Len(LeftBehind(s, k)) = Len(s) - k
        /\ \A i \in 1..Len(s) - k : LeftBehind(s, k)[i] = s[k + i]
        /\ Take(s) \in Seq(Msgs) /\ LeftBehind(s, k) \in Seq(Msgs)
    BY <2>3, DequeueParts, DequeueKeeps
  <2>5. /\ DOMAIN s = 1..Len(s) /\ DOMAIN Take(s) = 1..Len(Take(s))
        /\ DOMAIN LeftBehind(s, k) = 1..Len(s) - k
    BY <2>4, LenProperties
  <2>6. ASSUME faults = 0
        PROVE  \A i, j \in 1..Len(s) : i < j => stamp[s[i]] < stamp[s[j]]
    BY <2>2, <2>5, <2>6 DEF OrderInv, QueuesInOrder
  <2>7. ASSUME faults = 0 PROVE QueuesInOrder'
    <3> SUFFICES ASSUME NEW q \in Receivers, NEW i \in DOMAIN queue'[q],
                        NEW j \in DOMAIN queue'[q], i < j
                 PROVE  stamp[queue'[q][i]] < stamp[queue'[q][j]]
      BY <2>3 DEF QueuesInOrder
    <3>1. CASE q = r
      <4>1. queue'[q] = LeftBehind(s, k)
        BY <1>t, <2>3, <3>1
      <4>2. i \in 1..Len(s) - k /\ j \in 1..Len(s) - k
        BY <2>5, <4>1
      <4>3. k + i \in 1..Len(s) /\ k + j \in 1..Len(s) /\ k + i < k + j
        BY <2>3, <2>4, <4>2
      <4> QED BY <2>4, <2>6, <2>7, <4>1, <4>2, <4>3
    <3>2. CASE q # r
      BY <1>t, <2>3, <2>7, <3>2 DEF OrderInv, QueuesInOrder
    <3> QED BY <3>1, <3>2
  <2>8. ASSUME faults = 0 PROVE BatchInOrder'
    <3> SUFFICES ASSUME NEW n \in Range(Take(s)), NEW m \in Accepted, Earlier(m, n)
                 PROVE  m \in Range(Take(s)) \/ Done(m)
      BY <2>3 DEF BatchInOrder, Accepted, Earlier, Done
    <3>1. PICK j \in 1..Len(Take(s)) : n = s[j]
      BY <2>4, <2>5 DEF Range
    <3>2. To[n] = r /\ j \in 1..Len(s)
      <4>1. j \in 1..Len(s)
        BY <2>4
      <4>2. n \in Range(s)
        BY <2>5, <3>1, <4>1 DEF Range
      <4> QED BY <2>2, <4>1, <4>2 DEF Addressed, Waiting
    <3>3. Range(batch) = {}
      BY <1>t, <1>5, EmptySeq DEF Dequeue, Phase, Range
    <3>4. m \in Msgs /\ (Done(m) \/ \E q \in Receivers : m \in Waiting(q))
      BY <1>t, <3>3 DEF Accounted, InSystem, DeliveredSet, SilencedSet, Accepted, Done
    <3>5. ASSUME NEW q \in Receivers, m \in Waiting(q) PROVE m \in Range(Take(s))
      <4>1. q = r /\ m \in Range(s)
        BY <2>2, <3>2, <3>5 DEF Addressed, Waiting, Earlier
      <4>2. PICK i \in 1..Len(s) : m = s[i]
        BY <2>5, <4>1 DEF Range
      <4>3. i < j
        <5>1. ~(j < i)
          <6>1. j < i => stamp[n] < stamp[m]
            BY <2>6, <2>8, <3>1, <3>2, <4>2
          <6>2. stamp[m] \in Nat /\ stamp[n] \in Nat
            BY <1>t, <2>2, <3>1, <3>2, <3>4, ElementOfSeq
          <6> QED BY <6>1, <6>2 DEF Earlier
        <5>2. i # j
          <6>1. stamp[m] \in Nat
            BY <1>t, <3>4
          <6> QED BY <3>1, <4>2, <6>1 DEF Earlier
        <5> QED BY <5>1, <5>2, <3>2, <4>2
      <4>4. i \in 1..Len(Take(s))
        BY <2>4, <3>1, <4>3
      <4> QED BY <2>4, <2>5, <4>2, <4>4 DEF Range
    <3> QED BY <3>4, <3>5
  <2> QED BY <2>3, <2>7, <2>8 DEF OrderInv, DeliveredInOrder, Accepted
<1>6. ASSUME NEW S \in SUBSET Silenceable, Filter(S) PROVE OrderInv'
  <2> DEFINE keep == {i \in DOMAIN batch : batch[i] \notin S}
  <2>1. /\ batch' \in SortedSelections(batch, keep) /\ pc' # "requeue"
        /\ UNCHANGED <<queue, stamp, enqueued, delivered, faults>>
        /\ silenced' = [m \in Msgs |-> IF m \in S THEN silenced[m] + Copies(m, batch)
                                       ELSE silenced[m]]
    BY <1>6 DEF Filter
  <2>2. Range(batch') = {batch[i] : i \in keep}
    <3>1. batch \in Seq(Msgs)
      BY <1>t
    <3>2. batch' \in SortedSelections(batch, keep)
      BY <2>1
    <3>3. keep \in SUBSET DOMAIN batch
      OBVIOUS
    <3> HIDE DEF keep
    <3> QED BY <3>1, <3>2, <3>3, SelectionKeeps
  <2>3. Range(batch') = Range(batch) \ S /\ Range(batch) \subseteq Msgs
    <3>1. Range(batch) \subseteq Msgs
      BY <1>t, RangeOfSeq
    <3> QED BY <2>2, <3>1 DEF Range
  <2>4. ASSUME NEW m \in Msgs
        PROVE  /\ silenced[m] > 0 => silenced'[m] > 0
               /\ m \in S /\ m \in Range(batch) => silenced'[m] > 0
    <3>1. silenced'[m] = IF m \in S THEN silenced[m] + Copies(m, batch) ELSE silenced[m]
      BY <2>1
    <3>2. silenced[m] \in Nat
      BY <1>t
    <3>3. silenced[m] + Copies(m, batch) > 0 <=> silenced[m] > 0 \/ m \in Range(batch)
      BY <1>t, <3>2, CountingMarks
    <3> QED BY <3>1, <3>3
  <2>5. faults = 0 => QueuesInOrder'
    BY <2>1 DEF OrderInv, QueuesInOrder
  <2>6. ASSUME faults = 0 PROVE BatchInOrder'
    <3> SUFFICES ASSUME NEW n \in Range(batch'), NEW m \in Accepted, Earlier(m, n)
                 PROVE  m \in Range(batch') \/ Done(m)'
      BY <2>1 DEF BatchInOrder, Accepted, Earlier
    <3>1. m \in Range(batch) \/ Done(m)
      BY <2>3, <2>6 DEF OrderInv, BatchInOrder
    <3> QED BY <2>1, <2>3, <2>4, <3>1 DEF Done, Accepted
  <2>7. DeliveredInOrder'
    BY <2>1, <2>4 DEF OrderInv, DeliveredInOrder, Accepted
  <2> QED BY <2>1, <2>5, <2>6, <2>7 DEF OrderInv
<1>7. CASE CannotSend
  <2>1. faults' # 0 /\ UNCHANGED <<stamp, enqueued>>
    BY <1>7, <1>t DEF CannotSend, counts
  <2> QED BY <2>1 DEF OrderInv, DeliveredInOrder
<1>8. CASE SendSucceeds
  <2>1. /\ UNCHANGED <<queue, stamp, enqueued, silenced, faults>>
        /\ batch' = <<>> /\ pc' # "requeue"
        /\ delivered' = [m \in Msgs |-> delivered[m] + Copies(m, batch)]
    BY <1>8 DEF SendSucceeds, DeliverBatch
  <2>2. ASSUME NEW m \in Msgs
        PROVE  delivered'[m] > 0 <=> delivered[m] > 0 \/ m \in Range(batch)
    <3>1. delivered[m] \in Nat /\ delivered'[m] = delivered[m] + Copies(m, batch)
      BY <1>t, <2>1
    <3> QED BY <1>t, <3>1, CountingMarks
  <2>3. BatchInOrder'
    BY <2>1 DEF BatchInOrder, Range
  <2>4. DeliveredInOrder'
    <3> SUFFICES ASSUME NEW m \in Accepted, NEW n \in Accepted, faults = 0,
                        Earlier(m, n), delivered'[n] > 0
                 PROVE  delivered'[m] > 0 \/ silenced[m] > 0
      BY <2>1 DEF DeliveredInOrder, Accepted, Earlier
    <3>1. m \in Msgs /\ n \in Msgs
      BY DEF Accepted
    <3>2. CASE delivered[n] > 0
      BY <2>2, <3>1, <3>2 DEF OrderInv, DeliveredInOrder, Earlier
    <3>3. CASE n \in Range(batch)
      BY <2>2, <3>1, <3>3 DEF OrderInv, BatchInOrder, Done
    <3> QED BY <2>2, <3>1, <3>2, <3>3
  <2> QED BY <2>1, <2>3, <2>4 DEF OrderInv, QueuesInOrder
<1>9. ASSUME NEW reached \in BOOLEAN, SendFails(reached) PROVE OrderInv'
  <2>1. faults' # 0 /\ UNCHANGED <<stamp, enqueued>>
    BY <1>9, <1>t DEF SendFails
  <2> QED BY <2>1 DEF OrderInv, DeliveredInOrder
<1>10. CASE Requeue
  <2>1. pc = "requeue" /\ UNCHANGED <<faults, stamp, enqueued>>
    BY <1>10 DEF Requeue, counts
  <2>2. faults' # 0
    BY <2>1 DEF OrderInv
  <2> QED BY <2>1, <2>2 DEF OrderInv, DeliveredInOrder
<1>11. CASE UNCHANGED vars
  BY <1>11 DEF vars, sending, counts, OrderInv, QueuesInOrder, BatchInOrder,
               DeliveredInOrder, Accepted, Earlier, Done
<1> QED
  BY <1>1, <1>2, <1>3, <1>4, <1>5, <1>6, <1>7, <1>8, <1>9, <1>10, <1>11
     DEF Next, PusherStep

\* Whatever is put back for its length and whatever a pattern silences, a
\* receiver gets its messages in the order they were enqueued, until an attempt
\* fails (receiver_based_queue.go:83-110, telegram_pusher.go:120-166).
THEOREM OrderIsKept == Spec => []DeliveredInOrder
<1>1. Init => OrderInv
  <2> SUFFICES ASSUME Init PROVE OrderInv
    OBVIOUS
  <2>1. /\ Accepted = {} /\ Range(batch) = {} /\ pc # "requeue"
        /\ \A r \in Receivers : DOMAIN queue[r] = {}
    BY EmptyAtFirst, EmptySeq DEF Init, Range
  <2> QED BY <2>1 DEF Init, OrderInv, QueuesInOrder, BatchInOrder, DeliveredInOrder
<1>2. OrderInv => DeliveredInOrder
  BY DEF OrderInv
<1> QED BY <1>1, <1>2, OrderStep, AddressedInvariant, MessagesInvariant, PTL DEF Spec
=============================================================================
