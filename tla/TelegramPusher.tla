--------------------------- MODULE TelegramPusher ---------------------------
(***************************************************************************)
(* The push service: anyone enqueues messages, which wait in one queue per *)
(* receiver, and one goroutine (the pusher) takes turns: it looks through  *)
(* all queues, takes a batch from one of them, drops what the receiver has *)
(* silenced, sends the rest as one Telegram message with retries, and puts *)
(* the batch back when it could not send it.                               *)
(*                                                                         *)
(* Enqueueing runs concurrently with every step of a turn.  Telegram, the  *)
(* registries of users and of bots, and the silence patterns are outside:  *)
(* an attempt to send may fail, before or after the message was delivered, *)
(* Telegram refuses a text over its limit, and a message may match a       *)
(* pattern or not.                                                         *)
(*                                                                         *)
(* Time is kept as what the code computes from it: how long each queue is  *)
(* still cooling down since its lastEnqueueUTC.                            *)
(***************************************************************************)
EXTENDS Naturals, Sequences, FiniteSets, Functions

CONSTANTS
    Msgs,           \* the messages that may be enqueued
    Receivers,      \* ids of the receivers
    NoReceiver,     \* stands for "no queue chosen"
    To,             \* ReceiverID of each message
    Priority,       \* the messages enqueued with Priority
    Fatal,          \* the messages enqueued with Fatal
    Size,           \* len(message.Message) of each message
    Silenceable,    \* the messages a silence pattern may match
    BatchSize,      \* BATCH_SIZE_TELEGRAM_PUSH_PER_USER
    Limit,          \* maximumTelegramMessageLength: the longest text Telegram takes
    Divider,        \* len(BATCH_MESSAGES_LINE_DIVIDER)
    Cooldown,       \* MINIMUM_BETWEEN_TELEGRAM_PUSH_SAME_USER
    PushSleep,      \* the sleep "to prevent API limit"
    MinRetryCount,  \* of utils.DefaultRetryOption
    MaxFaults       \* bound on the failed attempts explored, refusals included

ASSUME MessagesAssumption ==
    /\ To \in [Msgs -> Receivers]
    /\ Priority \subseteq Msgs /\ Fatal \subseteq Msgs /\ Silenceable \subseteq Msgs
    /\ Size \in [Msgs -> Nat]
    /\ NoReceiver \notin Receivers

ASSUME LimitsAssumption ==
    /\ BatchSize \in Nat \ {0} /\ Limit \in Nat \ {0} /\ Divider \in Nat
    /\ Cooldown \in Nat \ {0} /\ PushSleep \in Nat
    /\ MinRetryCount \in Nat /\ MaxFaults \in Nat

VARIABLES
    queue,          \* enqueuedMessages of each receiver's queue
    priorityQueue, nonPriorityQueue,   \* the receivers that have a queue
    cool,           \* time left of the minimum since lastEnqueueUTC
    pc,             \* where the pusher is
    pushedPreviousTurn,
    snap,           \* allQueues, as receivers
    shared,         \* allQueues shares the array behind priorityQueue
    at,             \* next index of the loop over allQueues
    firstNonEmptyQueue,
    batch,          \* dequeuedMessages, then messages
    tryCount,       \* failed attempts of Retry
    faults,         \* failures so far
    \* Observations, read by the properties alone:
    enqueued,       \* number of messages accepted
    stamp,          \* rank in the order of acceptance, 0 if not accepted
    delivered,      \* how often each message was delivered
    silenced,       \* how often each message was dropped as silenced
    putBack,        \* how often it was put back although also handed out
    unacked,        \* how often it was delivered by a failed attempt
    sinceTurn,      \* time since the receiver's queue was last dequeued
    sinceSend       \* time since the last message was sent

lists    == <<priorityQueue, nonPriorityQueue>>
turn     == <<snap, shared, at, firstNonEmptyQueue>>
sending  == <<batch, tryCount, faults>>
counts   == <<enqueued, stamp, delivered, silenced, putBack, unacked>>
clocks   == <<cool, sinceTurn, sinceSend>>
vars == <<queue, lists, clocks, pc, pushedPreviousTurn, turn, sending, counts>>

Accepted == {m \in Msgs : stamp[m] > 0}
PriorityOnly == Range(priorityQueue)  \* mutant: only one list is looked up
InUse    == Range(priorityQueue) \cup Range(nonPriorityQueue)

\* How often s holds m.
Copies(m, s) == Cardinality({i \in DOMAIN s : s[i] = m})

(***************************************************************************)
(* What the code computes.                                                 *)
(***************************************************************************)

\* Length of the first k messages of s joined with dividers.
JoinedLength(s, k) ==
    IF k = 0 THEN 0
    ELSE SumFunctionOnSet([i \in 1..k |-> Size[s[i]]], 1..k) + (k - 1) * Divider

\* The k messages at the head of s that the loop over result keeps.
IsCut(s, k) ==
    /\ k <= Len(s)
    /\ \A i \in 1..k : JoinedLength(s, i) < Limit
    /\ k < Len(s) => JoinedLength(s, k + 1) >= Limit

\* Telegram takes the messages of s as one text.
Fits(s) == JoinedLength(s, Len(s)) <= Limit

\* The messages a dequeue takes off queue s before it checks the limit.
TakeLast(s) == SubSeq(s, IF BatchSize < Len(s) THEN Len(s) - BatchSize + 1 ELSE 1, Len(s)) \* mutant
Take(s) == SubSeq(s, 1, IF BatchSize < Len(s) THEN BatchSize ELSE Len(s))
RestOffByOne(s) == SubSeq(s, Len(Take(s)) + 2, Len(s))   \* mutant
Rest(s) == SubSeq(s, Len(Take(s)) + 1, Len(s))

\* What a dequeue leaves in queue s when the limit allows k of the messages
\* taken: the others go back to the head.
TooLong(s, k)    == SubSeq(Take(s), k + 1, Len(Take(s)))
NothingPutBack(s, k) == Rest(s)                          \* mutant
LeftBehind(s, k) == TooLong(s, k) \o Rest(s)

\* The order of a batch: fatal messages first, then by EnqueueTimeUTC.
Less(m, n) ==
    IF (m \in Fatal) = (n \in Fatal) THEN stamp[m] < stamp[n] ELSE m \in Fatal

\* The messages of s whose index is in keep, in the order of a batch.
SortedSelections(s, keep) ==
    {[i \in 1..Cardinality(keep) |-> s[p[i]]] :
        p \in {q \in Bijection(1..Cardinality(keep), keep) :
                 \A i, j \in 1..Cardinality(keep) : i < j => ~Less(s[q[j]], s[q[i]])}}

\* Capacity of the array behind a slice that grew by appending to it n times.
Capacity(n) == CHOOSE c \in {0, 1, 2, 4, 8, 16} :
                  n <= c /\ \A d \in {0, 1, 2, 4, 8, 16} : n <= d => c <= d

EligibleHot(r) == Len(queue[r]) > 0          \* mutant: no test of the cooldown
Eligible(r) == Len(queue[r]) > 0 /\ cool[r] = 0

Minus1(n) == IF n = 0 THEN 0 ELSE n - 1
Plus1(n, max) == IF n < max THEN n + 1 ELSE max

-----------------------------------------------------------------------------
Init ==
    /\ queue = [r \in Receivers |-> <<>>]
    /\ priorityQueue = <<>> /\ nonPriorityQueue = <<>>
    /\ cool = [r \in Receivers |-> 0]
    /\ pc = "sleep" /\ pushedPreviousTurn = FALSE
    /\ snap = <<>> /\ shared = FALSE /\ at = 1
    /\ firstNonEmptyQueue = NoReceiver
    /\ batch = <<>> /\ tryCount = 0 /\ faults = 0
    /\ enqueued = 0 /\ stamp = [m \in Msgs |-> 0]
    /\ delivered = [m \in Msgs |-> 0]
    /\ silenced = [m \in Msgs |-> 0]
    /\ putBack = [m \in Msgs |-> 0]
    /\ unacked = [m \in Msgs |-> 0]
    /\ sinceTurn = [r \in Receivers |-> Cooldown]
    /\ sinceSend = PushSleep

(***************************************************************************)
(* Enqueueing.                                                             *)
(***************************************************************************)

\* enqueueMessageWL of message m, as a change of the queues.  A first message
\* creates the queue in one of the lists; with spare capacity the new entry of
\* priorityQueue lands in the array that allQueues may share.
Enqueue(m) ==
    LET r == To[m] IN
    /\ queue' = [queue EXCEPT ![r] = Append(@, m)]
    /\ cool' = [cool EXCEPT ![r] = Cooldown]
    /\ IF r \in InUse THEN UNCHANGED <<lists, snap, shared>>
       ELSE IF m \in Priority
       THEN /\ priorityQueue' = Append(priorityQueue, r)
            /\ LET n == Len(priorityQueue) + 1 IN
               IF shared /\ n <= Capacity(n - 1)
               THEN snap' = [snap EXCEPT ![n] = r] /\ UNCHANGED shared
               ELSE UNCHANGED snap /\ shared' = FALSE
            /\ UNCHANGED nonPriorityQueue
       ELSE /\ nonPriorityQueue' = Append(nonPriorityQueue, r)
            /\ UNCHANGED <<priorityQueue, snap, shared>>

\* A worker or the call center enqueues a new message.
EnqueueMessage(m) ==
    /\ stamp[m] = 0
    /\ Enqueue(m)
    /\ enqueued' = enqueued + 1
    /\ stamp' = [stamp EXCEPT ![m] = enqueued + 1]
    /\ UNCHANGED <<pc, pushedPreviousTurn, at, firstNonEmptyQueue,
                   sending, delivered, silenced, putBack, unacked, sinceTurn,
                   sinceSend>>

(***************************************************************************)
(* A turn of the pusher.                                                   *)
(***************************************************************************)

\* The sleeps, and getAllQueuesRL.
StartTurn ==
    /\ pc = "sleep"
    /\ pushedPreviousTurn => sinceSend >= PushSleep
    /\ pushedPreviousTurn' = FALSE
    /\ snap' = priorityQueue \o nonPriorityQueue
    /\ shared' = /\ Len(nonPriorityQueue) > 0
                 /\ Len(priorityQueue) + Len(nonPriorityQueue)
                       <= Capacity(Len(priorityQueue))
    /\ at' = 1
    /\ firstNonEmptyQueue' = NoReceiver
    /\ pc' = "scan"
    /\ UNCHANGED <<queue, lists, clocks, sending, counts>>

\* One iteration of the loop over allQueues.  Its two reads of the queue are
\* one step: only the pusher takes messages out.
Look ==
    /\ pc = "scan"
    /\ at <= Len(snap)
    /\ at' = at + 1
    /\ IF Eligible(snap[at])
       THEN firstNonEmptyQueue' = snap[at]
       ELSE UNCHANGED firstNonEmptyQueue
    /\ UNCHANGED <<queue, lists, clocks, pc, pushedPreviousTurn, snap, shared,
                   sending, counts>>

\* The loop ends: nothing to do, or a queue is chosen.
EndScan ==
    /\ pc = "scan"
    /\ at > Len(snap)
    /\ pc' = IF firstNonEmptyQueue = NoReceiver THEN "sleep" ELSE "dequeue"
    /\ snap' = <<>> /\ shared' = FALSE /\ at' = 1
    /\ UNCHANGED <<queue, lists, clocks, pushedPreviousTurn,
                   firstNonEmptyQueue, sending, counts>>

\* DequeueMessagesWL, and the test that it returned messages.  All messages
\* taken are returned, those put back included.
Dequeue(k) ==
    LET r == firstNonEmptyQueue
        s == queue[r]
    IN
    /\ pc = "dequeue"
    /\ IsCut(Take(s), k)
    /\ batch' = Take(s)
    /\ queue' = [queue EXCEPT ![r] = LeftBehind(s, k)]
    /\ cool' = [cool EXCEPT ![r] = Cooldown]
    /\ sinceTurn' = [sinceTurn EXCEPT ![r] = 0]
    /\ putBack' = [m \in Msgs |-> putBack[m] + Copies(m, TooLong(s, k))]
    /\ pc' = IF Take(s) = <<>> THEN "sleep" ELSE "filter"
    /\ UNCHANGED <<lists, pushedPreviousTurn, turn, tryCount, faults, enqueued, stamp,
                   delivered, silenced, unacked, sinceSend>>

\* Drop the messages that patterns of the receiver match, sort the others.
Filter(S) ==
    LET keep == {i \in DOMAIN batch : batch[i] \notin S} IN
    /\ pc = "filter"
    /\ batch' \in SortedSelections(batch, keep)
    /\ silenced' = [m \in Msgs |-> IF m \in S THEN silenced[m] + Copies(m, batch)
                                   ELSE silenced[m]]
    /\ pc' = IF keep = {} THEN "sleep" ELSE "send"
    /\ tryCount' = 0
    /\ UNCHANGED <<queue, lists, clocks, pushedPreviousTurn, turn, faults,
                   enqueued, stamp, delivered, putBack, unacked>>

\* The user is unknown, its configuration incomplete, or its bot unavailable.
CannotSend ==
    /\ pc = "send" /\ tryCount = 0 /\ faults < MaxFaults
    /\ faults' = faults + 1
    /\ pc' = "requeue"
    /\ UNCHANGED <<queue, lists, clocks, pushedPreviousTurn, turn, batch,
                   tryCount, counts>>

DeliverBatch ==
    delivered' = [m \in Msgs |-> delivered[m] + Copies(m, batch)]

\* An attempt of Retry succeeds.
SendSucceeds ==
    /\ pc = "send" /\ Fits(batch)
    /\ DeliverBatch
    /\ batch' = <<>>
    /\ pc' = "sleep"
    /\ sinceSend' = 0
    /\ UNCHANGED <<queue, lists, cool, sinceTurn, pushedPreviousTurn, turn,
                   tryCount, faults, enqueued, stamp, silenced, putBack, unacked>>

\* An attempt fails: before the text reached the chat, as one over the limit
\* always does, or after it (the answer is lost).  Retry tries again, or gives
\* up once it has retried enough (and for long enough: a choice here).
SendFails(reached) ==
    /\ pc = "send" /\ faults < MaxFaults
    /\ reached => Fits(batch)
    /\ faults' = faults + 1
    /\ tryCount' = tryCount + 1
    /\ IF reached
       THEN /\ DeliverBatch
            /\ unacked' = [m \in Msgs |-> unacked[m] + Copies(m, batch)]
            /\ sinceSend' = 0
       ELSE UNCHANGED <<delivered, unacked, sinceSend>>
    /\ \/ pc' = "send"
       \/ tryCount >= MinRetryCount /\ pc' = "requeue"
    /\ UNCHANGED <<queue, lists, cool, sinceTurn, pushedPreviousTurn, turn,
                   batch, enqueued, stamp, silenced, putBack>>

\* The deferred function puts the messages back at the tail, one by one.
Requeue ==
    /\ pc = "requeue" /\ batch # <<>>
    /\ Enqueue(Head(batch))
    /\ batch' = Tail(batch)
    /\ pc' = IF Tail(batch) = <<>> THEN "sleep" ELSE "requeue"
    /\ UNCHANGED <<pushedPreviousTurn, at, firstNonEmptyQueue,
                   tryCount, faults, counts, sinceTurn, sinceSend>>

\* Time passes.
Tick ==
    /\ cool' = [r \in Receivers |-> Minus1(cool[r])]
    /\ sinceTurn' = [r \in Receivers |-> Plus1(sinceTurn[r], Cooldown)]
    /\ sinceSend' = Plus1(sinceSend, PushSleep)
    /\ UNCHANGED <<queue, lists, pc, pushedPreviousTurn, turn, sending, counts>>

-----------------------------------------------------------------------------
PusherStep ==
    \/ StartTurn \/ Look \/ EndScan
    \/ \E k \in 0..BatchSize : Dequeue(k)
    \/ \E S \in SUBSET Silenceable : Filter(S)
    \/ CannotSend \/ SendSucceeds
    \/ \E reached \in BOOLEAN : SendFails(reached)
    \/ Requeue

Next ==
    \/ \E m \in Msgs : EnqueueMessage(m)
    \/ PusherStep
    \/ Tick

Spec == Init /\ [][Next]_vars

\* The pusher's loop has no exit, and time goes on.
FairSpec == Spec /\ WF_vars(PusherStep) /\ WF_vars(Tick)

-----------------------------------------------------------------------------
QueuesType ==
    /\ queue \in [Receivers -> Seq(Msgs)]
    /\ priorityQueue \in Seq(Receivers) /\ nonPriorityQueue \in Seq(Receivers)

TurnType ==
    /\ snap \in Seq(Receivers) /\ shared \in BOOLEAN /\ at \in Nat \ {0}
    /\ firstNonEmptyQueue \in Receivers \cup {NoReceiver}

SendingType == batch \in Seq(Msgs) /\ tryCount \in Nat /\ faults \in 0..MaxFaults

CountsType ==
    /\ enqueued \in Nat /\ stamp \in [Msgs -> Nat]
    /\ delivered \in [Msgs -> Nat] /\ silenced \in [Msgs -> Nat]
    /\ putBack \in [Msgs -> Nat] /\ unacked \in [Msgs -> Nat]

ClocksType ==
    /\ cool \in [Receivers -> 0..Cooldown]
    /\ sinceTurn \in [Receivers -> 0..Cooldown]
    /\ sinceSend \in 0..PushSleep

\* Every variable has its type.
TypeOK ==
    /\ QueuesType /\ TurnType /\ SendingType /\ CountsType /\ ClocksType
    /\ pc \in {"sleep", "scan", "dequeue", "filter", "send", "requeue"}
    /\ pushedPreviousTurn \in BOOLEAN

Waiting(r)   == Range(queue[r])
InSystem     == Range(batch) \cup UNION {Waiting(r) : r \in Receivers}
DeliveredSet == {m \in Msgs : delivered[m] > 0}
SilencedSet  == {m \in Msgs : silenced[m] > 0}

\* The push service implements the promise of AlertOutbox: through batches,
\* put-backs, failed attempts and re-enqueueing, an accepted message stays in a
\* queue or in the hands of the pusher until it is delivered or silenced, and
\* every delivery is for one receiver (telegram_pusher.go:106-192,
\* receiver_based_queue.go:67-110).
Outbox == INSTANCE AlertOutbox
            WITH owed <- InSystem \ (DeliveredSet \cup SilencedSet),
                 delivered <- DeliveredSet, silenced <- SilencedSet
ImplementsOutbox == Outbox!Spec

\* No accepted message disappears.
NothingLost == Accepted \subseteq InSystem \cup DeliveredSet \cup SilencedSet

\* Every queue that holds messages is in exactly one of the lists, once, and
\* holds messages of its receiver (telegram_pusher.go:51-61): the pusher will
\* look at it, and EnqueueMessageWL does not panic.
NoOrphanQueue ==
    /\ \A r \in Receivers : queue[r] # <<>> => r \in InUse
    /\ \A r \in Receivers : \A m \in Waiting(r) : To[m] = r
    /\ IsInjective(priorityQueue) /\ IsInjective(nonPriorityQueue)
    /\ Range(priorityQueue) \cap Range(nonPriorityQueue) = {}

\* The list a turn goes through names queues of the service, none of them
\* twice, even when an enqueue writes into the array it shares with
\* priorityQueue (telegram_pusher.go:57, 199): it may then miss a queue, but
\* never serves a receiver twice or reads an entry that is not a queue.
SnapshotSound == Range(snap) \subseteq InUse /\ IsInjective(snap)

\* The chosen queue is still not empty when it is dequeued: "unexpected no
\* message" (telegram_pusher.go:114) cannot happen, whatever is enqueued
\* between the choice and the dequeue.
NoUnexpectedNoMessage == pc = "dequeue" => queue[firstNonEmptyQueue] # <<>>

\* Two turns of a receiver are at least Cooldown apart
\* (receiver_based_queue.go:83, telegram_pusher.go:99).
TurnsOfReceiverSpaced == pc = "dequeue" => sinceTurn[firstNonEmptyQueue] >= Cooldown

\* The only copies of a message are those that a put-back or an attempt that
\* failed after delivery made: in the queues, in hand, delivered or dropped,
\* the copies add up (receiver_based_queue.go:102-107, telegram_pusher.go:154-161).
CopiesAccounted ==
    \A m \in Accepted :
        Copies(m, queue[To[m]]) + Copies(m, batch) + delivered[m] + silenced[m]
            = 1 + putBack[m] + unacked[m]

\* As long as no attempt failed, a receiver gets its messages in the order they
\* were enqueued: none is delivered before an earlier one.
DeliveredInOrder ==
    \A m, n \in Accepted :
        faults = 0 /\ To[m] = To[n] /\ stamp[m] < stamp[n] /\ delivered[n] > 0
            => delivered[m] > 0 \/ silenced[m] > 0

\* What Telegram is asked to send is within its limit.  The code means to cut
\* every batch so (receiver_based_queue.go:71 and 94-95, "do not enqueue"), and
\* does not, as it hands out what it put back, too: see PutBackIsNotHandedOut.
BatchesWithinLimit == [](pc = "send" => Fits(batch))

\* Every accepted message is delivered or silenced in the end, once failures
\* stop, unless a batch is handed out that is over the limit: such a batch is
\* refused, enqueued again and refused again (telegram_pusher.go:76-192).
EventuallyDelivered ==
    BatchesWithinLimit =>
        \A m \in Msgs : stamp[m] > 0 ~> delivered[m] > 0 \/ silenced[m] > 0

-----------------------------------------------------------------------------
(* What comments of the code say, and the code does not do.                *)

\* receiver_based_queue.go:95 and 103-105: once the "threshold [is] reached",
\* the rest is "put ... back to queue": it is not handed out as well.
PutBackIsNotHandedOut ==
    pc = "filter" => Range(batch) \cap Waiting(firstNonEmptyQueue) = {}
=============================================================================
