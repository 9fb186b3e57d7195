-------------------------- MODULE MCTelegramPusher --------------------------
(***************************************************************************)
(* Instances of TelegramPusher for TLC.                                    *)
(***************************************************************************)
EXTENDS TelegramPusher, TLC

CONSTANTS r1, r2, r3, r4, r5, m1, m2, m3, m4, m5

TwoReceivers   == {r1, r2}
ThreeMessages  == {m1, m2, m3}

\* r1 gets two messages, r2 one; r1 is a root user.
TwoAndOne == m1 :> r1 @@ m2 :> r1 @@ m3 :> r2
RootIsR1  == {m1, m2}

\* All messages to one receiver.
AllToR1   == m1 :> r1 @@ m2 :> r1 @@ m3 :> r1

\* The first two messages exceed the limit of 4 together, either of them and the
\* third reach it.
TwoExceed == m1 :> 2 @@ m2 :> 2 @@ m3 :> 1

\* Four root users and one other user, one short message each: with three
\* priority queues the array behind priorityQueue has room for one more.
FiveReceivers == {r1, r2, r3, r4, r5}
FiveMessages  == {m1, m2, m3, m4, m5}
OneEach  == m1 :> r1 @@ m2 :> r2 @@ m3 :> r3 @@ m4 :> r4 @@ m5 :> r5
FourRoot == {m1, m2, m3, m4}
AllShort == [m \in FiveMessages |-> 1]
=============================================================================
