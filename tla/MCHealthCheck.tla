--------------------------- MODULE MCHealthCheck ---------------------------
(***************************************************************************)
(* Instances of HealthCheck for TLC.                                       *)
(***************************************************************************)
EXTENDS UptimeWindow, TLC

CONSTANTS w1, w2, v1, v2, alice, bob, rpc

Healthy    == [bond |-> "bonded", sign |-> "signing", missed |-> 0]
Missing(n) == [bond |-> "bonded", sign |-> "signing", missed |-> n]
Jailed     == [bond |-> "unbonding", sign |-> "jailed", missed |-> 0]
Tombstoned == [bond |-> "unbonded", sign |-> "tombstoned", missed |-> 0]
NoInfo     == [bond |-> "bonded", sign |-> "noInfo", missed |-> 0]
Absent     == [bond |-> "absent", sign |-> "noInfo", missed |-> 0]

\* A window of 20 blocks of which 10 must be signed.
TwentyBlocks == [window |-> 20, min |-> 10]
NoSlashing   == [window |-> 20, min |-> 0]

EveryKind    == {Healthy, Missing(7), Jailed, Tombstoned, NoInfo, Absent}
UpOrDown     == {Healthy, Missing(7)}

OneParams    == {TwentyBlocks}
TwoParams    == {TwentyBlocks, NoSlashing}

AliceWatches == v1 :> {alice}
BobWatches   == v1 :> {bob}
BobOfTwo     == v1 :> {bob} @@ v2 :> {bob}
=============================================================================
