-------------------------- MODULE MCChainScheduler --------------------------
(***************************************************************************)
(* Instance of ChainScheduler for TLC.                                     *)
(***************************************************************************)
EXTENDS ChainScheduler, TLC

CONSTANTS w1, w2

TwoWorkers   == {w1, w2}
WorkerSymmetry == Permutations(Workers)
=============================================================================
