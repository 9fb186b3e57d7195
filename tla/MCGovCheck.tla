----------------------------- MODULE MCGovCheck ----------------------------
(***************************************************************************)
(* Instances of GovCheck for TLC.                                          *)
(***************************************************************************)
EXTENDS GovCheck, TLC

CONSTANTS w1, w2, v1, alice

AliceWatches == v1 :> {alice}
=============================================================================
