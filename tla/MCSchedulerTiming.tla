------------------------- MODULE MCSchedulerTiming --------------------------
(***************************************************************************)
(* Instance of SchedulerTiming for TLC.                                    *)
(***************************************************************************)
EXTENDS SchedulerTiming

CONSTANTS w1, w2

OneWorker  == {w1}
=============================================================================
