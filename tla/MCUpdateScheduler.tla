------------------------- MODULE MCUpdateScheduler --------------------------
(* Instance of UpdateScheduler for TLC.                                    *)
EXTENDS UpdateScheduler
=============================================================================
