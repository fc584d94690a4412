-------------------------- MODULE MCProcessCollect --------------------------
(* Instance of ProcessCollect for TLC: one call has up to two callbacks of *)
(* its query and two processes, the other has one of each.                 *)
EXTENDS ProcessCollect, TLC

CONSTANTS k1, k2

MCMaxInstances == k1 :> 2 @@ k2 :> 1
MCMaxRequests == k1 :> 2 @@ k2 :> 1
=============================================================================
