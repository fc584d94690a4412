---------------------------- MODULE MCEventLog ------------------------------
(* Instance of EventLog for TLC.                                           *)
EXTENDS EventLog

MCHandles == 1..3
=============================================================================
