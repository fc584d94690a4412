--------------------------- MODULE MCPdhCollector ---------------------------
(* Instances of PdhCollector for TLC. *)
EXTENDS PdhCollector
=============================================================================
