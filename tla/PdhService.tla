----------------------------- MODULE PdhService -----------------------------
(***************************************************************************)
(* What pdh.Collector promises its callers: it may be opened once and shut *)
(* for good; each Collect is answered once, by data or an error while the  *)
(* collector is open and by "notInitialized" while it is not.              *)
(***************************************************************************)
CONSTANT Calls

VARIABLES
  open,    \* Collect reaches the performance counters
  used,    \* the constructor has run
  reply    \* the answer of each call

avars == <<open, used, reply>>

AInit ==
  /\ open = FALSE
  /\ used = FALSE
  /\ reply = [c \in Calls |-> "none"]

Construct ==
  /\ ~used
  /\ used' = TRUE
  /\ open' \in BOOLEAN
  /\ UNCHANGED reply

Answer(c) ==
  /\ open
  /\ reply[c] = "none"
  /\ \E a \in {"nil", "noData", "error"} : reply' = [reply EXCEPT ![c] = a]
  /\ UNCHANGED <<open, used>>

Refuse(c) ==
  /\ used /\ ~open
  /\ reply[c] = "none"
  /\ reply' = [reply EXCEPT ![c] = "notInitialized"]
  /\ UNCHANGED <<open, used>>

Shut ==
  /\ open
  /\ open' = FALSE
  /\ UNCHANGED <<used, reply>>

ANext ==
  \/ Construct
  \/ \E c \in Calls : Answer(c) \/ Refuse(c)
  \/ Shut

ASpec == AInit /\ [][ANext]_avars
=============================================================================
