---------------------------- MODULE ScrapeService ----------------------------
(***************************************************************************)
(* What the scrape endpoint promises, without goroutines or channels: a    *)
(* request names known collectors or is rejected; accepted requests are    *)
(* served one after the other; while one is served, each of its collectors *)
(* gets exactly one verdict; the request is answered when all have one.    *)
(***************************************************************************)
CONSTANTS Requests, Collectors

VARIABLES
  phase,    \* idle, rejected, waiting, serving or served
  wanted,   \* the collectors the request asks for
  verdict   \* success, failed or pending (timed out), once it is known

svars == <<phase, wanted, verdict>>

Verdicts == {"success", "failed", "pending"}

SInit ==
  /\ phase = [r \in Requests |-> "idle"]
  /\ wanted = [r \in Requests |-> {}]
  /\ verdict = [k \in Requests \X Collectors |-> "none"]

Reject(r) ==
  /\ phase[r] = "idle"
  /\ phase' = [phase EXCEPT ![r] = "rejected"]
  /\ UNCHANGED <<wanted, verdict>>

Accept(r) ==
  /\ phase[r] = "idle"
  /\ phase' = [phase EXCEPT ![r] = "waiting"]
  /\ \E S \in SUBSET Collectors :
       S # {} /\ wanted' = [wanted EXCEPT ![r] = S]
  /\ UNCHANGED verdict

Begin(r) ==
  /\ phase[r] = "waiting"
  /\ \A s \in Requests : phase[s] # "serving"
  /\ phase' = [phase EXCEPT ![r] = "serving"]
  /\ UNCHANGED <<wanted, verdict>>

Judge(r, c) ==
  /\ phase[r] = "serving"
  /\ c \in wanted[r]
  /\ verdict[<<r, c>>] = "none"
  /\ \E v \in Verdicts : verdict' = [verdict EXCEPT ![<<r, c>>] = v]
  /\ UNCHANGED <<phase, wanted>>

Answer(r) ==
  /\ phase[r] = "serving"
  /\ \A c \in wanted[r] : verdict[<<r, c>>] # "none"
  /\ phase' = [phase EXCEPT ![r] = "served"]
  /\ UNCHANGED <<wanted, verdict>>

SNext ==
  \E r \in Requests :
    Reject(r) \/ Accept(r) \/ Begin(r) \/ Answer(r) \/ \E c \in Collectors : Judge(r, c)

SSpec == SInit /\ [][SNext]_svars
=============================================================================
