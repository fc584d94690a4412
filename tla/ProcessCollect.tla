--------------------------- MODULE ProcessCollect ---------------------------
(***************************************************************************)
(* Collect of the process collector (internal/collector/process), composed *)
(* of the MI query for the worker processes of IIS and the worker pool.    *)
(* The rows of the query go along with every request to the pool.          *)
(***************************************************************************)
EXTENDS WorkerPool

CONSTANTS Fields, MaxInstances

VARIABLES
  enabled,  \* c.config.EnableWorkerProcess
  caller, thread, last, count, errCh, closed, failed, errs, elem, dst

Mi == INSTANCE MiQuery WITH Queries <- Calls
miVars == <<caller, thread, last, count, errCh, closed, failed, errs, elem, dst>>
allVars == <<vars, enabled, miVars>>

CInit == Init /\ Mi!Init /\ enabled \in BOOLEAN

CBegin(k) ==
  /\ Begin(k)
  /\ IF enabled THEN Mi!QueryStarts(k) \/ Mi!QueryFails(k) ELSE UNCHANGED miVars
  /\ UNCHANGED enabled

\* The query gives an error, or it does not and the counters cannot be read.
CReadFails(k) ==
  /\ ReadFails(k)
  /\ IF enabled THEN Mi!Take(k) ELSE UNCHANGED miVars
  /\ UNCHANGED enabled

CFound(k) ==
  /\ Found(k)
  /\ IF enabled THEN Mi!Succeeded(k) /\ Mi!Take(k) ELSE UNCHANGED miVars
  /\ UNCHANGED enabled

QueryStep(k) == Mi!CallerStep(k) /\ UNCHANGED <<vars, enabled>>
CallbackStep(k) == Mi!NativeStep(k) /\ UNCHANGED <<vars, enabled>>

ReadStep(k) == CReadFails(k) \/ CFound(k)
SendStep(k) == (Add(k) \/ Send(k) \/ EndLoop(k) \/ Wait(k)) /\ UNCHANGED <<enabled, miVars>>
PoolStep(w) == WorkerStep(w) /\ UNCHANGED <<enabled, miVars>>
CloseStep == (CloseChannel \/ ForgetChannel) /\ UNCHANGED <<enabled, miVars>>
Proceed(k) == QueryStep(k) \/ ReadStep(k) \/ SendStep(k)
CTimeout(k) == Timeout(k) /\ UNCHANGED <<enabled, miVars>>

CNext ==
  \/ CloseStep
  \/ \E k \in Calls :
       CBegin(k) \/ CTimeout(k) \/ Proceed(k) \/ CallbackStep(k)
  \/ \E w \in Workers : PoolStep(w)

CSpec == CInit /\ [][CNext]_allVars

\* Goroutines are scheduled, the counters are read or not in the end, and the MI
\* library calls back until the last time: NewSession gives every operation a
\* timeout of five seconds (application.go:179).
CFairSpec ==
  /\ CSpec
  /\ \A k \in Calls : WF_allVars(Proceed(k)) /\ WF_allVars(CallbackStep(k))
  /\ \A w \in Workers : WF_allVars(PoolStep(w))

-----------------------------------------------------------------------------
(* Properties.                                                             *)

\* A query returns every error that a callback met: errCh holds one only, and
\* the last callback closes it right after its own error (session.go:233-239,
\* callbacks.go:103-113).
NoErrorIsLost ==
  \A k \in Calls : caller[k] = "returned" => errs[k] = failed[k]

\* A value of another instance is in a row only where its own instance has none:
\* the element is reused (callbacks.go:130-176), so that a null string shows the
\* value of an instance before it, which may have had no row at all.
StaleOnlyIfMissing ==
  \A k \in Calls : \A i \in 1..Len(dst[k]) : \A f \in Fields :
    LET r == dst[k][i]
    IN  IF f \in r.has THEN r.row[f] = r.of ELSE r.row[f] < r.of

\* The rows that workers read are written no more, and the pool is not used while
\* a callback may run: even a call that timed out in its query comes to its loop
\* after the last callback has returned (process.go:320-333).
RowsAreSettled ==
  \A k \in Calls :
    pc[k] \notin {"idle", "read"} => thread[k] \in {"none", "over"}

=============================================================================
