------------------------------ MODULE MiQuery -------------------------------
(***************************************************************************)
(* Session.QueryUnmarshal of the Management Infrastructure client          *)
(* (internal/mi).  The query is answered on a thread of the MI library,    *)
(* which calls InstanceResult once per instance; the caller reads errCh    *)
(* until the callback with moreResults == False has closed it.             *)
(*                                                                         *)
(* An instance is its number and what GetElement gives for each field with *)
(* an mi tag: a value, nothing (no such property, or a null string) or an  *)
(* error (a failed call, or a type that is not supported).  A value is the *)
(* number of the instance that it comes from; 0 is Go's zero value.        *)
(***************************************************************************)
EXTENDS Naturals, Sequences

CONSTANTS
  Queries,       \* calls of QueryUnmarshal
  Fields,        \* the fields of the element type, in the order 1, 2, ...
  MaxInstances   \* bound: callbacks of each query

VARIABLES
  caller,   \* of each query: "idle", "read", "returned", "failed", "taken"
  thread,   \* of MI: "none", "wait", "send", "over"
  last,     \* moreResults == False in the callback that sends
  count,    \* callbacks so far
  errCh,    \* number of errors in the channel, which has room for one
  closed,   \* errCh has been closed
  failed,   \* callbacks that met an error
  errs,     \* errors the caller has received
  elem,     \* o.elemValue
  dst       \* the rows, each with the instance and the fields that it had

nativeVars == <<thread, last, count, failed, elem, dst>>
vars == <<caller, nativeVars, errCh, closed, errs>>

Zero == [f \in Fields |-> 0]

Init ==
  /\ caller = [q \in Queries |-> "idle"] /\ thread = [q \in Queries |-> "none"]
  /\ last = [q \in Queries |-> FALSE] /\ count = [q \in Queries |-> 0]
  /\ errCh = [q \in Queries |-> 0] /\ closed = [q \in Queries |-> FALSE]
  /\ failed = [q \in Queries |-> 0] /\ errs = [q \in Queries |-> 0]
  /\ elem = [q \in Queries |-> Zero] /\ dst = [q \in Queries |-> <<>>]

\* An uninitialised session, a destination that is not a slice of structs, or an
\* error of the system call.
QueryFails(q) ==
  /\ caller[q] = "idle"
  /\ caller' = [caller EXCEPT ![q] = "failed"]
  /\ UNCHANGED <<nativeVars, errCh, closed, errs>>

\* NewUnmarshalOperationsCallbacks empties dst; the system call starts the
\* operation.
QueryStarts(q) ==
  /\ caller[q] = "idle"
  /\ caller' = [caller EXCEPT ![q] = "read"]
  /\ thread' = [thread EXCEPT ![q] = "wait"]
  /\ UNCHANGED <<last, count, failed, elem, dst, errCh, closed, errs>>

-----------------------------------------------------------------------------
(* InstanceResult.                                                         *)

\* External: the library calls back until it has said that this was the last.
Callback(q, l) ==
  /\ thread[q] = "wait" /\ count[q] < MaxInstances[q]
  /\ count[q] + 1 = MaxInstances[q] => l
  /\ count' = [count EXCEPT ![q] = @ + 1]

\* Deferred: the last callback closes errCh and then the operation, which nothing
\* else uses.
CallbackReturns(q, l) ==
  /\ closed' = [closed EXCEPT ![q] = l]
  /\ last' = [last EXCEPT ![q] = FALSE]
  /\ thread' = [thread EXCEPT ![q] = IF l THEN "over" ELSE "wait"]

MeetsError(q, l) ==
  /\ failed' = [failed EXCEPT ![q] = @ + 1]
  /\ last' = [last EXCEPT ![q] = l]
  /\ thread' = [thread EXCEPT ![q] = "send"]
  /\ UNCHANGED <<caller, dst, errCh, closed, errs>>

\* The result is not OK, or the elements cannot be counted.
CallbackFails(q) ==
  \E l \in BOOLEAN : Callback(q, l) /\ MeetsError(q, l) /\ UNCHANGED elem

\* No instance, or one without elements.
CallbackEmpty(q) ==
  \E l \in BOOLEAN :
    /\ Callback(q, l) /\ CallbackReturns(q, l)
    /\ UNCHANGED <<caller, failed, elem, dst, errCh, errs>>

\* The element that is reused for every instance, after the fields of had.
SetFields(q, had) ==
  [f \in Fields |-> IF f \in had THEN count[q] + 1 ELSE elem[q][f]]

AppendRow(q, has, row) ==
  dst' = [dst EXCEPT ![q] = Append(@, [of |-> count[q] + 1, has |-> has, row |-> row])]

\* Mutant of CallbackInstance: an element that cannot be read is skipped.
CallbackInstanceSkips(q) ==
  \E l \in BOOLEAN, had \in SUBSET Fields :
    /\ Callback(q, l) /\ CallbackReturns(q, l)
    /\ elem' = [elem EXCEPT ![q] = SetFields(q, had)]
    /\ AppendRow(q, Fields, SetFields(q, had))
    /\ UNCHANGED <<caller, failed, errCh, errs>>

\* The fields of had have a value, the others have none; the row is appended.
CallbackInstance(q) ==
  \E l \in BOOLEAN, had \in SUBSET Fields :
    /\ Callback(q, l) /\ CallbackReturns(q, l)
    /\ elem' = [elem EXCEPT ![q] = SetFields(q, had)]
    /\ AppendRow(q, had, SetFields(q, had))
    /\ UNCHANGED <<caller, failed, errCh, errs>>

\* The field bad cannot be read: those before it have been set, and there is no
\* row.
CallbackStops(q) ==
  \E l \in BOOLEAN, bad \in Fields : \E had \in SUBSET {f \in Fields : f < bad} :
    /\ Callback(q, l) /\ MeetsError(q, l)
    /\ elem' = [elem EXCEPT ![q] = SetFields(q, had)]

\* o.errCh <- err waits for room; then the callback returns.
SendError(q) ==
  /\ thread[q] = "send" /\ errCh[q] < 1
  /\ errCh' = [errCh EXCEPT ![q] = @ + 1]
  /\ CallbackReturns(q, last[q])
  /\ UNCHANGED <<caller, count, failed, elem, dst, errs>>

-----------------------------------------------------------------------------
(* The loop of QueryUnmarshal.                                             *)

\* Mutant of ReceiveError: the first error ends the loop.
ReceiveErrorReturns(q) ==
  /\ caller[q] = "read" /\ errCh[q] > 0
  /\ errCh' = [errCh EXCEPT ![q] = @ - 1]
  /\ errs' = [errs EXCEPT ![q] = @ + 1]
  /\ caller' = [caller EXCEPT ![q] = "returned"]
  /\ UNCHANGED <<nativeVars, closed>>

ReceiveError(q) ==
  /\ caller[q] = "read" /\ errCh[q] > 0
  /\ errCh' = [errCh EXCEPT ![q] = @ - 1]
  /\ errs' = [errs EXCEPT ![q] = @ + 1]
  /\ UNCHANGED <<caller, nativeVars, closed>>

\* Mutant of ReceiveClosed: the end of the callbacks ends the loop.
ReceiveClosedAtOnce(q) ==
  /\ caller[q] = "read" /\ closed[q]
  /\ caller' = [caller EXCEPT ![q] = "returned"]
  /\ UNCHANGED <<nativeVars, errCh, closed, errs>>

\* The channel is closed and empty: the errors are joined.
ReceiveClosed(q) ==
  /\ caller[q] = "read" /\ errCh[q] = 0 /\ closed[q]
  /\ caller' = [caller EXCEPT ![q] = "returned"]
  /\ UNCHANGED <<nativeVars, errCh, closed, errs>>

\* The function that called has its answer; nothing of the query is used again
\* but the operation, which the last callback may still have to close.
Take(q) ==
  /\ caller[q] \in {"returned", "failed"}
  /\ caller' = [caller EXCEPT ![q] = "taken"]
  /\ failed' = [failed EXCEPT ![q] = 0] /\ errs' = [errs EXCEPT ![q] = 0]
  /\ count' = [count EXCEPT ![q] = 0] /\ closed' = [closed EXCEPT ![q] = FALSE]
  /\ elem' = [elem EXCEPT ![q] = Zero] /\ dst' = [dst EXCEPT ![q] = <<>>]
  /\ UNCHANGED <<thread, last, errCh>>

NativeStep(q) ==
  \/ CallbackFails(q) \/ CallbackEmpty(q) \/ CallbackInstance(q) \/ CallbackStops(q)
  \/ SendError(q)
CallerStep(q) == ReceiveError(q) \/ ReceiveClosed(q)

Succeeded(q) == caller[q] = "returned" /\ errs[q] = 0
=============================================================================
