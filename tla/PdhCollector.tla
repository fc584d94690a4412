---------------------------- MODULE PdhCollector ----------------------------
(***************************************************************************)
(* The request/reply protocol of pdh.Collector (internal/pdh/collector.go):*)
(* NewCollectorWithReflection, Collect, collectWorkerRaw,                  *)
(* collectWorkerFormatted and Close.                                       *)
(*                                                                         *)
(* Callers hand their destination slice to one worker goroutine over the   *)
(* unbuffered channel collectCh and take the answer from the unbuffered    *)
(* channel errorCh, all of them under the read lock of mu only.  Close     *)
(* takes the write lock.  A call is one invocation of Collect or of Close. *)
(* The rows that the worker writes to a slice are abstracted to the number *)
(* of the CollectQueryData sample they come from.                          *)
(***************************************************************************)
EXTENDS Integers

CONSTANTS
  Calls,     \* invocations of Collect; each runs once, which bounds a behaviour
  Closes,    \* invocations of Close
  None       \* no call

ASSUME CallsAssumption ==
  /\ Calls \cap Closes = {}
  /\ None \notin Calls \cup Closes

VARIABLES
  new,       \* what NewCollectorWithReflection has returned
  handle,    \* the field handle: the PDH query, or zero
  chans,     \* the fields collectCh and errorCh
  closed,    \* the two channels have been closed
  readers,   \* calls that hold mu for reading
  pending,   \* the Close that has announced itself as the writer of mu
  writer,    \* the Close that holds mu for writing
  pc,        \* where each call is
  worker,    \* where the worker goroutine is
  job,       \* the call whose slice the worker got last
  answer,    \* the local variable err of the worker
  sample,    \* number of successful CollectQueryData calls
  dst,       \* the sample that the call's slice holds
  began,     \* the value of sample when the call took mu
  result     \* what Collect has returned

muVars == <<readers, pending, writer>>
fieldVars == <<new, handle, chans, closed>>
workerVars == <<worker, job, answer, sample, dst>>
callVars == <<pc, began, result>>
vars == <<muVars, fieldVars, workerVars, callVars>>

Answers == {"nil", "noData", "error"}

NoResult == [of |-> None, answer |-> "none"]

Init ==
  /\ new = "none"
  /\ handle = "zero" /\ chans = "nil" /\ closed = FALSE
  /\ readers = {} /\ pending = None /\ writer = None
  /\ pc = [c \in Calls \cup Closes |-> "idle"]
  /\ worker = "off" /\ job = None /\ answer = "nil"
  /\ sample = 0
  /\ dst = [c \in Calls |-> 0]
  /\ began = [c \in Calls |-> 0]
  /\ result = [c \in Calls |-> NoResult]

-----------------------------------------------------------------------------
(* The constructor.  The Collect it ends with is one of the Calls.         *)

\* All counters were added: the channels are made and the worker started.
NewReady ==
  /\ new = "none"
  /\ new' = "ready"
  /\ handle' = "open"
  /\ chans' = "open"
  /\ worker' = "range"
  /\ UNCHANGED <<muVars, closed, job, answer, sample, dst, callVars>>

\* A counter could not be added: the collector is returned with an error; it
\* has an open query and no channels.
NewBroken ==
  /\ new = "none"
  /\ new' = "broken"
  /\ handle' = "open"
  /\ UNCHANGED <<muVars, chans, closed, workerVars, callVars>>

\* OpenQuery failed, or there is no counter: the collector is nil.
NewNil ==
  /\ new = "none"
  /\ new' = "nil"
  /\ UNCHANGED <<muVars, handle, chans, closed, workerVars, callVars>>

-----------------------------------------------------------------------------
(* Collect.                                                                *)

Finish(c, r) ==
  /\ result' = [result EXCEPT ![c] = r]
  /\ pc' = [pc EXCEPT ![c] = "done"]

\* c == nil: return ErrPerformanceCounterNotInitialized
CollectNil(c) ==
  /\ pc[c] = "idle" /\ new = "nil"
  /\ Finish(c, [of |-> c, answer |-> "notInitialized"])
  /\ UNCHANGED <<muVars, fieldVars, workerVars, began>>

\* c.mu.RLock: waits while a writer holds the lock or is announced.
RLock(c) ==
  /\ pc[c] = "idle" /\ new \in {"ready", "broken"}
  /\ pending = None /\ writer = None
  /\ readers' = readers \cup {c}
  /\ pc' = [pc EXCEPT ![c] = "check"]
  /\ began' = [began EXCEPT ![c] = sample]
  /\ UNCHANGED <<pending, writer, fieldVars, workerVars, result>>

\* Mutant of CheckFails: a closed collector answers like one whose query failed.
CheckFailsAsQuery(c) ==
  /\ pc[c] = "check"
  /\ handle = "zero" \/ chans = "nil"
  /\ readers' = readers \ {c}
  /\ Finish(c, [of |-> c, answer |-> "error"])
  /\ UNCHANGED <<pending, writer, fieldVars, workerVars, began>>

\* Mutant of CheckFails: Collect waits for the collector to be initialised.
CheckFailsWaits(c) ==
  /\ pc[c] = "check"
  /\ handle = "zero" \/ chans = "nil"
  /\ UNCHANGED vars

\* No handle or no channels: return ErrPerformanceCounterNotInitialized, and
\* the deferred RUnlock.
CheckFails(c) ==
  /\ pc[c] = "check"
  /\ handle = "zero" \/ chans = "nil"
  /\ readers' = readers \ {c}
  /\ Finish(c, [of |-> c, answer |-> "notInitialized"])
  /\ UNCHANGED <<pending, writer, fieldVars, workerVars, began>>

CheckPasses(c) ==
  /\ pc[c] = "check"
  /\ handle = "open" /\ chans = "open"
  /\ pc' = [pc EXCEPT ![c] = "send"]
  /\ UNCHANGED <<muVars, fieldVars, workerVars, began, result>>

\* Mutant of SendData: the slice is handed over without waiting for the worker.
SendDataAnyTime(c) ==
  /\ pc[c] = "send"
  /\ ~closed
  /\ pc' = [pc EXCEPT ![c] = "receive"]
  /\ worker' = "query"
  /\ job' = c
  /\ UNCHANGED <<muVars, fieldVars, answer, sample, dst, began, result>>

\* c.collectCh <- dst, received by the worker's range.
SendData(c) ==
  /\ pc[c] = "send"
  /\ worker = "range" /\ ~closed
  /\ pc' = [pc EXCEPT ![c] = "receive"]
  /\ worker' = "query"
  /\ job' = c
  /\ UNCHANGED <<muVars, fieldVars, answer, sample, dst, began, result>>

\* Mutant of ReceiveError: the worker goes on with the slice after its answer.
ReceiveErrorGoesOn(c) ==
  /\ pc[c] = "receive"
  /\ worker = "reply" /\ chans = "open"
  /\ pc' = [pc EXCEPT ![c] = "unlock"]
  /\ result' = [result EXCEPT ![c] = [of |-> job, answer |-> answer]]
  /\ worker' = "query"
  /\ UNCHANGED <<muVars, fieldVars, job, answer, sample, dst, began>>

\* return <-c.errorCh, sent by the worker: any caller that waits there may be
\* the one that gets it.
ReceiveError(c) ==
  /\ pc[c] = "receive"
  /\ worker = "reply" /\ chans = "open"
  /\ pc' = [pc EXCEPT ![c] = "unlock"]
  /\ result' = [result EXCEPT ![c] = [of |-> job, answer |-> answer]]
  /\ worker' = "range"
  /\ UNCHANGED <<muVars, fieldVars, job, answer, sample, dst, began>>

\* The deferred RUnlock.
RUnlock(c) ==
  /\ pc[c] = "unlock"
  /\ readers' = readers \ {c}
  /\ pc' = [pc EXCEPT ![c] = "done"]
  /\ UNCHANGED <<pending, writer, fieldVars, workerVars, began, result>>

-----------------------------------------------------------------------------
(* The worker.                                                             *)

\* CollectQueryData succeeds.
Query ==
  /\ worker = "query"
  /\ sample' = sample + 1
  /\ worker' = "fill"
  /\ UNCHANGED <<muVars, fieldVars, job, answer, dst, callVars>>

\* CollectQueryData fails; the slice is not touched.
QueryFails ==
  /\ worker = "query"
  /\ answer' = "error"
  /\ worker' = "reply"
  /\ UNCHANGED <<muVars, fieldVars, job, sample, dst, callVars>>

\* The slice is cleared and filled from the counters; it may stay empty
\* (ErrNoData), and a counter array that cannot be read ends it early.
Fill ==
  /\ worker = "fill"
  /\ dst' = [dst EXCEPT ![job] = sample]
  /\ answer' \in Answers
  /\ worker' = "reply"
  /\ UNCHANGED <<muVars, fieldVars, job, sample, callVars>>

\* Mutant of WorkerExits: receiving from the closed channel does not end the loop.
WorkerSpins ==
  /\ worker = "range" /\ closed
  /\ UNCHANGED vars

\* The range over collectCh ends.
WorkerExits ==
  /\ worker = "range" /\ closed
  /\ worker' = "exit"
  /\ UNCHANGED <<muVars, fieldVars, job, answer, sample, dst, callVars>>

-----------------------------------------------------------------------------
(* Close.                                                                  *)

CloseNil(x) ==
  /\ pc[x] = "idle" /\ new = "nil"
  /\ pc' = [pc EXCEPT ![x] = "done"]
  /\ UNCHANGED <<muVars, fieldVars, workerVars, began, result>>

\* First half of mu.Lock: from here on new readers wait.
AnnounceLock(x) ==
  /\ pc[x] = "idle" /\ new \in {"ready", "broken"}
  /\ pending = None /\ writer = None
  /\ pending' = x
  /\ pc' = [pc EXCEPT ![x] = "lock"]
  /\ UNCHANGED <<readers, writer, fieldVars, workerVars, began, result>>

\* Mutant of Lock: Close does not wait for the calls in progress.
LockAtOnce(x) ==
  /\ pc[x] = "lock"
  /\ pending' = None
  /\ writer' = x
  /\ pc' = [pc EXCEPT ![x] = "close"]
  /\ UNCHANGED <<readers, fieldVars, workerVars, began, result>>

\* Second half of mu.Lock: the last reader has left.
Lock(x) ==
  /\ pc[x] = "lock" /\ readers = {}
  /\ pending' = None
  /\ writer' = x
  /\ pc' = [pc EXCEPT ![x] = "close"]
  /\ UNCHANGED <<readers, fieldVars, workerVars, began, result>>

\* CloseQuery(c.handle); c.handle = 0
CloseQuery(x) ==
  /\ pc[x] = "close"
  /\ handle' = "zero"
  /\ pc' = [pc EXCEPT ![x] = "channels"]
  /\ UNCHANGED <<muVars, new, chans, closed, workerVars, began, result>>

\* close and forget the channels that are there, and the deferred Unlock.
CloseChannels(x) ==
  /\ pc[x] = "channels"
  /\ closed' = (closed \/ chans = "open")
  /\ chans' = "nil"
  /\ writer' = None
  /\ pc' = [pc EXCEPT ![x] = "done"]
  /\ UNCHANGED <<readers, pending, new, handle, workerVars, began, result>>

-----------------------------------------------------------------------------
New == NewReady \/ NewBroken \/ NewNil

Collect(c) ==
  \/ CollectNil(c) \/ RLock(c) \/ CheckFails(c) \/ CheckPasses(c)
  \/ SendData(c) \/ ReceiveError(c) \/ RUnlock(c)

Worker == Query \/ QueryFails \/ Fill \/ WorkerExits

Close(x) ==
  CloseNil(x) \/ AnnounceLock(x) \/ Lock(x) \/ CloseQuery(x) \/ CloseChannels(x)

\* Every call has returned.
AllReturned ==
  /\ \A c \in Calls \cup Closes : pc[c] = "done"
  /\ closed => worker = "exit"
  /\ UNCHANGED vars

Next ==
  \/ New
  \/ \E c \in Calls : Collect(c)
  \/ Worker
  \/ \E x \in Closes : Close(x)
  \/ AllReturned

Spec == Init /\ [][Next]_vars

\* Every call of the instance is made, goroutines that can run do, and the
\* calls into PDH return.
Fairness ==
  /\ WF_vars(New) /\ WF_vars(Worker)
  /\ \A c \in Calls : WF_vars(Collect(c))
  /\ \A x \in Closes : WF_vars(Close(x))

FairSpec == Spec /\ Fairness

-----------------------------------------------------------------------------
(* Properties.                                                             *)

TypeOK ==
  /\ new \in {"none", "nil", "broken", "ready"}
  /\ handle \in {"zero", "open"}
  /\ chans \in {"nil", "open"}
  /\ closed \in BOOLEAN
  /\ readers \in SUBSET Calls
  /\ pending \in Closes \cup {None}
  /\ writer \in Closes \cup {None}
  /\ pc \in [Calls \cup Closes -> {"idle", "check", "send", "receive", "unlock",
                                   "lock", "close", "channels", "done"}]
  /\ worker \in {"off", "range", "query", "fill", "reply", "exit"}
  /\ job \in Calls \cup {None}
  /\ answer \in Answers
  /\ sample \in Nat
  /\ dst \in [Calls -> Nat]
  /\ began \in [Calls -> Nat]
  /\ result \in [Calls -> [of : Calls \cup {None},
                           answer : Answers \cup {"none", "notInitialized"}]]

\* Although callers share errorCh and hold mu only for reading, no caller ever
\* gets the answer that belongs to another one, and the rows of a Collect that
\* succeeds were sampled during that very call, never earlier
\* (collector.go:285-287, 302, 447).
OwnAnswer ==
  \A c \in Calls :
    /\ result[c] # NoResult => result[c].of = c
    /\ result[c].answer \in {"nil", "noData"} => dst[c] > began[c]

\* While the worker deals with a caller's slice the query is open and so is
\* errorCh: it neither reads a closed query nor sends on a closed or nil channel
\* (collector.go:302, 447 against 595-608).
NoUseAfterClose ==
  worker \in {"query", "fill", "reply"} =>
    handle = "open" /\ chans = "open" /\ ~closed

\* Once Collect has returned, nobody writes to the caller's slice any more: the
\* worker has let go of it (collector.go:321-449).
SliceIsCallersAgain ==
  [][\A c \in Calls : pc[c] \in {"unlock", "done"} => dst'[c] = dst[c]]_vars

\* After a Close has returned every later Collect is refused and Close may be
\* called again (collector.go:281, 599-608).
ClosedForGood ==
  \A x \in Closes :
    pc[x] = "done" =>
      /\ handle = "zero" /\ chans = "nil"
      /\ \A c \in Calls : pc[c] \notin {"send", "receive"}

\* A call that has started and has not returned.
InProgress == {c \in Calls \cup Closes : pc[c] \notin {"idle", "done"}}

\* The next step of a call in progress needs no step of anybody else first.
CanGoOn(c) ==
  \/ pc[c] \in {"check", "unlock", "close", "channels"}
  \/ pc[c] = "send" /\ worker = "range" /\ ~closed
  \/ pc[c] = "receive" /\ worker = "reply" /\ chans = "open"
  \/ pc[c] = "lock" /\ readers = {}

\* Callers, worker and the writer of mu do not wait for each other in a circle:
\* as long as a call is in progress one of them can go on or the worker is in
\* PDH, and whoever waits for mu waits for a Close in progress
\* (collector.go:278-287, 300, 447, 592).
NoCircularWait ==
  /\ InProgress # {} => worker \in {"query", "fill"} \/ \E c \in InProgress : CanGoOn(c)
  /\ {pending, writer} # {None} => {pending, writer} \cap InProgress # {}

\* Every Collect and every Close returns, if PDH does: the worker, the callers
\* and the writer of mu never wait for each other in a circle.
EveryCallReturns ==
  \A c \in Calls \cup Closes : <>(pc[c] = "done")

\* Closing the channels ends the worker goroutine (collector.go:300, 600).
WorkerEnds == closed ~> worker = "exit"

-----------------------------------------------------------------------------
(* Refinement: a collector answers each call at one instant.               *)

Atomic == INSTANCE PdhService
            WITH open <- handle = "open" /\ chans = "open",
                 used <- new # "none",
                 reply <- [c \in Calls |-> result[c].answer]

\* To its callers the collector is an object whose calls take effect one at a
\* time, each between its start and its return (collector.go:273-288).
ImplementsAtomic == Atomic!ASpec
=============================================================================
