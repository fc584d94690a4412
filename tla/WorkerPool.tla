----------------------------- MODULE WorkerPool -----------------------------
(***************************************************************************)
(* The workers of the process collector (internal/collector/process).      *)
(* Collect sends one request per process to a channel of the collector and *)
(* waits until its requests have been done.  Workers, started by Build,    *)
(* take the requests and send metrics to the channel that Collect was      *)
(* called with.  A worker that panics is replaced.  collectV1 and          *)
(* collectV2 have the same control; both are modelled here.                *)
(*                                                                         *)
(* A call that was given up after its timeout goes on beside the next one. *)
(* The channel of a call is closed when the call ends, whether it returns  *)
(* or panics (collect.go:125-133).                                         *)
(***************************************************************************)
EXTENDS Naturals, Sequences, FiniteSets

CONSTANTS
  Calls,       \* calls of Collect
  Workers,     \* the workers that Build starts
  ChanCap,     \* capacity of the request channel (32 in the code)
  MaxRequests, \* bound: processes that each call finds
  MaxPanics    \* bound: panics of workers

ASSUME WorkerPoolAssumption ==
  /\ ChanCap \in Nat \ {0} /\ MaxRequests \in [Calls -> Nat] /\ MaxPanics \in Nat
  /\ Calls # {} /\ IsFiniteSet(Workers) /\ Workers # {}

VARIABLES
  queue,       \* the requests in the channel, as calls
  chan,        \* the channel: "open" or "closed"
  field,       \* c.workerCh: "chan" or "nil"
  pc,          \* of each call: "idle", "read", "loop", "send", "wait", "ended"
  todo,        \* the processes it has not looked at yet
  wg,          \* its wait group
  panicked,    \* the calls that ended with a panic
  late,        \* the calls that timed out
  worker,      \* of each worker: "start", "range", "work", "stuck", "ended",
  req,         \* and the call whose request it works on
  closing,     \* Close: "no", "closed", "done"
  panics,
  strays       \* the calls whose channel a worker sent to after it was closed

callVars == <<pc, todo, wg, panicked, late>>
workVars == <<worker, req, panics, strays>>
vars == <<queue, chan, field, callVars, workVars, closing>>

Init ==
  /\ queue = <<>> /\ chan = "open" /\ field = "chan"
  /\ pc = [k \in Calls |-> "idle"]
  /\ todo = [k \in Calls |-> 0]
  /\ wg = [k \in Calls |-> 0]
  /\ panicked = {} /\ late = {}
  /\ worker = [w \in Workers |-> "start"]
  /\ req \in [Workers -> {CHOOSE k \in Calls : TRUE}]
  /\ closing = "no" /\ panics = 0 /\ strays = {}

-----------------------------------------------------------------------------
(* Collect.                                                                *)

\* The next scrape does not wait for a call that has timed out.  One that begins
\* after Close finds the counters closed, returns an error and is left out.
Begin(k) ==
  /\ pc[k] = "idle" /\ closing = "no"
  /\ \A j \in Calls : pc[j] \in {"idle", "ended"} \/ j \in late
  /\ pc' = [pc EXCEPT ![k] = "read"]
  /\ UNCHANGED <<queue, chan, field, todo, wg, panicked, late, workVars, closing>>

\* The worker processes, if they are asked for, or the counters cannot be read.
ReadFails(k) ==
  /\ pc[k] = "read"
  /\ pc' = [pc EXCEPT ![k] = "ended"]
  /\ UNCHANGED <<queue, chan, field, todo, wg, panicked, late, workVars, closing>>

Found(k) ==
  /\ pc[k] = "read"
  /\ \E n \in 0..MaxRequests[k] : todo' = [todo EXCEPT ![k] = n]
  /\ pc' = [pc EXCEPT ![k] = "loop"]
  /\ UNCHANGED <<queue, chan, field, wg, panicked, late, workVars, closing>>

Timeout(k) ==
  /\ pc[k] \in {"read", "loop", "send", "wait"}
  /\ late' = late \cup {k}
  /\ UNCHANGED <<queue, chan, field, pc, todo, wg, panicked, workVars, closing>>

Add(k) ==
  /\ pc[k] = "loop" /\ todo[k] > 0
  /\ todo' = [todo EXCEPT ![k] = @ - 1]
  /\ wg' = [wg EXCEPT ![k] = @ + 1]
  /\ pc' = [pc EXCEPT ![k] = "send"]
  /\ UNCHANGED <<queue, chan, field, panicked, late, workVars, closing>>

\* c.workerCh <- request.  It waits for room; on a closed channel it panics, and
\* on a nil channel it waits for ever.
Send(k) ==
  /\ pc[k] = "send" /\ field = "chan"
  /\ \/ /\ chan = "open" /\ Len(queue) < ChanCap
        /\ queue' = Append(queue, k)
        /\ pc' = [pc EXCEPT ![k] = "loop"]
        /\ UNCHANGED panicked
     \/ /\ chan = "closed"
        /\ pc' = [pc EXCEPT ![k] = "ended"]
        /\ panicked' = panicked \cup {k}
        /\ UNCHANGED queue
  /\ UNCHANGED <<chan, field, todo, wg, late, workVars, closing>>

EndLoop(k) ==
  /\ pc[k] = "loop" /\ todo[k] = 0
  /\ pc' = [pc EXCEPT ![k] = "wait"]
  /\ UNCHANGED <<queue, chan, field, todo, wg, panicked, late, workVars, closing>>

\* Mutant of Wait: Collect returns at once.
WaitNot(k) ==
  /\ pc[k] = "wait"
  /\ pc' = [pc EXCEPT ![k] = "ended"]
  /\ UNCHANGED <<queue, chan, field, todo, wg, panicked, late, workVars, closing>>

\* wg.Wait; when Collect has returned the channel of the call is closed.
Wait(k) ==
  /\ pc[k] = "wait" /\ wg[k] = 0
  /\ pc' = [pc EXCEPT ![k] = "ended"]
  /\ UNCHANGED <<queue, chan, field, todo, wg, panicked, late, workVars, closing>>

-----------------------------------------------------------------------------
(* collectWorker.                                                          *)

\* The range expression is evaluated once: on a nil channel it waits for ever.
Start(w) ==
  /\ worker[w] = "start"
  /\ worker' = [worker EXCEPT ![w] = IF field = "chan" THEN "range" ELSE "stuck"]
  /\ UNCHANGED <<queue, chan, field, callVars, req, panics, strays, closing>>

\* Mutant of Receive: the worker looks at the channel again and again.
ReceiveNothing(w) ==
  /\ worker[w] = "range"
  /\ worker' = [worker EXCEPT ![w] = "start"]
  /\ UNCHANGED <<queue, chan, field, callVars, req, panics, strays, closing>>

Receive(w) ==
  /\ worker[w] = "range"
  /\ \/ /\ queue # <<>>
        /\ queue' = Tail(queue)
        /\ req' = [req EXCEPT ![w] = Head(queue)]
        /\ worker' = [worker EXCEPT ![w] = "work"]
     \/ /\ queue = <<>> /\ chan = "closed"
        /\ worker' = [worker EXCEPT ![w] = "ended"]
        /\ UNCHANGED <<queue, req>>
  /\ UNCHANGED <<chan, field, callVars, panics, strays, closing>>

Done(k) == wg' = [wg EXCEPT ![k] = @ - 1]

\* The metrics are sent and waitGroup.Done runs as the function returns.  A send
\* to the closed channel of a call that has ended panics.
Finish(w) ==
  /\ worker[w] = "work" /\ pc[req[w]] # "ended"
  /\ Done(req[w])
  /\ worker' = [worker EXCEPT ![w] = "range"]
  /\ UNCHANGED <<queue, chan, field, pc, todo, panicked, late, req, panics, strays,
                 closing>>

\* A panic: the deferred Done runs, then the deferred function starts a worker
\* in place of this one.
Panic(w) ==
  /\ worker[w] = "work"
  /\ \/ pc[req[w]] = "ended" /\ strays' = strays \cup {req[w]} /\ UNCHANGED panics
     \/ /\ pc[req[w]] # "ended" /\ panics < MaxPanics
        /\ panics' = panics + 1
        /\ UNCHANGED strays
  /\ Done(req[w])
  /\ worker' = [worker EXCEPT ![w] = "start"]
  /\ UNCHANGED <<queue, chan, field, pc, todo, panicked, late, req, closing>>

-----------------------------------------------------------------------------
(* Close, under a lock that Collect does not take: it may run at any time. *)

CloseChannel ==
  /\ closing = "no"
  /\ closing' = "closed" /\ chan' = "closed"
  /\ UNCHANGED <<queue, field, callVars, workVars>>

ForgetChannel ==
  /\ closing = "closed"
  /\ closing' = "done" /\ field' = "nil"
  /\ UNCHANGED <<queue, chan, callVars, workVars>>

CallStep(k) == ReadFails(k) \/ Found(k) \/ Add(k) \/ Send(k) \/ EndLoop(k) \/ Wait(k)
WorkerStep(w) == Start(w) \/ Receive(w) \/ Finish(w) \/ Panic(w)

Next ==
  \/ CloseChannel \/ ForgetChannel
  \/ \E k \in Calls : Begin(k) \/ Timeout(k) \/ CallStep(k)
  \/ \E w \in Workers : WorkerStep(w)

Spec == Init /\ [][Next]_vars

-----------------------------------------------------------------------------
(* Properties.                                                             *)

Places(q, k) == {i \in 1..Len(q) : q[i] = k}
Queued(k) == Cardinality(Places(queue, k))
InWork(k) == {w \in Workers : worker[w] = "work" /\ req[w] = k}

\* Every variable has its type, and the channel keeps to its capacity.
TypeOK ==
  /\ queue \in Seq(Calls) /\ Len(queue) <= ChanCap
  /\ chan \in {"open", "closed"} /\ field \in {"chan", "nil"}
  /\ pc \in [Calls -> {"idle", "read", "loop", "send", "wait", "ended"}]
  /\ todo \in [Calls -> Nat] /\ wg \in [Calls -> Nat]
  /\ panicked \subseteq Calls /\ late \subseteq Calls
  /\ worker \in [Workers -> {"start", "range", "work", "stuck", "ended"}]
  /\ req \in [Workers -> Calls]
  /\ closing \in {"no", "closed", "done"} /\ panics \in 0..MaxPanics
  /\ strays \subseteq Calls

\* The wait group of a call is the number of its requests that are in the
\* channel, in work or about to be sent: panics of workers and the requests of
\* an overlapping call leave it exact (process_v2.go:71-82, 102).
WaitGroupIsExact ==
  \A k \in Calls \ panicked :
    wg[k] = Queued(k) + Cardinality(InWork(k)) + (IF pc[k] = "send" THEN 1 ELSE 0)

\* A worker sends to the channel of a call after it was closed only if the call
\* itself has panicked, and a call panics only if Close runs beside it: a call
\* that returns has no request left anywhere (process_v2.go:46-53, 71-102).
NoStraySend ==
  /\ strays \subseteq panicked
  /\ panicked # {} => closing # "no"

\* As long as the collector is not closed the pool keeps its size: a worker is
\* ready, at work, or about to start.
PoolKeepsItsSize ==
  closing = "no" => \A w \in Workers : worker[w] \in {"start", "range", "work"}

\* No call waits for a request that nobody has: what a call in wg.Wait still
\* counts is in the channel or in work, and before Close a channel that is not
\* empty, which a full one is not, has a worker that empties it or will
\* (process_v2.go:71-82, 96-102).
WaitersAreServed ==
  /\ \A k \in Calls : pc[k] = "wait" /\ wg[k] > 0 => Places(queue, k) # {} \/ InWork(k) # {}
  /\ closing = "no" /\ queue # <<>> =>
       field = "chan" /\ \E w \in Workers : worker[w] \in {"start", "range", "work"}

\* Every call ends, whatever the query and the workers do, unless the collector is closed
\* while it runs: it may then wait on the nil channel, or for requests that no
\* worker is left to take.
EveryCallEnds ==
  \A k \in Calls : pc[k] = "read" ~> pc[k] = "ended" \/ closing # "no"
=============================================================================
