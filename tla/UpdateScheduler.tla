--------------------------- MODULE UpdateScheduler --------------------------
(***************************************************************************)
(* The update collector (internal/collector/update).  Build starts a       *)
(* goroutine, scheduleUpdateStatus, that asks the Windows Update service   *)
(* for the pending updates again and again and leaves the metrics in       *)
(* metricsBuf, under an RWMutex; Collect sends what it finds there.  The   *)
(* goroutine tells Build over initErrCh whether it could start.  Close     *)
(* cancels its context.                                                    *)
(*                                                                         *)
(* A fetch makes its metrics one after the other: the duration, one for    *)
(* each pending update, the timestamp.  Build makes the descriptors after  *)
(* the goroutine has started.                                              *)
(***************************************************************************)
EXTENDS Naturals

CONSTANTS
  Calls,       \* calls of Collect
  Numbers      \* bound: successive fetches that are told apart

ASSUME UpdateAssumption == Numbers \in Nat \ {0}

VARIABLES
  build,       \* "start", "init", "descs", "ok" or "failed"
  descs,       \* the descriptors that Build has made
  initErrCh,   \* "empty", "error" or "closed"
  ctx,         \* "live" or "cancelled"
  sched,       \* the goroutine: "none", "init", "fetch", "metrics", "lock",
               \* "wait" or "ended"
  made,        \* the metrics of the fetch in progress
  fetch,       \* the number of this fetch
  outcome,     \* what it will store: "metrics" or "nil"
  buf,         \* metricsBuf, and the fetch it comes from
  readers,     \* the calls that hold the read lock
  pc,          \* of each call: "idle", "lock", "send", "ended"
  seen,        \* the buffer it sends from
  got,         \* the metrics it has sent
  crashed      \* the process has died of a nil descriptor

buildVars == <<build, descs, initErrCh>>
schedVars == <<sched, made, fetch, outcome>>
callVars == <<readers, pc, seen, got>>
vars == <<buildVars, ctx, schedVars, buf, callVars, crashed>>

Metrics == {"query_duration", "pending", "timestamp"}
Nil == [from |-> 0, metrics |-> {}]

Init ==
  /\ build = "start" /\ descs = {} /\ initErrCh = "empty" /\ ctx = "live"
  /\ sched = "none" /\ made = {} /\ fetch = 0 /\ outcome = "nil"
  /\ buf = Nil /\ readers = {}
  /\ pc = [k \in Calls |-> "idle"]
  /\ seen = [k \in Calls |-> Nil]
  /\ got = [k \in Calls |-> {}]
  /\ crashed = FALSE

-----------------------------------------------------------------------------
(* Build.                                                                  *)

StartScheduler ==
  /\ build = "start" /\ ~crashed
  /\ build' = "init" /\ sched' = "init"
  /\ UNCHANGED <<descs, initErrCh, ctx, made, fetch, outcome, buf,
                 callVars, crashed>>

\* Mutant of AwaitInit: Build returns without the descriptors.
AwaitInitOnly ==
  /\ build = "init" /\ initErrCh # "empty" /\ ~crashed
  /\ build' = IF initErrCh = "error" THEN "failed" ELSE "ok"
  /\ UNCHANGED <<descs, initErrCh, ctx, schedVars, buf, callVars, crashed>>

AwaitInit ==
  /\ build = "init" /\ initErrCh # "empty" /\ ~crashed
  /\ build' = IF initErrCh = "error" THEN "failed" ELSE "descs"
  /\ UNCHANGED <<descs, initErrCh, ctx, schedVars, buf, callVars, crashed>>

\* pendingUpdate, queryDurationSeconds and lastScrapeMetric, in this order
MakeDesc ==
  /\ build = "descs" /\ ~crashed
  /\ descs' = descs \cup
       {CASE descs = {} -> "pending"
          [] descs = {"pending"} -> "query_duration"
          [] OTHER -> "timestamp"}
  /\ build' = IF descs' = Metrics THEN "ok" ELSE "descs"
  /\ UNCHANGED <<initErrCh, ctx, schedVars, buf, callVars, crashed>>

-----------------------------------------------------------------------------
(* scheduleUpdateStatus.                                                   *)

InitScheduler ==
  /\ sched = "init" /\ ~crashed
  /\ \/ initErrCh' = "closed" /\ sched' = "fetch"
     \/ initErrCh' = "error" /\ sched' = "ended"
  /\ UNCHANGED <<build, descs, ctx, made, fetch, outcome, buf, callVars,
                 crashed>>

SearchOk ==
  /\ sched = "fetch" /\ ~crashed
  /\ sched' = "metrics" /\ made' = {}
  /\ UNCHANGED <<buildVars, ctx, fetch, outcome, buf, callVars, crashed>>

\* Search fails, or the reading of the list of updates does.
FetchFails ==
  /\ sched = "fetch" \/ (sched = "metrics" /\ made = {"query_duration"})
  /\ ~crashed
  /\ sched' = "lock" /\ outcome' = "nil"
  /\ UNCHANGED <<buildVars, ctx, made, fetch, buf, callVars, crashed>>

\* MustNewConstMetric for the next metric.  The goroutine has no recover.
MakeMetric ==
  /\ sched = "metrics" /\ ~crashed
  /\ LET m == CASE made = {} -> "query_duration"
                [] made = {"query_duration"} -> "pending"
                [] OTHER -> "timestamp"
     IN  IF m \in descs
         THEN /\ made' = made \cup {m}
              /\ IF m = "timestamp" THEN sched' = "lock" /\ outcome' = "metrics"
                                    ELSE UNCHANGED <<sched, outcome>>
              /\ UNCHANGED crashed
         ELSE crashed' = TRUE /\ UNCHANGED <<sched, made, outcome>>
  /\ UNCHANGED <<buildVars, ctx, fetch, buf, callVars>>

Waiting == {k \in Calls : pc[k] = "lock"}

\* Mutant of Store: the calls that wait have to compete for the lock again.
StoreBarges ==
  /\ sched = "lock" /\ readers = {} /\ ~crashed
  /\ buf' = IF outcome = "metrics" THEN [from |-> fetch, metrics |-> made] ELSE Nil
  /\ sched' = IF outcome = "metrics" THEN "wait" ELSE "fetch"
  /\ fetch' = (fetch + 1) % Numbers
  /\ UNCHANGED <<buildVars, ctx, made, outcome, callVars, crashed>>

\* Mutant of Store: it does not wait for the readers.
StoreAtOnce ==
  /\ sched = "lock" /\ ~crashed
  /\ buf' = IF outcome = "metrics" THEN [from |-> fetch, metrics |-> made] ELSE Nil
  /\ sched' = IF outcome = "metrics" THEN "wait" ELSE "fetch"
  /\ fetch' = (fetch + 1) % Numbers
  /\ UNCHANGED <<buildVars, ctx, made, outcome, callVars, crashed>>

\* c.mu.Lock waits for the readers, c.mu.Unlock lets in those that wait.  After a
\* failed fetch the loop goes on at once, without a look at the context.
Store ==
  /\ sched = "lock" /\ readers = {} /\ ~crashed
  /\ buf' = IF outcome = "metrics" THEN [from |-> fetch, metrics |-> made] ELSE Nil
  /\ sched' = IF outcome = "metrics" THEN "wait" ELSE "fetch"
  /\ fetch' = (fetch + 1) % Numbers
  /\ readers' = Waiting
  /\ pc' = [k \in Calls |-> IF k \in Waiting THEN "send" ELSE pc[k]]
  /\ seen' = [k \in Calls |-> IF k \in Waiting THEN buf' ELSE seen[k]]
  /\ UNCHANGED <<buildVars, ctx, made, outcome, got, crashed>>

\* The scrape interval is over: select may take this case although ctx.Done is
\* ready as well.
Tick ==
  /\ sched = "wait" /\ ~crashed
  /\ sched' = "fetch"
  /\ UNCHANGED <<buildVars, ctx, made, fetch, outcome, buf, callVars,
                 crashed>>

\* ctx.Done
Cancelled ==
  /\ sched = "wait" /\ ctx = "cancelled" /\ ~crashed
  /\ sched' = "ended"
  /\ UNCHANGED <<buildVars, ctx, made, fetch, outcome, buf, callVars,
                 crashed>>

-----------------------------------------------------------------------------
(* Collect and Close.                                                      *)

Begin(k) ==
  /\ build = "ok" /\ pc[k] \in {"idle", "ended"} /\ ~crashed
  /\ pc' = [pc EXCEPT ![k] = "lock"]
  /\ got' = [got EXCEPT ![k] = {}]
  /\ UNCHANGED <<buildVars, ctx, schedVars, buf, readers, seen, crashed>>

\* c.mu.RLock, unless the goroutine waits for the lock.
ReadLock(k) ==
  /\ pc[k] = "lock" /\ sched # "lock" /\ ~crashed
  /\ pc' = [pc EXCEPT ![k] = "send"]
  /\ readers' = readers \cup {k}
  /\ seen' = [seen EXCEPT ![k] = buf]
  /\ UNCHANGED <<buildVars, ctx, schedVars, buf, got, crashed>>

\* One metric of metricsBuf.
SendMetric(k) ==
  /\ pc[k] = "send" /\ ~crashed
  /\ \E m \in buf.metrics \ got[k] : got' = [got EXCEPT ![k] = @ \cup {m}]
  /\ UNCHANGED <<buildVars, ctx, schedVars, buf, readers, pc, seen, crashed>>

\* ErrNoUpdates if metricsBuf is nil; the read lock is released.
Return(k) ==
  /\ pc[k] = "send" /\ ~crashed
  /\ got[k] = buf.metrics
  /\ pc' = [pc EXCEPT ![k] = "ended"]
  /\ readers' = readers \ {k}
  /\ UNCHANGED <<buildVars, ctx, schedVars, buf, seen, got, crashed>>

Close ==
  /\ build = "ok" /\ ctx = "live" /\ ~crashed
  /\ ctx' = "cancelled"
  /\ UNCHANGED <<buildVars, schedVars, buf, callVars, crashed>>

BuildStep == StartScheduler \/ AwaitInit \/ MakeDesc
SchedStep ==
  InitScheduler \/ SearchOk \/ FetchFails \/ MakeMetric \/ Store \/ Tick \/ Cancelled
CallStep(k) == ReadLock(k) \/ SendMetric(k) \/ Return(k)

Next == \/ BuildStep \/ SchedStep \/ Close
        \/ \E k \in Calls : Begin(k) \/ CallStep(k)

Spec == Init /\ [][Next]_vars

\* Collect is scheduled, and so is the goroutine once it has a result to store.
\* Nothing is assumed of the service: a search may fail or hang for ever.
FairSpec ==
  /\ Spec
  /\ WF_vars(Store)
  /\ \A k \in Calls : WF_vars(CallStep(k))

-----------------------------------------------------------------------------
(* Properties.                                                             *)

Buffers == [from : 0..(Numbers - 1), metrics : SUBSET Metrics]

\* Every variable has its type.
TypeOK ==
  /\ build \in {"start", "init", "descs", "ok", "failed"} /\ descs \subseteq Metrics
  /\ initErrCh \in {"empty", "error", "closed"} /\ ctx \in {"live", "cancelled"}
  /\ sched \in {"none", "init", "fetch", "metrics", "lock", "wait", "ended"}
  /\ made \subseteq Metrics /\ fetch \in 0..(Numbers - 1)
  /\ outcome \in {"metrics", "nil"}
  /\ buf \in Buffers
  /\ readers \subseteq Calls
  /\ pc \in [Calls -> {"idle", "lock", "send", "ended"}]
  /\ seen \in [Calls -> Buffers]
  /\ got \in [Calls -> SUBSET Metrics] /\ crashed \in BOOLEAN

\* A call of Collect sends nothing or all the metrics of one fetch: the buffer
\* does not change while it is sent (update.go:147-158).
SnapshotIsWhole ==
  \A k \in Calls :
    /\ pc[k] = "send" => seen[k] = buf
    /\ pc[k] = "ended" => got[k] = IF seen[k] = Nil THEN {} ELSE Metrics

\* The process dies of a nil descriptor only before Build has returned, when the
\* first search is faster than Build (update.go:112-138); no fetch that starts
\* later can be hit.
CrashOnlyAtStart ==
  crashed => build \in {"init", "descs"} /\ buf = Nil

\* Nobody waits in a circle: Build waits for a goroutine that has still to answer,
\* and the goroutine, and every call behind it, waits for the lock only while
\* calls hold it that have a metric to send or can return (update.go:110-116,
\* 147-158, 252-267).
NoCircularWait ==
  /\ build = "init" => initErrCh # "empty" \/ sched = "init"
  /\ \A k \in readers : pc[k] = "send" /\ got[k] \subseteq buf.metrics

\* A scrape is never starved: a call of Collect that waits for the lock returns,
\* also while fetches fail one after the other and the goroutine takes the lock
\* again without a pause, and while a search hangs (update.go:147-158, 252-267).
EveryCollectReturns ==
  \A k \in Calls : pc[k] = "lock" ~> pc[k] = "ended"
=============================================================================
