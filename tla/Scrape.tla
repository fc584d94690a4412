------------------------------- MODULE Scrape -------------------------------
(***************************************************************************)
(* The scrape engine: Handler.Collect (pkg/collector/handler.go) and       *)
(* collectAll / collectCollector (pkg/collector/collect.go).               *)
(*                                                                         *)
(* A request is one HTTP scrape.  It takes concurrencyMu and runs          *)
(* collectAll, which starts one collectCollector per enabled collector.    *)
(* A run <<r, c>> is the collectCollector call of request r for collector  *)
(* c.  It has up to four goroutines: the caller ("main"), the one that     *)
(* calls Collector.Collect ("collect"), the one that passes metrics from   *)
(* bufCh to the registry channel ch ("forward"), and, after a timeout, the *)
(* one that empties bufCh ("drain").  Metrics are counted, not named: one  *)
(* producer, one FIFO buffer and one forwarder cannot reorder them.        *)
(*                                                                         *)
(* The registry channel ch is external.  It is read until it is closed,    *)
(* and it is closed some time after Handler.Collect has returned; a send   *)
(* on it never waits for another actor of this module, so it is one step.  *)
(***************************************************************************)
EXTENDS Integers, FiniteSets

CONSTANTS
  Requests,    \* the scrapes; each is served once, which bounds a behaviour
  Collectors,  \* the names of the collectors that Enable has kept
  NoRequest,   \* the value of concurrencyMu when it is unlocked
  BufCap,      \* capacity of bufCh (1000 in the code)
  MaxMetrics   \* bound on the metrics that one Collect call sends

ASSUME ConstantsAssumption ==
  /\ IsFiniteSet(Requests) /\ IsFiniteSet(Collectors)
  /\ Collectors # {}
  /\ NoRequest \notin Requests
  /\ BufCap \in Nat \ {0}
  /\ MaxMetrics \in Nat

VARIABLES
  request,        \* where each request is
  enabled,        \* the collectors of the request's Handler
  concurrencyMu,  \* the request that holds the mutex
  exposed,        \* the success and timeout values that ch has got
  main,           \* program counter of the run's collectCollector
  ctx,            \* the run's context: live, expired or cancelled
  timeout,        \* the atomic flag "timeout"
  errCh,          \* content of errCh
  err,            \* the error main has received
  bufCh,          \* number of metrics in bufCh
  bufClosed,      \* bufCh is closed
  collect,        \* program counter of the goroutine in Collector.Collect
  forward,        \* program counter of the forwarding goroutine
  drain,          \* program counter of the draining goroutine
  produced,       \* metrics that Collect has sent to bufCh
  delivered,      \* metrics of Collect that ch has got
  late,           \* those of them sent after timeout was stored
  status          \* the status code that collectCollector has returned

reqVars == <<request, enabled, concurrencyMu, exposed>>
mainVars == <<main, ctx, timeout, err, status>>
chanVars == <<errCh, bufCh, bufClosed>>
goVars == <<collect, forward, drain>>
countVars == <<produced, delivered, late>>
vars == <<reqVars, mainVars, chanVars, goVars, countVars>>

Run == Requests \X Collectors

RunsOf(r) == {r} \X enabled[r]

\* The outcomes of Collector.Collect, as main tells them apart: the two
\* ErrNoData errors, any other error, and a recovered panic.
Errors == {"nil", "noData", "error", "panic"}

Tolerated == {"nil", "noData"}

StatusOf(e) == IF e \in Tolerated THEN "success" ELSE "failed"

\* The prometheus registry has closed the channel of request r.
ChClosed(r) == request[r] = "closed"

\* The collector is in its Collect method.
Collecting(k) == collect[k] \in {"running", "sending"}

Init ==
  /\ request = [r \in Requests |-> "idle"]
  /\ enabled = [r \in Requests |-> {}]
  /\ concurrencyMu = NoRequest
  /\ exposed = [r \in Requests |-> {}]
  /\ main = [k \in Run |-> "off"]
  /\ ctx = [k \in Run |-> "live"]
  /\ timeout = [k \in Run |-> FALSE]
  /\ errCh = [k \in Run |-> "empty"]
  /\ err = [k \in Run |-> "none"]
  /\ bufCh = [k \in Run |-> 0]
  /\ bufClosed = [k \in Run |-> FALSE]
  /\ collect = [k \in Run |-> "off"]
  /\ forward = [k \in Run |-> "off"]
  /\ drain = [k \in Run |-> "off"]
  /\ produced = [k \in Run |-> 0]
  /\ delivered = [k \in Run |-> 0]
  /\ late = [k \in Run |-> 0]
  /\ status = [k \in Run |-> "none"]

-----------------------------------------------------------------------------
(* The request: ServeHTTP, NewHandler, Handler.Collect, collectAll.        *)

\* NewHandler: no filter keeps the whole collection, a filter keeps the
\* collectors it names.
NewHandler(r) ==
  /\ request[r] = "idle"
  /\ request' = [request EXCEPT ![r] = "waiting"]
  /\ \E names \in SUBSET Collectors :
       enabled' = [enabled EXCEPT ![r] = IF names = {} THEN Collectors ELSE names]
  /\ UNCHANGED <<concurrencyMu, exposed, mainVars, chanVars, goVars, countVars>>

\* NewHandler with a filter that names an unknown collector: ServeHTTP answers
\* 400 and collects nothing.
NewHandlerFails(r) ==
  /\ request[r] = "idle"
  /\ request' = [request EXCEPT ![r] = "rejected"]
  /\ UNCHANGED <<enabled, concurrencyMu, exposed, mainVars, chanVars, goVars,
                 countVars>>

\* concurrencyMu.Lock, then collectAll starts a collectCollector for every
\* collector; each makes its channels and context and starts its goroutines.
LockAndStart(r) ==
  LET started(f, pc) == [k \in Run |-> IF k \in RunsOf(r) THEN pc ELSE f[k]]
  IN  /\ request[r] = "waiting"
      /\ concurrencyMu = NoRequest
      /\ concurrencyMu' = r
      /\ request' = [request EXCEPT ![r] = "collecting"]
      /\ main' = started(main, "select")
      /\ collect' = started(collect, "running")
      /\ forward' = started(forward, "select")
      /\ UNCHANGED <<enabled, exposed, ctx, timeout, err, status, chanVars,
                     drain, countVars>>

\* Mutant of EmitStatuses: collectAll does not wait for the callers.
EmitStatusesNoWait(r) ==
  /\ request[r] = "collecting"
  /\ exposed' = [exposed EXCEPT ![r] =
                   {[name |-> c,
                     success |-> status[<<r, c>>] = "success",
                     timeout |-> status[<<r, c>>] = "pending"] : c \in enabled[r]}]
  /\ request' = [request EXCEPT ![r] = "emitted"]
  /\ UNCHANGED <<enabled, concurrencyMu, mainVars, chanVars, goVars, countVars>>

\* Mutant of EmitStatuses: whatever has not failed counts as a success.
EmitStatusesOptimistic(r) ==
  /\ request[r] = "collecting"
  /\ \A k \in RunsOf(r) : main[k] = "done"
  /\ exposed' = [exposed EXCEPT ![r] =
                   {[name |-> c,
                     success |-> status[<<r, c>>] # "failed",
                     timeout |-> status[<<r, c>>] = "pending"] : c \in enabled[r]}]
  /\ request' = [request EXCEPT ![r] = "emitted"]
  /\ UNCHANGED <<enabled, concurrencyMu, mainVars, chanVars, goVars, countVars>>

\* wg.Wait in collectAll, then the success and timeout metrics of every
\* collector and the scrape duration go to ch.
EmitStatuses(r) ==
  /\ request[r] = "collecting"
  /\ \A k \in RunsOf(r) : main[k] = "done"
  /\ exposed' = [exposed EXCEPT ![r] =
                   {[name |-> c,
                     success |-> status[<<r, c>>] = "success",
                     timeout |-> status[<<r, c>>] = "pending"] : c \in enabled[r]}]
  /\ request' = [request EXCEPT ![r] = "emitted"]
  /\ UNCHANGED <<enabled, concurrencyMu, mainVars, chanVars, goVars, countVars>>

\* concurrencyMu.Unlock; Handler.Collect returns to the registry.
Unlock(r) ==
  /\ request[r] = "emitted"
  /\ concurrencyMu' = NoRequest
  /\ request' = [request EXCEPT ![r] = "returned"]
  /\ UNCHANGED <<enabled, exposed, mainVars, chanVars, goVars, countVars>>

\* External: the registry closes ch once every registered collector is done.
RegistryCloses(r) ==
  /\ request[r] = "returned"
  /\ request' = [request EXCEPT ![r] = "closed"]
  /\ UNCHANGED <<enabled, concurrencyMu, exposed, mainVars, chanVars, goVars,
                 countVars>>

-----------------------------------------------------------------------------
(* collectCollector, the calling goroutine.                                *)

\* The deadline of context.WithTimeout passes.
Expire(k) ==
  /\ main[k] \in {"select", "wait"}
  /\ ctx[k] = "live"
  /\ ctx' = [ctx EXCEPT ![k] = "expired"]
  /\ UNCHANGED <<reqVars, main, timeout, err, status, chanVars, goVars,
                 countVars>>

\* select: case err = <-errCh
ReceiveErr(k) ==
  /\ main[k] = "select"
  /\ errCh[k] # "empty"
  /\ err' = [err EXCEPT ![k] = errCh[k]]
  /\ errCh' = [errCh EXCEPT ![k] = "empty"]
  /\ main' = [main EXCEPT ![k] = "wait"]
  /\ UNCHANGED <<reqVars, ctx, timeout, status, bufCh, bufClosed, goVars,
                 countVars>>

\* wg.Wait, the duration metric, the status code; cancel runs on return.
ReturnStatus(k) ==
  /\ main[k] = "wait"
  /\ forward[k] = "done"
  /\ status' = [status EXCEPT ![k] = StatusOf(err[k])]
  /\ ctx' = [ctx EXCEPT ![k] = IF @ = "live" THEN "cancelled" ELSE @]
  /\ main' = [main EXCEPT ![k] = "done"]
  /\ UNCHANGED <<reqVars, timeout, err, chanVars, goVars, countVars>>

\* Mutant of ReceiveDone: the select has no ctx.Done case.
ReceiveDoneMissing(k) == FALSE

\* select: case <-ctx.Done()
ReceiveDone(k) ==
  /\ main[k] = "select"
  /\ ctx[k] = "expired"
  /\ main' = [main EXCEPT ![k] = "store"]
  /\ UNCHANGED <<reqVars, ctx, timeout, err, status, chanVars, goVars,
                 countVars>>

\* timeout.Store(true)
StoreTimeout(k) ==
  /\ main[k] = "store"
  /\ timeout' = [timeout EXCEPT ![k] = TRUE]
  /\ main' = [main EXCEPT ![k] = "abandon"]
  /\ UNCHANGED <<reqVars, ctx, err, status, chanVars, goVars, countVars>>

\* Mutant of Abandon: a timeout is reported as a failure.
AbandonReportsFailed(k) ==
  /\ main[k] = "abandon"
  /\ drain' = [drain EXCEPT ![k] = "running"]
  /\ status' = [status EXCEPT ![k] = "failed"]
  /\ main' = [main EXCEPT ![k] = "done"]
  /\ UNCHANGED <<reqVars, ctx, timeout, err, chanVars, collect, forward,
                 countVars>>

\* The duration metric, the draining goroutine, return pending.
Abandon(k) ==
  /\ main[k] = "abandon"
  /\ drain' = [drain EXCEPT ![k] = "running"]
  /\ status' = [status EXCEPT ![k] = "pending"]
  /\ main' = [main EXCEPT ![k] = "done"]
  /\ UNCHANGED <<reqVars, ctx, timeout, err, chanVars, collect, forward,
                 countVars>>

-----------------------------------------------------------------------------
(* The goroutine that calls Collector.Collect.                             *)

\* Collect comes to a send on bufCh; it cannot return before the send does.
BeginSend(k) ==
  /\ collect[k] = "running"
  /\ produced[k] < MaxMetrics
  /\ collect' = [collect EXCEPT ![k] = "sending"]
  /\ UNCHANGED <<reqVars, mainVars, chanVars, forward, drain, countVars>>

\* The send goes through; it waits while bufCh is full.
Produce(k) ==
  /\ collect[k] = "sending"
  /\ bufCh[k] < BufCap
  /\ bufCh' = [bufCh EXCEPT ![k] = @ + 1]
  /\ produced' = [produced EXCEPT ![k] = @ + 1]
  /\ collect' = [collect EXCEPT ![k] = "running"]
  /\ UNCHANGED <<reqVars, mainVars, errCh, bufClosed, forward, drain, delivered,
                 late>>

\* Collect returns or panics; its error, or the recovered panic, goes to
\* errCh.
CollectReturns(k) ==
  /\ collect[k] = "running"
  /\ errCh[k] = "empty"
  /\ \E e \in Errors : errCh' = [errCh EXCEPT ![k] = e]
  /\ collect' = [collect EXCEPT ![k] = "closing"]
  /\ UNCHANGED <<reqVars, mainVars, bufCh, bufClosed, forward, drain, countVars>>

\* close(bufCh)
CloseBuf(k) ==
  /\ collect[k] = "closing"
  /\ bufClosed' = [bufClosed EXCEPT ![k] = TRUE]
  /\ collect' = [collect EXCEPT ![k] = "done"]
  /\ UNCHANGED <<reqVars, mainVars, errCh, bufCh, forward, drain, countVars>>

-----------------------------------------------------------------------------
(* The forwarding goroutine.                                               *)

\* select: case <-ctx.Done(): return
ForwardDone(k) ==
  /\ forward[k] = "select"
  /\ ctx[k] # "live"
  /\ forward' = [forward EXCEPT ![k] = "done"]
  /\ UNCHANGED <<reqVars, mainVars, chanVars, collect, drain, countVars>>

\* select: case m, ok := <-bufCh with ok
ForwardReceive(k) ==
  /\ forward[k] = "select"
  /\ bufCh[k] > 0
  /\ bufCh' = [bufCh EXCEPT ![k] = @ - 1]
  /\ forward' = [forward EXCEPT ![k] = "check"]
  /\ UNCHANGED <<reqVars, mainVars, errCh, bufClosed, collect, drain, countVars>>

\* Mutant of ForwardClosed: the forwarder stops as soon as bufCh is closed, with
\* metrics still in it.
ForwardClosedEarly(k) ==
  /\ forward[k] = "select"
  /\ bufClosed[k]
  /\ forward' = [forward EXCEPT ![k] = "done"]
  /\ UNCHANGED <<reqVars, mainVars, chanVars, collect, drain, countVars>>

\* select: case m, ok := <-bufCh without ok: return
ForwardClosed(k) ==
  /\ forward[k] = "select"
  /\ bufCh[k] = 0
  /\ bufClosed[k]
  /\ forward' = [forward EXCEPT ![k] = "done"]
  /\ UNCHANGED <<reqVars, mainVars, chanVars, collect, drain, countVars>>

\* Mutant of ForwardCheck: the timeout flag is not read.
ForwardCheckAlways(k) ==
  /\ forward[k] = "check"
  /\ forward' = [forward EXCEPT ![k] = "send"]
  /\ UNCHANGED <<reqVars, mainVars, chanVars, collect, drain, countVars>>

\* if !timeout.Load()
ForwardCheck(k) ==
  /\ forward[k] = "check"
  /\ forward' = [forward EXCEPT ![k] = IF timeout[k] THEN "select" ELSE "send"]
  /\ UNCHANGED <<reqVars, mainVars, chanVars, collect, drain, countVars>>

\* ch <- m
ForwardSend(k) ==
  /\ forward[k] = "send"
  /\ ~ChClosed(k[1])
  /\ forward' = [forward EXCEPT ![k] = "select"]
  /\ delivered' = [delivered EXCEPT ![k] = @ + 1]
  /\ late' = [late EXCEPT ![k] = IF timeout[k] THEN @ + 1 ELSE @]
  /\ UNCHANGED <<reqVars, mainVars, chanVars, collect, drain, produced>>

\* ch <- m on a closed ch panics; the deferred recover ends the goroutine.
ForwardPanic(k) ==
  /\ forward[k] = "send"
  /\ ChClosed(k[1])
  /\ forward' = [forward EXCEPT ![k] = "done"]
  /\ UNCHANGED <<reqVars, mainVars, chanVars, collect, drain, countVars>>

-----------------------------------------------------------------------------
(* The draining goroutine: for range bufCh {}.                             *)

\* Mutant of DrainReceive: it waits for bufCh to empty without receiving.
DrainReceiveNothing(k) ==
  /\ drain[k] = "running"
  /\ bufCh[k] > 0
  /\ UNCHANGED vars

DrainReceive(k) ==
  /\ drain[k] = "running"
  /\ bufCh[k] > 0
  /\ bufCh' = [bufCh EXCEPT ![k] = @ - 1]
  /\ UNCHANGED <<reqVars, mainVars, errCh, bufClosed, goVars, countVars>>

\* Mutant of DrainClosed: the loop does not notice that bufCh is closed.
DrainClosedGoesOn(k) ==
  /\ drain[k] = "running"
  /\ bufCh[k] = 0
  /\ bufClosed[k]
  /\ UNCHANGED vars

DrainClosed(k) ==
  /\ drain[k] = "running"
  /\ bufCh[k] = 0
  /\ bufClosed[k]
  /\ drain' = [drain EXCEPT ![k] = "done"]
  /\ UNCHANGED <<reqVars, mainVars, chanVars, collect, forward, countVars>>

-----------------------------------------------------------------------------
Handler(r) ==
  \/ NewHandler(r) \/ NewHandlerFails(r) \/ LockAndStart(r) \/ EmitStatuses(r)
  \/ Unlock(r) \/ RegistryCloses(r)

Caller(k) ==
  ReceiveErr(k) \/ ReturnStatus(k) \/ ReceiveDone(k) \/ StoreTimeout(k) \/ Abandon(k)

Collector(k) == BeginSend(k) \/ Produce(k) \/ CollectReturns(k) \/ CloseBuf(k)

Forwarder(k) ==
  \/ ForwardDone(k) \/ ForwardReceive(k) \/ ForwardClosed(k) \/ ForwardCheck(k)
  \/ ForwardSend(k) \/ ForwardPanic(k)

Drainer(k) == DrainReceive(k) \/ DrainClosed(k)

\* Every request is answered and every goroutine has ended.
Quiescent ==
  /\ \A r \in Requests : request[r] \in {"rejected", "closed"}
  /\ \A k \in Run : /\ collect[k] \in {"off", "done"}
                    /\ forward[k] \in {"off", "done"}
                    /\ drain[k] \in {"off", "done"}

Terminated == Quiescent /\ UNCHANGED vars

Next ==
  \/ \E r \in Requests : Handler(r)
  \/ \E k \in Run : Expire(k) \/ Caller(k) \/ Collector(k) \/ Forwarder(k) \/ Drainer(k)
  \/ Terminated

Spec == Init /\ [][Next]_vars

\* What the Go runtime guarantees whatever the collectors do: goroutines that
\* can run do, a send with room succeeds, the timer fires, a waiter gets the mutex, and the registry
\* closes ch.  Collector.Collect itself is not assumed to make progress, but
\* once it has returned its deferred function runs.
RuntimeFairness ==
  /\ \A r \in Requests : /\ WF_vars(LockAndStart(r))
                         /\ WF_vars(EmitStatuses(r))
                         /\ WF_vars(Unlock(r))
                         /\ WF_vars(RegistryCloses(r))
  /\ \A k \in Run : /\ WF_vars(Expire(k))
                    /\ WF_vars(Caller(k))
                    /\ WF_vars(Produce(k))
                    /\ WF_vars(CloseBuf(k))
                    /\ WF_vars(Forwarder(k))
                    /\ WF_vars(Drainer(k))

HangSpec == Spec /\ RuntimeFairness

-----------------------------------------------------------------------------
(* Properties.                                                             *)

TypeOK ==
  /\ request \in [Requests -> {"idle", "rejected", "waiting", "collecting",
                               "emitted", "returned", "closed"}]
  /\ enabled \in [Requests -> SUBSET Collectors]
  /\ concurrencyMu \in Requests \cup {NoRequest}
  /\ exposed \in [Requests -> SUBSET [name : Collectors, success : BOOLEAN,
                                      timeout : BOOLEAN]]
  /\ main \in [Run -> {"off", "select", "wait", "store", "abandon", "done"}]
  /\ ctx \in [Run -> {"live", "expired", "cancelled"}]
  /\ timeout \in [Run -> BOOLEAN]
  /\ errCh \in [Run -> Errors \cup {"empty"}]
  /\ err \in [Run -> Errors \cup {"none"}]
  /\ bufCh \in [Run -> 0..BufCap]
  /\ bufClosed \in [Run -> BOOLEAN]
  /\ collect \in [Run -> {"off", "running", "sending", "closing", "done"}]
  /\ forward \in [Run -> {"off", "select", "check", "send", "done"}]
  /\ drain \in [Run -> {"off", "running", "done"}]
  /\ produced \in [Run -> Nat]
  /\ delivered \in [Run -> Nat]
  /\ late \in [Run -> Nat]
  /\ status \in [Run -> {"none", "pending", "success", "failed"}]

\* concurrencyMu serialises whole scrapes: two requests are never inside
\* collectAll together (handler.go:67-71).
OneScrapeAtATime ==
  \A r, s \in Requests :
    /\ request[r] \in {"collecting", "emitted"}
    /\ request[s] \in {"collecting", "emitted"}
    => r = s

\* Two Collect calls of one collector run at the same time only if one of
\* them belongs to a run that its request has given up as timed out: without
\* timeouts the mutex protects the collectors' own state (collect.go:184-204).
OverlapOnlyAfterTimeout ==
  \A r, s \in Requests, c \in Collectors :
    /\ r # s
    /\ Collecting(<<r, c>>)
    /\ Collecting(<<s, c>>)
    => status[<<r, c>>] = "pending" \/ status[<<s, c>>] = "pending"

\* When the deadline has not passed, a run that reports success or failure has
\* passed on every metric that Collect sent, neither more nor fewer
\* (collect.go:141-175).
NoLossWithoutExpiry ==
  \A k \in Run :
    status[k] \in {"success", "failed"} /\ ctx[k] # "expired"
    => delivered[k] = produced[k]

\* Storing the timeout flag stops the forwarder: at most the one metric it
\* had already checked reaches ch afterwards (collect.go:161-165, 185).
AtMostOneLate ==
  \A k \in Run : late[k] <= 1

\* The caller sends its duration metric without recover, so ch must still be
\* open until every caller of the request has returned (collect.go:178-193).
ChOutlivesCallers ==
  \A r \in Requests :
    ChClosed(r) => \A k \in RunsOf(r) : main[k] = "done"

\* What a scrape exposes about a collector is what happened: one pair of values
\* for every collector of the request; success only if Collect returned no
\* error or ErrNoData; timeout only if the deadline passed; and a collector
\* shown with neither has really ended with an error (collect.go:75-98).
ExposedIsTrue ==
  \A r \in Requests :
    request[r] \in {"emitted", "returned", "closed"} =>
      \A c \in enabled[r] :
        /\ Cardinality({x \in exposed[r] : x.name = c}) = 1
        /\ \A x \in exposed[r] : x.name = c =>
             /\ x.success <=> err[<<r, c>>] \in Tolerated
             /\ x.timeout => ctx[<<r, c>>] = "expired" /\ err[<<r, c>>] = "none"
             /\ ~x.timeout => /\ collect[<<r, c>>] \in {"closing", "done"}
                              /\ forward[<<r, c>>] = "done"

\* The calling goroutine can take its next step.
CallerGoesOn(k) ==
  \/ main[k] = "select" /\ (errCh[k] # "empty" \/ ctx[k] = "expired")
  \/ main[k] = "wait" /\ forward[k] = "done"
  \/ main[k] \in {"store", "abandon"}

\* The forwarder can take its next step.
ForwarderGoesOn(k) ==
  \/ forward[k] = "select" /\ (ctx[k] # "live" \/ bufCh[k] > 0 \/ bufClosed[k])
  \/ forward[k] \in {"check", "send"}

\* The drain can take its next step.
DrainerGoesOn(k) == drain[k] = "running" /\ (bufCh[k] > 0 \/ bufClosed[k])

\* The goroutines of a run do not wait for each other in a circle, and only the
\* caller's select waits for a Collect that hangs, until the deadline: a caller
\* that cannot go on has its deadline to come, a forwarder that can or a bufCh
\* about to be closed; a Collect that is blocked on a full bufCh is unblocked
\* without its own doing; and when it is over nobody waits for it
\* (collect.go:154-170, 184, 197-201).
NoCircularWait ==
  \A k \in Run :
    /\ main[k] \notin {"off", "done"} =>
         \/ main[k] = "select" /\ ctx[k] = "live"
         \/ CallerGoesOn(k) \/ ForwarderGoesOn(k) \/ collect[k] = "closing"
    /\ collect[k] = "sending" /\ bufCh[k] = BufCap =>
         CallerGoesOn(k) \/ ForwarderGoesOn(k) \/ DrainerGoesOn(k)
    /\ collect[k] = "done" => /\ forward[k] # "done" => ForwarderGoesOn(k)
                              /\ drain[k] = "running" => DrainerGoesOn(k)

\* A scrape that waits for the mutex is served, even if Collect calls hang:
\* the deadline ends every run (collect.go:184).
EveryScrapeReturns ==
  \A r \in Requests : request[r] = "waiting" ~> request[r] = "closed"

\* A Collect call that is blocked on a full bufCh does not stay blocked: the
\* forwarder or, after a timeout, the drain takes a metric (collect.go:197).
ProducerUnblocked ==
  \A k \in Run :
    collect[k] = "sending" ~> collect[k] # "sending"

\* Once Collect has returned or panicked, even long after the scrape, every
\* goroutine of its run ends (collect.go:198, "to not leak a goroutine").
NoGoroutineLeak ==
  \A k \in Run :
    collect[k] = "closing" ~> /\ collect[k] = "done"
                              /\ forward[k] = "done"
                              /\ drain[k] \in {"off", "done"}

-----------------------------------------------------------------------------
(* Refinement: the engine implements ScrapeService.                        *)

phaseOf ==
  [r \in Requests |->
     CASE request[r] \in {"collecting", "emitted"} -> "serving"
       [] request[r] \in {"returned", "closed"} -> "served"
       [] OTHER -> request[r]]

Service == INSTANCE ScrapeService
             WITH phase <- phaseOf, wanted <- enabled, verdict <- status

\* Seen from outside, the engine is a service that takes scrapes one at a time
\* and gives every collector exactly one verdict before it answers
\* (handler.go:67-71, collect.go:45-105).
ImplementsService == Service!SSpec
=============================================================================
