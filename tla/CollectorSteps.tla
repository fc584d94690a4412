--------------------------- MODULE CollectorSteps ---------------------------
(***************************************************************************)
(* The vocabulary in which the collectors of internal/collector are        *)
(* written down.  A function of a collector (Build, Collect, Close or one  *)
(* of the functions they call) is a sequence of steps; the steps that can  *)
(* fail end the function with an error.  What a step does to the state of  *)
(* the collector is defined in CollectorLifecycle.                         *)
(*                                                                         *)
(* A group of descriptors that the code makes together is one resource,    *)
(* and a group of metrics is sent in one step: what matters below is which *)
(* descriptors exist when a metric is made, and from which rows.           *)
(***************************************************************************)
EXTENDS Naturals, Sequences

Step(op, of, arg) == [op |-> op, of |-> of, arg |-> arg]

-----------------------------------------------------------------------------
(* Steps of Build.                                                         *)

\* Descriptors, a channel, a handle: what Collect or Close uses.
MakeAll(rs) == Step("make", "", rs)
Make(r) == MakeAll({r})

\* pdh.NewCollector
Open(q) == Step("open", q, {})

\* A call that fails with an error of one of these classes.  The class "panic" of
\* Build stands for a panic, which nobody recovers.
Fail(classes) == Step("fail", "", classes)

\* A call whose errors include the ones that Collection.Build tolerates.
Call == Fail({"tolerated", "error"})

\* buildNumber < minBuildNumber: the build function is not called, and that is not
\* an error.
MinBuild == Fail({"skipped"})

\* It is an error that miSession is nil; otherwise the session is stored.
\* (mi.NewQuery fails on a text with a NUL only, and the texts are constants.)
Session == <<Fail({"error"}), Make("mi")>>

-----------------------------------------------------------------------------
(* Steps of Collect.                                                       *)

\* perfDataCollector.Collect(&perfDataObject)
Read(q) == Step("read", q, {})

\* len(perfDataObject) == 0 is an error.
NonEmpty(q) == Step("nonempty", q, {})

\* Metrics of group g from perfDataObject[0], from each row, or from each row
\* whose name has the expected form (another one is an error).
First(g, q) == Step("first", g, {q})
Each(g, q) == Step("each", g, {q})
EachNamed(g, q) == Step("eachNamed", g, {q})

\* deduplicateIISNames(perfDataObject)
Dedup(q) == Step("dedup", q, {})

\* Metrics from values that are local to this call of Collect.
Emit(g) == Step("emit", g, {})

\* miSession.Query
Query == Step("query", "mi", {})

\* A call to the system that fails with an error.
Sys == Fail({"error"})

\* Without r the function returns pdh.ErrNoData.
Have(r) == Step("have", r, {})

\* A use of r that panics if r has not been made, and a send on channel r.
Use(r) == Step("use", r, {})
Send(r) == Step("send", r, {})

-----------------------------------------------------------------------------
(* Steps of Close.  Use(r) panics here too if r has not been made.         *)

CloseQuery(q) == Step("close", q, {})

\* Only if sub-collector p is enabled.
CloseIf(p, q) == Step("close", q, {p})

-----------------------------------------------------------------------------
(* Common shapes of functions.  The group has the name of its query.       *)

DescsThenOpen(q) == <<Make(q), Open(q)>>
OpenThenDescs(q) == <<Open(q), Make(q)>>
ReadEach(q) == <<Read(q), Each(q, q)>>
ReadEachNamed(q) == <<Read(q), EachNamed(q, q)>>
ReadFirst(q) == <<Read(q), First(q, q)>>
ReadCheckFirst(q) == <<Read(q), NonEmpty(q), First(q, q)>>

-----------------------------------------------------------------------------
(* A call of such a function.  It is made if its sub-collector is enabled  *)
(* ("" stands for always).  Its error is returned, joined to the others or *)
(* only logged.  With "nodata" it is joined unless it is pdh.ErrNoData.    *)
(* With "worker" it is made in goroutines that Collect starts and waits    *)
(* for, and its error is only logged.                                      *)

Block(part, onErr, steps) == [part |-> part, onErr |-> onErr, steps |-> steps]

Return(steps) == <<Block("", "return", steps)>>
Join(steps) == <<Block("", "join", steps)>>
Log(steps) == <<Block("", "log", steps)>>
Worker(steps) == <<Block("", "worker", steps)>>
JoinIf(part, steps) == <<Block(part, "join", steps)>>
ReturnIf(part, steps) == <<Block(part, "return", steps)>>

\* A collector: the calls of Build, those of Collect in each goroutine, the
\* steps of Close.  "spawn": Collect starts a goroutine per element of threads.
\* "after": the goroutine whose end a goroutine waits for, or 0.  "ifBuilt":
\* a sub-collector is collected only if its build has not failed.  "lock":
\* Collect holds a mutex of the collector.
Sequential(build, collect, close) ==
  [build |-> build, threads |-> <<collect>>, close |-> close, spawn |-> FALSE,
   after |-> <<0>>, ifBuilt |-> FALSE, lock |-> FALSE]

Parallel(build, threads, close) ==
  [build |-> build, threads |-> threads, close |-> close, spawn |-> TRUE,
   after |-> [t \in 1..Len(threads) |-> 0], ifBuilt |-> FALSE, lock |-> FALSE]
=============================================================================
