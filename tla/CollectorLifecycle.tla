------------------------- MODULE CollectorLifecycle -------------------------
(***************************************************************************)
(* One collector from Build through scrapes to Close.  Programs gives the  *)
(* functions of every collector as sequences of steps (CollectorSteps; the *)
(* tables are in Collectors*.tla), and this module says what a step does:  *)
(* to the descriptors and handles the collector holds, to its performance  *)
(* counter queries, and to the rows that the last read of a query left in  *)
(* a slice which all calls of Collect share.                               *)
(*                                                                         *)
(* Collection.Build keeps a collector whose Build failed in a tolerated    *)
(* way, so Collect also runs on a half-built collector.  A Collect that    *)
(* was given up after its timeout goes on, and the next one overlaps it.   *)
(***************************************************************************)
EXTENDS CollectorSteps, FiniteSets

CONSTANTS
  Programs,    \* the collectors: a function from names to programs
  Selections,  \* the sets of sub-collectors that are looked at, by collector
  Scrapes,     \* the scrapes, 1..n
  MaxLoad,     \* bound: scrapes begun times what each of them collects
  KeptOpen     \* the queries <<collector, query>> that Close may leave open

BlocksOf(p) == {p.build[i] : i \in 1..Len(p.build)}
  \cup UNION {{p.threads[t][i] : i \in 1..Len(p.threads[t])} :
              t \in 1..Len(p.threads)}
StepsOf(block) == {block.steps[i] : i \in 1..Len(block.steps)}
PartsOf(p) == {b.part : b \in BlocksOf(p)} \ {""}

IsFunction(f) ==
  Len(f) \in Nat /\ \A i \in 1..Len(f) : Len(f[i].steps) \in Nat \ {0}

ASSUME ProgramsAssumption ==
  /\ Scrapes \subseteq Nat
  /\ \A c \in DOMAIN Programs :
       /\ Selections[c] \subseteq SUBSET PartsOf(Programs[c])
       /\ IsFunction(Programs[c].build)
       /\ \A t \in 1..Len(Programs[c].threads) : IsFunction(Programs[c].threads[t])
       /\ \A i \in 1..Len(Programs[c].build) :
            \A x \in StepsOf(Programs[c].build[i]) :
              x.op = "fail" => x.arg \subseteq {"tolerated", "error", "skipped", "panic"}

-----------------------------------------------------------------------------
(* What the functions of the collectors have in common, as written down in *)
(* the tables.  None of it depends on what is enabled.                     *)

\* The steps of the call before step n, and its steps of one kind.
StepsBefore(block, n) == {block.steps[m] : m \in 1..(n - 1)}
StepsFor(block, op) == {x \in StepsOf(block) : x.op = op}

\* An error of Collect that is only logged does not make the function return.
LoggedErrorsGoOn(block) ==
  \A x \in StepsFor(block, "fail") :
    /\ x.arg \subseteq {"nodata", "error", "logged"}
    /\ "logged" \in x.arg => block.onErr # "return"

\* A call that takes metrics from rows has read them before, from a query that
\* Build opens, and no other goroutine reads the query.
RowSteps == {"first", "each", "eachNamed"}

ReadsBefore(block) ==
  \A n \in 1..Len(block.steps) : block.steps[n].op \in RowSteps =>
    \A q \in block.steps[n].arg :
      \E x \in StepsBefore(block, n) : x.op = "read" /\ x.of = q

OnlyReader(p, t, q) ==
  /\ \E j \in 1..Len(p.build) : \E y \in StepsFor(p.build[j], "open") : y.of = q
  /\ \A u \in 1..Len(p.threads) : \A h \in 1..Len(p.threads[u]) :
       \A y \in StepsFor(p.threads[u][h], "read") : y.of = q => u = t

RowsAreRead(p) ==
  \A t \in 1..Len(p.threads) : \A i \in 1..Len(p.threads[t]) :
    /\ ReadsBefore(p.threads[t][i])
    /\ \A x \in StepsFor(p.threads[t][i], "read") : OnlyReader(p, t, x.of)

\* Wherever Close may return, it has closed what a build function has opened; it
\* does not look at flags other than the one that the build function depends on.
ClosesItsQueries(c, p) ==
  \A j \in 1..Len(p.build) : \A x \in StepsFor(p.build[j], "open") :
    \A n \in 0..Len(p.close) :
      (n < Len(p.close) => p.close[n + 1].op = "fail") /\ <<c, x.of>> \notin KeptOpen =>
        \E i \in 1..n : /\ p.close[i].op = "close" /\ p.close[i].of = x.of
                        /\ p.close[i].arg \subseteq {p.build[j].part} \ {""}

\* What a step of Collect must find made, or panic or block.
Uses == {"first", "each", "eachNamed", "emit", "use", "send"}

\* Step m of build function j makes r.
Makes(p, j, m, r) ==
  p.build[j].steps[m].op = "make" /\ r \in p.build[j].steps[m].arg

\* Only the last step of build function g makes r.
MadeLast(p, g, r) ==
  /\ Makes(p, g, Len(p.build[g].steps), r)
  /\ \A j \in 1..Len(p.build) : \A m \in 1..Len(p.build[j].steps) :
       Makes(p, j, m, r) => j = g /\ m = Len(p.build[g].steps)
  /\ \A t \in 1..Len(p.threads) : \A i \in 1..Len(p.threads[t]) :
       \A x \in StepsFor(p.threads[t][i], "make") : r \notin x.arg

\* What a goroutine has found made before step n of call i of its function.
Checked(f, i, n) ==
  {x.of : x \in {y \in StepsBefore(f[i], n) : y.op = "have"}
    \cup UNION {StepsFor(f[h], "have") : h \in {g \in 1..(i - 1) :
                  f[g].part = f[i].part /\ f[g].onErr = "return"}}}

\* That build function g has failed and returned keeps Collect from step n of
\* call i: it cannot fail, or the process exits then, or Collect checks for what
\* the build function makes last.
FailureIsSeen(p, g, f, i, n) ==
  \/ \A y \in StepsOf(p.build[g]) : y.op = "make"
  \/ g = 1 /\ \A y \in StepsOf(p.build[1]) :
               y.op = "make" \/ (y.op = "fail" /\ y.arg = {"error"})
  \/ \E r \in Checked(f, i, n) : MadeLast(p, g, r)

\* Step m of build function j has been taken if Collect gets to step n of call i,
\* even if other build functions have failed.
SurelyMade(p, j, m, f, i, n) ==
  /\ IF p.ifBuilt THEN p.build[j].part = f[i].part
                  ELSE \A y \in StepsBefore(p.build[j], m) : y.op = "make"
  /\ \A g \in 1..(j - 1) : p.build[g].onErr = "return" => FailureIsSeen(p, g, f, i, n)

\* The call is made in a goroutine that Collect starts.
InGoroutine(p, block) == p.spawn \/ block.onErr = "worker"

\* What a step of Collect uses is made before, in the same call or by a build
\* function that runs whenever the call does.  In a goroutine that Collect starts
\* it is surely made.  (In dns the descriptor of wmi_stats is made by
\* the build function of metrics.)
UseIsMade(c, p, t, i, n) ==
  LET block == p.threads[t][i]
      x     == block.steps[n]
  IN  \/ \E y \in StepsBefore(block, n) : y.op = "make" /\ x.of \in y.arg
      \/ \E j \in 1..Len(p.build) : \E m \in 1..Len(p.build[j].steps) :
           /\ Makes(p, j, m, x.of)
           /\ \/ p.build[j].part \in {"", block.part}
              \/ c = "dns" /\ p.build[j].part = "metrics" /\ x.op # "send"
           /\ InGoroutine(p, block) => SurelyMade(p, j, m, p.threads[t], i, n)

UsesAreMade(c, p) ==
  \A t \in 1..Len(p.threads) : \A i \in 1..Len(p.threads[t]) :
    \A n \in 1..Len(p.threads[t][i].steps) :
      p.threads[t][i].steps[n].op \in Uses => UseIsMade(c, p, t, i, n)

\* What Close uses is made by a build function that always runs.
CloseUsesAreMade(p) ==
  \A i \in 1..Len(p.close) : p.close[i].op = "use" =>
    \E j \in 1..Len(p.build) : \E m \in 1..Len(p.build[j].steps) :
      p.build[j].part = "" /\ Makes(p, j, m, p.close[i].of)

\* iis and dns collect in the goroutine that calls Collect.
PanicsAreRecovered(c, p) ==
  \A t \in 1..Len(p.threads) : \A i \in 1..Len(p.threads[t]) :
    c = "dns" \/ StepsFor(p.threads[t][i], "dedup") # {} =>
      ~InGoroutine(p, p.threads[t][i])

ASSUME TableAssumption ==
  \A c \in DOMAIN Programs :
    /\ \A t \in 1..Len(Programs[c].threads) :
         \A i \in 1..Len(Programs[c].threads[t]) :
           LoggedErrorsGoOn(Programs[c].threads[t][i])
    /\ RowsAreRead(Programs[c])
    /\ ClosesItsQueries(c, Programs[c])
    /\ UsesAreMade(c, Programs[c])
    /\ CloseUsesAreMade(Programs[c])
    /\ PanicsAreRecovered(c, Programs[c])

VARIABLES
  coll,        \* the collector,
  enabled,     \* and the sub-collectors its flags name
  phase,       \* "build", "serve", "exit", "closed" or "crashed"
  made,        \* what Build has made: descriptors, channels, handles
  query,       \* of each pdh query: "nil", "dead", "live" or "closed"
  rows,        \* whether the shared slice of the query holds rows
  bpos,        \* the step Build is at, as <<block, step>>
  berrs,       \* the errors of Build, and what it skips, as <<block, class>>
  st,          \* of each scrape: "idle", "wait" for the lock, "run", "done", and
               \* "over" when the next one has begun
  result,      \* what it reported: "none", "success", "failed" or "timeout"
  pos,         \* the step each of its goroutines is at
  errs,        \* its errors, as <<goroutine, block, class>>
  sent,        \* the groups of metrics it has sent
  overlapped   \* the scrapes that have run at the same time as another

buildVars == <<made, query, bpos, berrs>>
scrapeVars == <<st, result, pos, errs, sent, overlapped>>
vars == <<coll, enabled, phase, buildVars, rows, scrapeVars>>

P == Programs[coll]
Threads == 1..Len(P.threads)

Queries ==
  {x.of : x \in {y \in UNION {StepsOf(b) : b \in BlocksOf(P)} : y.op = "open"}}

-----------------------------------------------------------------------------
(* Positions in a function, that is in a sequence of blocks.               *)

IsOn(block) == block.part = "" \/ block.part \in enabled

\* if slices.Contains(c.config.CollectorsEnabled, ...) selects the calls.
\* hyperv and exchange register a collect function only if its build function was
\* called and worked, and eventlog reads the logs that it has opened.
BuildFailed(block) == \E e \in berrs : P.build[e[1]].part = block.part
Runs(block) == IsOn(block) /\ (P.ifBuilt => ~BuildFailed(block))

\* The first call of f that is made at or after call b.
FromBlock(f, b) ==
  LET on == {i \in b..Len(f) : Runs(f[i])}
  IN  IF on = {} THEN <<Len(f) + 1, 1>>
                 ELSE <<CHOOSE i \in on : \A j \in on : i <= j, 1>>

AtEnd(f, p) == p[1] > Len(f)
StepAt(f, p) == f[p[1]].steps[p[2]]

Advance(f, p) == IF p[2] < Len(f[p[1]].steps) THEN <<p[1], p[2] + 1>>
                                              ELSE FromBlock(f, p[1] + 1)

\* Mutant of Abort: the first error is always returned.
AbortAtFirst(f, p) == <<Len(f) + 1, 1>>

\* After an error: return it, or go on with the next call.
Abort(f, p) == IF f[p[1]].onErr = "return" THEN <<Len(f) + 1, 1>>
                                           ELSE FromBlock(f, p[1] + 1)

-----------------------------------------------------------------------------

Init ==
  /\ coll \in DOMAIN Programs
  /\ enabled \in Selections[coll]
  /\ phase = "build" /\ made = {} /\ berrs = {}
  /\ query = [q \in Queries |-> "nil"]
  /\ rows = [q \in Queries |-> FALSE]
  /\ bpos = FromBlock(P.build, 1)
  /\ st = [k \in Scrapes |-> "idle"]
  /\ result = [k \in Scrapes |-> "none"]
  /\ pos = [k \in Scrapes |-> <<>>]
  /\ errs = [k \in Scrapes |-> {}]
  /\ sent = [k \in Scrapes |-> {}]
  /\ overlapped = {}

-----------------------------------------------------------------------------
(* Build.                                                                  *)

Building == phase = "build" /\ ~AtEnd(P.build, bpos)
BuildStep == StepAt(P.build, bpos)

BuildGoesOn ==
  /\ bpos' = Advance(P.build, bpos)
  /\ UNCHANGED berrs

BuildFails(class) ==
  /\ bpos' = Abort(P.build, bpos)
  /\ berrs' = berrs \cup {<<bpos[1], class>>}

MakeResource ==
  /\ Building /\ BuildStep.op = "make"
  /\ made' = made \cup BuildStep.arg
  /\ BuildGoesOn
  /\ UNCHANGED <<coll, enabled, phase, query, rows, scrapeVars>>

\* pdh.NewCollector.  With an error the collector may still be there: without a
\* worker after a failed AddCounter, with one after a failed initial Collect.
NewCollector ==
  /\ Building /\ BuildStep.op = "open"
  /\ \/ /\ query' = [query EXCEPT ![BuildStep.of] = "live"]
        /\ BuildGoesOn
     \/ /\ UNCHANGED query
        /\ BuildFails("error")
     \/ \E left \in {"dead", "live"}, class \in {"tolerated", "error"} :
          /\ query' = [query EXCEPT ![BuildStep.of] = left]
          /\ BuildFails(class)
  /\ UNCHANGED <<coll, enabled, phase, made, rows, scrapeVars>>

BuildCall ==
  /\ Building /\ BuildStep.op = "fail"
  /\ \/ BuildGoesOn
     \/ \E class \in BuildStep.arg \ {"panic"} : BuildFails(class)
  /\ UNCHANGED <<coll, enabled, phase, made, query, rows, scrapeVars>>

\* Collection.Build calls Build in a goroutine that recovers nothing.
BuildPanics ==
  /\ Building /\ BuildStep.op = "fail" /\ "panic" \in BuildStep.arg
  /\ phase' = "crashed"
  /\ UNCHANGED <<coll, enabled, buildVars, rows, scrapeVars>>

\* Collection.Build drops the error if errors.Is finds a tolerated one in it,
\* whatever else is joined to it; otherwise the process exits.
Tolerated ==
  (\A e \in berrs : e[2] = "skipped") \/ \E e \in berrs : e[2] = "tolerated"

BuildReturns ==
  /\ phase = "build" /\ AtEnd(P.build, bpos)
  /\ phase' = IF Tolerated THEN "serve" ELSE "exit"
  /\ UNCHANGED <<coll, enabled, buildVars, rows, scrapeVars>>

-----------------------------------------------------------------------------
(* Collect.  A step of goroutine t of scrape k.                            *)

F(t) == P.threads[t]
End(t) == <<Len(F(t)) + 1, 1>>
Here(k, t) == StepAt(F(t), pos[k][t])
Finished(k, t) == AtEnd(F(t), pos[k][t])

At(k, t, op) ==
  /\ phase = "serve" /\ st[k] = "run"
  /\ ~Finished(k, t)
  /\ P.after[t] # 0 => Finished(k, P.after[t])
  /\ Here(k, t).op = op

GoesOn(k, t) == pos' = [pos EXCEPT ![k][t] = Advance(F(t), @)]

Continues(k, t) == GoesOn(k, t) /\ UNCHANGED <<phase, errs, sent>>

\* mssql takes pdh.ErrNoData for an instance without such counters.
ClassFor(onErr, class) ==
  IF onErr \in {"log", "worker"} \/ (onErr = "nodata" /\ class = "nodata")
    THEN "logged"
    ELSE class

Fails(k, t, class) ==
  LET b == pos[k][t][1]
  IN  /\ pos' = [pos EXCEPT ![k][t] = Abort(F(t), @)]
      /\ errs' = [errs EXCEPT
                    ![k] = @ \cup {<<t, b, ClassFor(F(t)[b].onErr, class)>>}]
      /\ UNCHANGED <<phase, sent>>

\* collectCollector recovers a panic of the goroutine that calls Collect, and
\* of no other goroutine.
Panics(k, t) ==
  /\ pos' = [pos EXCEPT ![k][t] = End(t)]
  /\ errs' = [errs EXCEPT ![k] = {<<t, pos[k][t][1], "panic">>}]
  /\ phase' = IF InGoroutine(P, F(t)[pos[k][t][1]]) THEN "crashed" ELSE phase
  /\ UNCHANGED sent

\* MustNewConstMetric dereferences the descriptor.
Sends(k, t, g) ==
  \/ /\ g \in made
     /\ sent' = [sent EXCEPT ![k] = @ \cup {g}]
     /\ GoesOn(k, t)
     /\ UNCHANGED <<phase, errs>>
  \/ g \notin made /\ Panics(k, t)

collectFrame == <<coll, enabled, query, bpos, berrs, st, result, overlapped>>

\* Mutant of ReadRows: that there is no row is not an error.
ReadRowsMaybeNone(k, t) ==
  /\ At(k, t, "read")
  /\ LET q == Here(k, t).of IN
       IF query[q] = "live"
         THEN (\E r \in BOOLEAN : rows' = [rows EXCEPT ![q] = r]) /\ Continues(k, t)
         ELSE Fails(k, t, "error") /\ UNCHANGED rows
  /\ UNCHANGED <<collectFrame, made>>

\* perfDataCollector.Collect.  CollectQueryData may fail before the slice is
\* emptied, and a later error leaves the rows found so far.
ReadRows(k, t) ==
  /\ At(k, t, "read")
  /\ LET q == Here(k, t).of IN
       \/ /\ query[q] = "live"
          /\ rows' = [rows EXCEPT ![q] = TRUE]
          /\ Continues(k, t)
       \/ /\ query[q] # "live"
          /\ Fails(k, t, "error")
          /\ UNCHANGED rows
       \/ \E class \in {"nodata", "error"}, r \in BOOLEAN :
            /\ query[q] = "live"
            /\ class = "nodata" => r \in {FALSE, rows[q]}
            /\ rows' = [rows EXCEPT ![q] = r]
            /\ Fails(k, t, class)
  /\ UNCHANGED <<collectFrame, made>>

CheckRows(k, t) ==
  /\ At(k, t, "nonempty")
  /\ IF rows[Here(k, t).of] THEN Continues(k, t) ELSE Fails(k, t, "error")
  /\ UNCHANGED <<collectFrame, made, rows>>

\* perfDataObject[0] panics if another Collect has emptied the slice.
SendFirstRow(k, t) ==
  /\ At(k, t, "first")
  /\ \E q \in Here(k, t).arg :
       IF rows[q] THEN Sends(k, t, Here(k, t).of) ELSE Panics(k, t)
  /\ UNCHANGED <<collectFrame, made, rows>>

SendEachRow(k, t) ==
  /\ \E op \in {"each", "eachNamed"} : At(k, t, op)
  /\ \E q \in Here(k, t).arg :
       \/ rows[q] /\ Sends(k, t, Here(k, t).of)
       \/ ~rows[q] /\ Continues(k, t)
       \/ rows[q] /\ Here(k, t).op = "eachNamed" /\ Fails(k, t, "error")
  /\ UNCHANGED <<collectFrame, made, rows>>

SendValues(k, t) ==
  /\ At(k, t, "emit")
  /\ Sends(k, t, Here(k, t).of)
  /\ UNCHANGED <<collectFrame, made, rows>>

\* Session.Query returns ErrNotInitialized if there is no session.
QueryMI(k, t) ==
  /\ At(k, t, "query")
  /\ \/ "mi" \in made /\ Continues(k, t)
     \/ Fails(k, t, "error")
  /\ UNCHANGED <<collectFrame, made, rows>>

CollectCall(k, t) ==
  /\ At(k, t, "fail")
  /\ \/ Continues(k, t)
     \/ \E class \in Here(k, t).arg : Fails(k, t, class)
  /\ UNCHANGED <<collectFrame, made, rows>>

UseResource(k, t) ==
  /\ At(k, t, "use")
  /\ IF Here(k, t).of \in made THEN Continues(k, t) ELSE Panics(k, t)
  /\ UNCHANGED <<collectFrame, made, rows>>

CheckResource(k, t) ==
  /\ At(k, t, "have")
  /\ IF Here(k, t).of \in made THEN Continues(k, t) ELSE Fails(k, t, "nodata")
  /\ UNCHANGED <<collectFrame, made, rows>>

\* slices.Delete(rows, index, 1) panics if a name with a number sign comes
\* third or later.
DedupNames(k, t) ==
  /\ At(k, t, "dedup")
  /\ \/ Continues(k, t)
     \/ rows[Here(k, t).of] /\ Panics(k, t)
  /\ UNCHANGED <<collectFrame, made, rows>>

\* A send on a nil channel blocks for ever.
SendWork(k, t) ==
  /\ At(k, t, "send")
  /\ Here(k, t).of \in made
  /\ Continues(k, t)
  /\ UNCHANGED <<collectFrame, made, rows>>

\* performancecounter and textfile make descriptors while they collect.
MakeDescs(k, t) ==
  /\ At(k, t, "make")
  /\ made' = made \cup Here(k, t).arg
  /\ Continues(k, t)
  /\ UNCHANGED <<collectFrame, rows>>

CollectStep(k, t) ==
  \/ ReadRows(k, t) \/ CheckRows(k, t) \/ SendFirstRow(k, t)
  \/ SendEachRow(k, t) \/ SendValues(k, t) \/ QueryMI(k, t)
  \/ CollectCall(k, t) \/ UseResource(k, t) \/ CheckResource(k, t)
  \/ SendWork(k, t) \/ DedupNames(k, t) \/ MakeDescs(k, t)

-----------------------------------------------------------------------------
(* Scrapes and Close.                                                      *)

Live == {q \in DOMAIN query : query[q] = "live"}
Running == {k \in Scrapes : st[k] = "run"}
Begun == {k \in Scrapes : st[k] # "idle"}

\* The mutex of PrometheusHTTPHandler lets the next scrape in when every
\* collector of this one has returned or has timed out.  (Calls of a collector
\* without a query share nothing, so one of them is explored; what is recorded
\* of the scrapes that have ended is dropped.)
BeginScrape(k) ==
  /\ phase = "serve" /\ st[k] = "idle"
  /\ \A j \in Scrapes : j < k => st[j] # "idle" /\ result[j] # "none"
  /\ \A load \in {Cardinality(enabled), Cardinality(Live)} :
       (Cardinality(Begun) + 1) * load <= MaxLoad
  /\ DOMAIN query = {} => Begun = {}
  /\ st' = [j \in Scrapes |-> IF j = k THEN "wait"
                             ELSE IF st[j] = "done" THEN "over" ELSE st[j]]
  /\ errs' = [j \in Scrapes |-> IF st[j] = "done" THEN {} ELSE errs[j]]
  /\ sent' = [j \in Scrapes |-> IF st[j] = "done" THEN {} ELSE sent[j]]
  /\ overlapped' = {j \in overlapped : st[j] # "done"}
  /\ UNCHANGED <<coll, enabled, phase, buildVars, rows, result, pos>>

\* Collect enters; cpu first takes the lock of the collector.
EnterCollect(k) ==
  /\ phase = "serve" /\ st[k] = "wait"
  /\ P.lock => Running = {}
  /\ st' = [st EXCEPT ![k] = "run"]
  /\ pos' = [pos EXCEPT ![k] = [t \in Threads |-> FromBlock(F(t), 1)]]
  /\ overlapped' = IF Running = {} THEN overlapped
                                   ELSE overlapped \cup Running \cup {k}
  /\ UNCHANGED <<coll, enabled, phase, buildVars, rows, result, errs, sent>>

Timeout(k) ==
  /\ phase = "serve" /\ st[k] \in {"wait", "run"} /\ result[k] = "none"
  /\ result' = [result EXCEPT ![k] = "timeout"]
  /\ UNCHANGED <<coll, enabled, phase, buildVars, rows, st, pos, errs, sent,
                 overlapped>>

\* Mutant of Verdict: an error of a goroutine that Collect starts is lost.
VerdictOfFirst(es) ==
  LET shown == {e \in es : e[1] = 1 /\ e[3] # "logged"}
  IN  IF shown = {} \/ \E e \in shown : e[3] = "nodata" THEN "success"
                                                        ELSE "failed"

\* errors.Is(err, pdh.ErrNoData) holds of a joined error if it holds of one of
\* the errors that were joined.
Verdict(es) ==
  LET shown == {e \in es : e[3] # "logged"}
  IN  IF shown = {} \/ \E e \in shown : e[3] = "nodata" THEN "success"
                                                        ELSE "failed"

CollectReturns(k) ==
  /\ phase = "serve" /\ st[k] = "run"
  /\ \A t \in Threads : Finished(k, t)
  /\ st' = [st EXCEPT ![k] = "done"]
  /\ result' = [result EXCEPT
                  ![k] = IF @ = "timeout" THEN @ ELSE Verdict(errs[k])]
  /\ UNCHANGED <<coll, enabled, phase, buildVars, rows, pos, errs, sent,
                 overlapped>>

\* Mutant of Close: it returns after the first query.
CloseFirstOnly ==
  /\ phase = "serve" /\ \A k \in Scrapes : st[k] \in {"idle", "done", "over"}
  /\ LET first == {P.close[i].of : i \in {j \in 1..Len(P.close) :
                     P.close[j].op = "close" /\ j = 1}}
     IN  query' = [q \in DOMAIN query |->
            IF q \in first /\ query[q] # "nil" THEN "closed" ELSE query[q]]
  /\ phase' = "closed"
  /\ UNCHANGED <<coll, enabled, made, bpos, berrs, rows, scrapeVars>>

\* A step of Close that panics: the handle is nil.
Unmade(x) == x.op = "use" /\ x.of \notin made

\* Close of the collector, after the last scrape.  It returns at the first
\* call that fails, and the process dies if it panics.
Close ==
  /\ phase = "serve" /\ \A k \in Scrapes : st[k] \in {"idle", "done", "over"}
  /\ \E n \in 0..Len(P.close) :
       /\ n < Len(P.close) => P.close[n + 1].op = "fail" \/ Unmade(P.close[n + 1])
       /\ \A i \in 1..n : ~Unmade(P.close[i])
       /\ LET closed == {P.close[i].of : i \in {j \in 1..n :
                           /\ P.close[j].op = "close"
                           /\ P.close[j].arg \subseteq enabled}}
          IN  query' = [q \in DOMAIN query |->
                 IF q \in closed /\ query[q] # "nil" THEN "closed" ELSE query[q]]
       /\ phase' = IF n < Len(P.close) /\ Unmade(P.close[n + 1]) THEN "crashed"
                                                                 ELSE "closed"
  /\ UNCHANGED <<coll, enabled, made, bpos, berrs, rows, scrapeVars>>

Next ==
  \/ MakeResource \/ NewCollector \/ BuildCall \/ BuildPanics \/ BuildReturns
  \/ Close
  \/ \E k \in Scrapes :
       \/ BeginScrape(k) \/ EnterCollect(k) \/ Timeout(k) \/ CollectReturns(k)
       \/ \E t \in Threads : CollectStep(k, t)

Spec == Init /\ [][Next]_vars

-----------------------------------------------------------------------------
(* Properties.                                                             *)

\* Every variable has its type; a goroutine of a running scrape is at a step of
\* its function or at its end.
TypeOK ==
  /\ coll \in DOMAIN Programs /\ enabled \subseteq PartsOf(P)
  /\ phase \in {"build", "serve", "exit", "closed", "crashed"}
  /\ query \in [Queries -> {"nil", "dead", "live", "closed"}]
  /\ rows \in [Queries -> BOOLEAN]
  /\ AtEnd(P.build, bpos) \/ bpos[2] \in 1..Len(P.build[bpos[1]].steps)
  /\ \A e \in berrs :
       /\ e[1] \in 1..Len(P.build)
       /\ e[2] \in {"tolerated", "error", "skipped"}
  /\ st \in [Scrapes -> {"idle", "wait", "run", "done", "over"}]
  /\ result \in [Scrapes -> {"none", "success", "failed", "timeout"}]
  /\ \A k \in Scrapes : st[k] \in {"run", "done"} => \A t \in Threads :
       Finished(k, t) \/ pos[k][t][2] \in 1..Len(F(t)[pos[k][t][1]].steps)
  /\ overlapped \subseteq Scrapes

Panicked(k) == \E e \in errs[k] : e[3] = "panic"

HasStep(op) == \E t \in Threads : \E i \in 1..Len(F(t)) :
                 \E x \in StepsOf(F(t)[i]) : x.op = op

\* A panic in Collect (a nil descriptor, a missing row) has one of four causes:
\* Build has failed in a tolerated way; the scrape overlaps one that timed out,
\* in a collector that reads perfDataObject[0]; iis deduplicates site names; or
\* dns runs with wmi_stats alone, whose descriptor is made with those of metrics
\* (dns.go:291).  The process dies of it only in the second case, in a
\* goroutine that Collect has started (collect.go:125-133); otherwise it dies only
\* in Build, or in a Close after a Build that failed (service.go:200).  And a
\* goroutine blocks for ever on a channel only if Build has failed
\* (process.go:182-202).
PanicHasCause ==
  /\ \A k \in Scrapes :
       /\ Panicked(k) =>
            \/ berrs # {}
            \/ k \in overlapped /\ HasStep("first")
            \/ HasStep("dedup")
            \/ coll = "dns" /\ "metrics" \notin enabled
       /\ \A t \in Threads :
            At(k, t, "send") /\ Here(k, t).of \notin made => berrs # {}
  /\ phase = "crashed" =>
       \/ ~AtEnd(P.build, bpos)
       \/ \E k \in Scrapes : Panicked(k) /\ k \in overlapped /\ HasStep("first")
       \/ berrs # {} /\ \A k \in Scrapes : st[k] \in {"idle", "done", "over"}

\* The groups of metrics that a call of Collect is there to send.
GroupsOf(block) ==
  {x.of : x \in {y \in StepsOf(block) :
                   y.op \in {"first", "each", "eachNamed", "emit"}}}

\* When Collect has returned without a panic and without overlap, each group of
\* metrics of an enabled sub-collector has been sent, or the call that sends it
\* has failed, or one before it has whose error makes the function return.  So
\* the failure of one sub-collector hides no other one where errors are joined or
\* logged, and a scrape is complete even if Build has failed unless there is an
\* error in it.  The error may be one that is only logged, so that the result
\* does not show it (container.go:383-390, filetime.go:134-168).  The exceptions
\* are the sub-collectors of hyperv and exchange, and the logs of eventlog, whose
\* build failed or was skipped: they are left out, and no scrape says so
\* (hyperv.go:256-269, eventlog.go:554).
MissingIsExplained ==
  \A k \in Scrapes :
    st[k] = "done" /\ ~Panicked(k) /\ k \notin overlapped =>
      \A t \in Threads : \A i \in 1..Len(F(t)) :
        IsOn(F(t)[i]) /\ ~(P.ifBuilt /\ BuildFailed(F(t)[i])) =>
          \/ GroupsOf(F(t)[i]) \subseteq sent[k]
          \/ \E e \in errs[k] : e[1] = t /\ e[2] = i
          \/ \E e \in errs[k] : e[1] = t /\ e[2] < i /\ F(t)[e[2]].onErr = "return"

\* A collector that reports success, without overlap and without pdh.ErrNoData,
\* has sent every group of metrics it runs for, except those whose error it only
\* logs: no failure of a goroutine and no panic is lost (collect.go:125-135 and
\* 207-222).  With pdh.ErrNoData from one part it reports success whatever the
\* other parts did (collect.go:207).
SuccessMeansComplete ==
  \A k \in Scrapes :
    (/\ st[k] = "done" /\ result[k] = "success" /\ k \notin overlapped
     /\ \A e \in errs[k] : e[3] # "nodata") =>
         \A t \in Threads : \A i \in 1..Len(F(t)) : Runs(F(t)[i]) =>
           \/ GroupsOf(F(t)[i]) \subseteq sent[k]
           \/ \E e \in errs[k] : e[1] = t /\ e[2] = i /\ e[3] = "logged"

\* Close leaves no performance counter query open (collector.go:587-610 in pdh),
\* except in the collectors whose Close does not know of the query.
CloseReleases ==
  phase = "closed" => \A q \in DOMAIN query :
    query[q] \in {"dead", "live"} => <<coll, q>> \in KeptOpen
=============================================================================
