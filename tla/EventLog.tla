------------------------------ MODULE EventLog ------------------------------
(***************************************************************************)
(* The eventlog collector reading one Windows event log (internal/         *)
(* collector/eventlog).  A call of Collect reads the log through the       *)
(* handle of logReadState until there is no further record, and counts     *)
(* what it has read.  If the log has changed under the handle it opens the *)
(* log again.  A call that was given up after its timeout goes on beside   *)
(* the next one, with the same handle and the same counts.                 *)
(*                                                                         *)
(* Records are numbered in the order in which they are written; the log    *)
(* holds those from first to written.  ReadEventLog is called with         *)
(* EVENTLOG_SEQUENTIAL_READ, which takes the position from the handle: the *)
(* argument nextRecordNumber has no effect and is left out.  Which metrics *)
(* a record adds to depends on the record only (updateDerivedCounters and  *)
(* the filter): counted says how often it has been added.  The additions   *)
(* take no lock.  total is one of the counters, to which all records add.  *)
(***************************************************************************)
EXTENDS Naturals, FiniteSets

CONSTANTS
  Calls,       \* calls of Collect that may exist at a time
  Handles,     \* the handles of the system
  NoHandle,    \* the handle 0
  Before,      \* records that exist when the exporter starts
  MaxRecords,  \* bound: records written
  MaxClears,   \* bound: times the log is cleared
  MaxFaults,   \* bound: calls to the system that fail
  LogMax,      \* records the log holds
  BatchMax     \* records that one read returns

ASSUME EventLogAssumption ==
  /\ NoHandle \notin Handles
  /\ Before \in Nat /\ MaxRecords \in Nat /\ MaxClears \in Nat
  /\ MaxFaults \in Nat /\ LogMax \in Nat \ {0} /\ BatchMax \in Nat \ {0}
  /\ Before <= LogMax

VARIABLES
  first, written, clears,  \* the log
  open, pos, era,          \* of each handle: open, the next record (0: from the
                           \* oldest one), and how often the log had been cleared
  handle,                  \* state.handle
  counted,                 \* how often each record has been counted
  processed,               \* the sum of counted
  total,                   \* a counter
  adding, loaded,          \* the calls that are adding to it, and what they read
  raced,                   \* the calls that have been adding at the same time
  phase,                   \* "build", "serve", "exit", "crashed" or "closed"
  pc, batch, new,          \* of each call: where it is, the records it has still
                           \* to count, the handle it has opened
  late,                    \* the calls that have timed out
  crossed,                 \* two calls have been reopening the log at a time
  faults

logVars == <<first, written, clears>>
handleVars == <<open, pos, era>>
countVars == <<counted, processed, total, adding, loaded, raced>>
callVars == <<pc, batch, new, late, crossed>>
vars == <<logVars, handleVars, handle, countVars, phase, callVars, faults>>

Records == 1..(Before + MaxRecords)
InLog == first..written
None == [from |-> 1, to |-> 0]
Pending(b) == b.from..b.to

Init ==
  /\ first = 1 /\ written = Before /\ clears = 0
  /\ open = {} /\ pos = [h \in Handles |-> 0] /\ era = [h \in Handles |-> 0]
  /\ handle = NoHandle
  /\ counted = [r \in Records |-> 0] /\ processed = 0 /\ total = 0
  /\ adding = {} /\ loaded = [k \in Calls |-> 0] /\ raced = {}
  /\ phase = "build"
  /\ pc = [k \in Calls |-> "idle"]
  /\ batch = [k \in Calls |-> None]
  /\ new = [k \in Calls |-> NoHandle]
  /\ late = {} /\ crossed = FALSE /\ faults = 0

-----------------------------------------------------------------------------
(* The log, written to and cleared by others.  A full log loses its oldest *)
(* record.                                                                 *)

Write ==
  /\ written < Before + MaxRecords
  /\ written' = written + 1
  /\ first' = IF Cardinality(InLog) = LogMax THEN first + 1 ELSE first
  /\ UNCHANGED <<clears, handleVars, handle, countVars, phase, callVars, faults>>

Clear ==
  /\ clears < MaxClears
  /\ clears' = clears + 1
  /\ first' = written + 1
  /\ UNCHANGED <<written, handleVars, handle, countVars, phase, callVars, faults>>

Fault == faults < MaxFaults /\ faults' = faults + 1
NoFault == UNCHANGED faults

-----------------------------------------------------------------------------

Opens(h) ==
  /\ h \in Handles \ open
  /\ open' = open \cup {h}
  /\ pos' = [pos EXCEPT ![h] = 0]
  /\ era' = [era EXCEPT ![h] = clears]

\* Build opens the log and asks for its size and its oldest record; if one of
\* these calls fails the handle is closed and Build returns an error.
Build ==
  /\ phase = "build"
  /\ \/ /\ \E h \in Handles : Opens(h) /\ handle' = h
        /\ phase' = "serve" /\ NoFault
     \/ /\ phase' = "exit" /\ Fault
        /\ UNCHANGED <<handleVars, handle>>
  /\ UNCHANGED <<logVars, countVars, callVars>>

\* PrometheusHTTPHandler runs one scrape at a time, but does not wait for a
\* call that has timed out.
Begin(k) ==
  /\ phase = "serve" /\ pc[k] = "idle"
  /\ \A j \in Calls : pc[j] = "idle" \/ j \in late
  /\ pc' = [pc EXCEPT ![k] = "read"]
  /\ late' = late \ {k}
  /\ UNCHANGED <<logVars, handleVars, handle, countVars, phase, batch, new,
                 crossed, faults>>

Timeout(k) ==
  /\ phase = "serve" /\ pc[k] # "idle"
  /\ late' = late \cup {k}
  /\ UNCHANGED <<logVars, handleVars, handle, countVars, phase, pc, batch, new,
                 crossed, faults>>

At(k, place) == phase = "serve" /\ pc[k] = place
Goes(k, place) == pc' = [pc EXCEPT ![k] = place]

Reopening == {k \in Calls : pc[k] \in {"close", "open", "oldest"}}

\* What ReadEventLog says of the handle h.
Invalid(h) == h \notin open
Changed(h) == era[h] # clears \/ (pos[h] # 0 /\ pos[h] < first)
From(h) == IF pos[h] = 0 THEN first ELSE pos[h]

\* Mutant of ReadBatch: the handle stays where it is.
ReadBatchAgain(k) ==
  /\ At(k, "read") /\ ~Invalid(handle) /\ ~Changed(handle)
  /\ From(handle) <= written
  /\ batch' = [batch EXCEPT ![k] = [from |-> From(handle), to |-> From(handle)]]
  /\ Goes(k, "count")
  /\ UNCHANGED <<logVars, handleVars, handle, countVars, phase, new, late, crossed,
                 faults>>

\* The records that fit the buffer.  (If the first one does not, the call is
\* repeated with a larger buffer.)
ReadBatch(k) ==
  /\ At(k, "read") /\ ~Invalid(handle) /\ ~Changed(handle)
  /\ \E n \in 1..BatchMax :
       LET to == From(handle) + n - 1
       IN  /\ to <= written
           /\ batch' = [batch EXCEPT ![k] = [from |-> From(handle), to |-> to]]
           /\ pos' = [pos EXCEPT ![handle] = to + 1]
  /\ Goes(k, "count")
  /\ UNCHANGED <<logVars, open, era, handle, countVars, phase, new, late, crossed,
                 faults>>

\* ERROR_HANDLE_EOF; an invalid handle and any other error are logged.
ReadEnds(k) ==
  /\ At(k, "read")
  /\ \/ Invalid(handle) /\ NoFault
     \/ ~Invalid(handle) /\ ~Changed(handle) /\ From(handle) > written /\ NoFault
     \/ Fault
  /\ Goes(k, "emit")
  /\ UNCHANGED <<logVars, handleVars, handle, countVars, phase, batch, new, late,
                 crossed>>

\* Mutant of ReadChanged: it is an error like any other.
ReadChangedLogged(k) ==
  /\ At(k, "read") /\ ~Invalid(handle) /\ Changed(handle)
  /\ Goes(k, "emit")
  /\ UNCHANGED <<logVars, handleVars, handle, countVars, phase, batch, new, late,
                 crossed, faults>>

\* ERROR_EVENTLOG_FILE_CHANGED, 1503
ReadChanged(k) ==
  /\ At(k, "read") /\ ~Invalid(handle) /\ Changed(handle)
  /\ Goes(k, "close")
  /\ crossed' = (crossed \/ Reopening # {})
  /\ UNCHANGED <<logVars, handleVars, handle, countVars, phase, batch, new, late,
                 faults>>

\* total++ reads the counter, and writes it in a step of its own.
Load(k) ==
  /\ At(k, "count") /\ k \notin adding
  /\ adding' = adding \cup {k}
  /\ loaded' = [loaded EXCEPT ![k] = total]
  /\ raced' = IF adding = {} THEN raced ELSE raced \cup adding \cup {k}
  /\ UNCHANGED <<logVars, handleVars, handle, counted, processed, total, phase,
                 callVars, faults>>

\* Mutant of Count: the last record of a buffer is left out.
CountButLast(k) ==
  /\ At(k, "count") /\ k \in adding
  /\ LET r == batch[k].from IN
       /\ counted' = IF r < batch[k].to THEN [counted EXCEPT ![r] = @ + 1] ELSE counted
       /\ batch' = [batch EXCEPT ![k] = IF r < @.to THEN [@ EXCEPT !.from = r + 1] ELSE None]
       /\ Goes(k, IF r < batch[k].to THEN "count" ELSE "read")
  /\ processed' = processed + 1 /\ total' = loaded[k] + 1
  /\ adding' = adding \ {k} /\ loaded' = [loaded EXCEPT ![k] = 0]
  /\ UNCHANGED <<logVars, handleVars, handle, raced, phase, new, late, crossed,
                 faults>>

\* Mutant of Count: the counter is read once for all records of a buffer.
CountFromCopy(k) ==
  /\ At(k, "count") /\ k \in adding
  /\ LET r == batch[k].from IN
       /\ counted' = [counted EXCEPT ![r] = @ + 1]
       /\ batch' = [batch EXCEPT ![k] = IF r < @.to THEN [@ EXCEPT !.from = r + 1] ELSE None]
       /\ Goes(k, IF r < batch[k].to THEN "count" ELSE "read")
       /\ adding' = IF r < batch[k].to THEN adding ELSE adding \ {k}
  /\ processed' = processed + 1 /\ total' = loaded[k] + 1
  /\ UNCHANGED <<logVars, handleVars, handle, loaded, raced, phase, new, late, crossed,
                 faults>>

\* One record of the buffer has been added.
Count(k) ==
  /\ At(k, "count") /\ k \in adding
  /\ LET r == batch[k].from IN
       /\ counted' = [counted EXCEPT ![r] = @ + 1]
       /\ batch' = [batch EXCEPT ![k] = IF r < @.to THEN [@ EXCEPT !.from = r + 1] ELSE None]
       /\ Goes(k, IF r < batch[k].to THEN "count" ELSE "read")
  /\ processed' = processed + 1 /\ total' = loaded[k] + 1
  /\ adding' = adding \ {k} /\ loaded' = [loaded EXCEPT ![k] = 0]
  /\ UNCHANGED <<logVars, handleVars, handle, raced, phase, new, late, crossed,
                 faults>>

-----------------------------------------------------------------------------
(* reopenLog.                                                              *)

CloseHandle(k) ==
  /\ At(k, "close")
  /\ open' = open \ {handle}
  /\ handle' = NoHandle
  /\ Goes(k, "open")
  /\ UNCHANGED <<logVars, pos, era, countVars, phase, batch, new, late, crossed,
                 faults>>

OpenAgain(k) ==
  /\ At(k, "open")
  /\ \/ /\ \E h \in Handles : Opens(h) /\ new' = [new EXCEPT ![k] = h]
        /\ Goes(k, "oldest") /\ NoFault
     \/ /\ Goes(k, "emit") /\ Fault
        /\ UNCHANGED <<handleVars, new>>
  /\ UNCHANGED <<logVars, handle, countVars, phase, batch, late, crossed>>

\* Mutant of AskOldest: the handle is not closed if the call fails.
AskOldestLeaks(k) ==
  /\ At(k, "oldest")
  /\ \/ handle' = new[k] /\ NoFault
     \/ Fault /\ UNCHANGED handle
  /\ new' = [new EXCEPT ![k] = NoHandle]
  /\ Goes(k, "emit")
  /\ UNCHANGED <<logVars, handleVars, countVars, phase, batch, late, crossed>>

AskOldest(k) ==
  /\ At(k, "oldest")
  /\ \/ handle' = new[k] /\ NoFault /\ UNCHANGED open
     \/ open' = open \ {new[k]} /\ Fault /\ UNCHANGED handle
  /\ new' = [new EXCEPT ![k] = NoHandle]
  /\ Goes(k, "emit")
  /\ UNCHANGED <<logVars, pos, era, countVars, phase, batch, late, crossed>>

-----------------------------------------------------------------------------

\* emitCounts and emitDerivedCounters range over the maps; Collect returns nil.
Emit(k) ==
  /\ At(k, "emit")
  /\ Goes(k, "idle")
  /\ late' = late \ {k}
  /\ UNCHANGED <<logVars, handleVars, handle, countVars, phase, batch, new,
                 crossed, faults>>

\* The maps of counts have no lock: the runtime ends the process if it sees one
\* call write to a map that another one writes to or ranges over.
MapRace ==
  /\ phase = "serve"
  /\ \E j, k \in Calls : j # k /\ pc[j] = "count" /\ pc[k] \in {"count", "emit"}
  /\ phase' = "crashed"
  /\ UNCHANGED <<logVars, handleVars, handle, countVars, callVars, faults>>

Close ==
  /\ phase = "serve" /\ \A k \in Calls : pc[k] = "idle"
  /\ phase' = "closed"
  /\ open' = open \ {handle}
  /\ UNCHANGED <<logVars, pos, era, handle, countVars, callVars, faults>>

Step(k) ==
  \/ ReadBatch(k) \/ ReadEnds(k) \/ ReadChanged(k) \/ Load(k) \/ Count(k)
  \/ CloseHandle(k) \/ OpenAgain(k) \/ AskOldest(k) \/ Emit(k)

Next ==
  \/ Write \/ Clear \/ Build \/ MapRace \/ Close
  \/ \E k \in Calls : Begin(k) \/ Timeout(k) \/ Step(k)

Spec == Init /\ [][Next]_vars

\* Collect is scheduled, and scrapes keep coming.
FairSpec ==
  /\ Spec
  /\ WF_vars(Build)
  /\ WF_vars(\E k \in Calls : Begin(k))
  /\ \A k \in Calls : WF_vars(Step(k))

-----------------------------------------------------------------------------
(* Properties.                                                             *)

\* The types of what belongs to the log and to the calls.
LogTypes ==
  /\ first \in 1..(written + 1) /\ written \in 0..(Before + MaxRecords)
  /\ clears \in 0..MaxClears
  /\ open \subseteq Handles /\ pos \in [Handles -> Nat] /\ era \in [Handles -> Nat]
  /\ handle \in Handles \cup {NoHandle}
  /\ counted \in [Records -> Nat]
  /\ phase \in {"build", "serve", "exit", "crashed", "closed"}
  /\ pc \in [Calls -> {"idle", "read", "count", "close", "open", "oldest", "emit"}]
  /\ batch \in [Calls -> [from : Records \cup {1}, to : Records \cup {0}]]
  /\ \A k \in Calls : /\ pc[k] = "count" <=> Pending(batch[k]) # {}
                      /\ batch[k].to <= written
  /\ new \in [Calls -> Handles \cup {NoHandle}]
  /\ late \subseteq Calls /\ crossed \in BOOLEAN /\ faults \in 0..MaxFaults

\* The types of what belongs to the counter.
CounterTypes ==
  /\ processed \in Nat /\ total \in Nat
  /\ adding \subseteq Calls /\ loaded \in [Calls -> Nat] /\ raced \subseteq Calls

\* Every variable has its type, and a call that counts has a record to count,
\* which has been written.
TypeOK == LogTypes /\ CounterTypes

\* No record of the log is left out: what lies before the position of the
\* handle has been counted or is about to be, also when the log was opened
\* again, and when a call that timed out still holds a part
\* (eventlog.go:604-643).
NoneSkipped ==
  handle \in open /\ era[handle] = clears =>
    \A r \in InLog : r < pos[handle] =>
      counted[r] > 0 \/ \E k \in Calls : r \in Pending(batch[k])

\* A record is counted twice only after two calls have been reopening the log
\* at the same time (eventlog.go:648-669): one of them may put back to the
\* oldest record a log that the other one has read.
CountedOnce ==
  ~crossed => \A r \in 1..written : counted[r] <= 1

\* The handle that is in use, and those that calls are about to put in use, are
\* the only ones open, unless two calls have been reopening the log at the same
\* time; none is open after Close.
NoHandleLeak ==
  ~crossed =>
    /\ open \subseteq {handle} \cup {new[k] : k \in Calls}
    /\ phase = "closed" => open = {}

\* A counter exposes the number of the records that were processed, unless two
\* calls have been adding at the same time: then it may have lost some, but it
\* never shows more (eventlog.go:634, 697-719).
TotalIsExact ==
  /\ raced = {} => total = processed
  /\ total <= processed

\* Calls race, for the counters or for the maps of counts, only if one of them has
\* timed out (eventlog.go:561-634, handler.go:68).
RaceNeedsTimeout ==
  [][raced' # raced \/ (phase' = "crashed" /\ phase = "serve") => late # {}]_vars

\* reopenLog has failed: no call will set the handle again.
Dead == handle = NoHandle /\ Reopening = {}

\* A log that could not be opened again is given up for good: no later scrape, and
\* no call that is still under way, reads it or sets the handle
\* (eventlog.go:575-602, 648-669).
DeadForGood ==
  [][phase = "serve" /\ Dead => Dead' /\ pos' = pos]_vars

\* As long as scrapes keep coming every record that is written after the start is
\* counted in the end, unless the log loses it first or the collector is at its
\* end.  The exception is a log that could not be opened again: it is never read
\* any more (eventlog.go:651), and no scrape reports it.
EveryRecordIsCounted ==
  \A r \in (Before + 1)..(Before + MaxRecords) :
    phase = "serve" /\ r \in InLog
      ~> counted[r] > 0 \/ r < first \/ Dead \/ phase # "serve"
=============================================================================
