--------------------------- MODULE ScrapeDeadline ---------------------------
(***************************************************************************)
(* The time budget of a scrape: getScrapeTimeout and ServeHTTP             *)
(* (internal/httphandler/httphandler.go), the mutex of Handler.Collect     *)
(* (pkg/collector/handler.go) and the deadline of collectCollector         *)
(* (pkg/collector/collect.go).                                             *)
(*                                                                         *)
(* Time is counted in ticks, UnitsPerSecond of them to a second.  What a   *)
(* scrape does between taking the mutex and giving it back is one action,  *)
(* bounded by the deadline; Scrape has the details.                        *)
(***************************************************************************)
EXTENDS Integers, FiniteSets, FiniteSetsExt

CONSTANTS
  Requests,        \* the scrapes
  NoRequest,       \* the mutex is free
  UnitsPerSecond,  \* ticks in a second
  DefaultTimeout,  \* defaultScrapeTimeout in ticks (10 seconds in the code)
  Margin,          \* scrape.timeout-margin in ticks
  Headers,         \* the timeouts that clients send, in ticks
  Absent, Invalid, \* no header; a header that is not a number
  MaxClock         \* bound on the clock

ASSUME DeadlineAssumption ==
  /\ IsFiniteSet(Requests)
  /\ UnitsPerSecond \in Nat \ {0}
  /\ DefaultTimeout \in Nat /\ Margin \in Nat /\ MaxClock \in Nat
  /\ Headers \subseteq Nat
  /\ NoRequest \notin Requests

VARIABLES
  now,          \* the clock
  request,      \* where each scrape is
  header,       \* X-Prometheus-Scrape-Timeout-Seconds of the scrape
  mutex,        \* the scrape that holds concurrencyMu
  arrived,      \* when ServeHTTP was called
  started,      \* when the scrape took the mutex
  answered      \* when the scrape gave the mutex back

vars == <<now, request, header, mutex, arrived, started, answered>>

\* What the header can be: missing, not a number, or a number of seconds.
HeaderValues == Headers \cup {Absent, Invalid}

\* ParseFloat leaves 0 for a header that is not a number, and 0 stands for the
\* default, as does a missing header.
AllowedByClient(h) == IF h \in {Absent, Invalid, 0} THEN DefaultTimeout ELSE h

\* Mutant: the fraction is rounded up.
WholeSecondsUp(t) ==
  IF t >= 0 THEN ((t + UnitsPerSecond - 1) \div UnitsPerSecond) * UnitsPerSecond
            ELSE -(((-t) \div UnitsPerSecond) * UnitsPerSecond)

\* time.Duration(f) * time.Second: the fraction is cut off, towards zero.
WholeSeconds(t) ==
  IF t >= 0 THEN (t \div UnitsPerSecond) * UnitsPerSecond
            ELSE -(((-t) \div UnitsPerSecond) * UnitsPerSecond)

getScrapeTimeout(h) == WholeSeconds(AllowedByClient(h) - Margin)

\* context.WithTimeout with nothing left is done at once.
Budget(h) == Max({0, getScrapeTimeout(h)})

Init ==
  /\ now = 0
  /\ request = [r \in Requests |-> "idle"]
  /\ header = [r \in Requests |-> Absent]
  /\ mutex = NoRequest
  /\ arrived = [r \in Requests |-> 0]
  /\ started = [r \in Requests |-> 0]
  /\ answered = [r \in Requests |-> 0]

\* ServeHTTP: the timeout is computed, the handler is made, and
\* Handler.Collect waits for the mutex.
ServeHTTP(r) ==
  /\ request[r] = "idle"
  /\ \E h \in HeaderValues : header' = [header EXCEPT ![r] = h]
  /\ arrived' = [arrived EXCEPT ![r] = now]
  /\ request' = [request EXCEPT ![r] = "waiting"]
  /\ UNCHANGED <<now, mutex, started, answered>>

\* ServeHTTP with a filter that names an unknown collector: 400, at once.
ServeHTTPRejects(r) ==
  /\ request[r] = "idle"
  /\ request' = [request EXCEPT ![r] = "rejected"]
  /\ UNCHANGED <<now, header, mutex, arrived, started, answered>>

\* concurrencyMu.Lock; the deadlines of the collectors run from here.
Lock(r) ==
  /\ request[r] = "waiting"
  /\ mutex = NoRequest
  /\ mutex' = r
  /\ started' = [started EXCEPT ![r] = now]
  /\ request' = [request EXCEPT ![r] = "collecting"]
  /\ UNCHANGED <<now, header, arrived, answered>>

\* All collectors have returned or timed out; concurrencyMu.Unlock.
Unlock(r) ==
  /\ request[r] = "collecting"
  /\ mutex' = NoRequest
  /\ answered' = [answered EXCEPT ![r] = now]
  /\ request' = [request EXCEPT ![r] = "answered"]
  /\ UNCHANGED <<now, header, arrived, started>>

\* Mutant: a collector is waited for beyond its deadline.
TickNoDeadline ==
  /\ now < MaxClock
  /\ \A r \in Requests : request[r] = "waiting" => mutex # NoRequest
  /\ now' = now + 1
  /\ UNCHANGED <<request, header, mutex, arrived, started, answered>>

\* Time passes, but neither beyond a deadline nor while a free mutex is waited
\* for: what the program does at an instant takes no time.
Tick ==
  /\ now < MaxClock
  /\ \A r \in Requests : /\ request[r] = "collecting" => now < started[r] + Budget(header[r])
                         /\ request[r] = "waiting" => mutex # NoRequest
  /\ now' = now + 1
  /\ UNCHANGED <<request, header, mutex, arrived, started, answered>>

Done ==
  /\ \A r \in Requests : request[r] \in {"answered", "rejected"}
  /\ UNCHANGED vars

Next ==
  \/ \E r \in Requests : ServeHTTP(r) \/ ServeHTTPRejects(r) \/ Lock(r) \/ Unlock(r)
  \/ Tick
  \/ Done

Spec == Init /\ [][Next]_vars

-----------------------------------------------------------------------------
(* Properties.                                                             *)

\* The states of the scrapes, and times within the clock.
TypeOK ==
  /\ now \in 0..MaxClock
  /\ request \in [Requests -> {"idle", "rejected", "waiting", "collecting", "answered"}]
  /\ header \in [Requests -> HeaderValues]
  /\ mutex \in Requests \cup {NoRequest}
  /\ arrived \in [Requests -> 0..MaxClock]
  /\ started \in [Requests -> 0..MaxClock]
  /\ answered \in [Requests -> 0..MaxClock]

\* A scrape that does not have to wait for another one is answered, with
\* whatever was collected, before the client gives up, and the margin is left
\* over if the client allowed that much (httphandler.go:116-118).
InTimeIfAlone ==
  \A r \in Requests :
    request[r] = "answered" /\ started[r] = arrived[r] =>
      answered[r] - arrived[r] <= Max({0, AllowedByClient(header[r]) - Margin})

\* The deadline runs from the mutex, not from the request: a scrape that queues
\* may be answered late, but no later than after the budgets of the scrapes that
\* it waited for and its own (handler.go:68, collect.go:120).
LatenessIsBounded ==
  \A r \in Requests :
    request[r] = "answered" =>
      LET before == {s \in Requests : /\ request[s] = "answered"
                                      /\ answered[s] >= arrived[r]
                                      /\ answered[s] <= answered[r]}
      IN  answered[r] - arrived[r] <= MapThenSumSet(LAMBDA s : Budget(header[s]), before)
=============================================================================
