--------------------------- MODULE ServiceControl ---------------------------
(***************************************************************************)
(* Start and stop of the process: main and run                             *)
(* (cmd/windows_exporter/main.go), IsService and Execute                   *)
(* (cmd/windows_exporter/0_service.go).                                    *)
(*                                                                         *)
(* Three goroutines: main; the one that IsService starts, which calls      *)
(* svc.Run and through it Execute ("svc"); and the one in ListenAndServe   *)
(* ("server").  They talk over exitCodeCh (capacity 1), stopCh             *)
(* (unbuffered), serviceManagerFinishedCh (capacity 1) and errCh, which is *)
(* serverErrCh here.  The names of the whole differ from those of          *)
(* CollectionBuild, so that StartStopProofs can extend both.               *)
(***************************************************************************)
EXTENDS Integers

CONSTANT MaxInterrogate   \* bound on the interrogations by the service manager

ASSUME InterrogateAssumption == MaxInterrogate \in Nat

VARIABLES
  IsService,   \* started by the service manager
  early,       \* IsService could not log and has sent exit code 2
  main,        \* where main is
  via,         \* the case of run's select that ended it
  code,        \* exitCode, or -1
  kill,        \* the kill signal has come: ctx is done
  server,      \* where the server goroutine is
  serverErrCh, \* content of errCh of run
  svc,         \* where the service goroutine is
  exitCodeCh,  \* content of exitCodeCh, -1 if it is empty
  finished,    \* number of values in serviceManagerFinishedCh
  reported,    \* the exit code that Execute has returned, or -1
  asked        \* interrogations so far

mainVars == <<main, via, code>>
serverVars == <<server, serverErrCh>>
svcVars == <<svc, reported, asked>>
controlVars == <<IsService, early, kill, mainVars, serverVars, svcVars, exitCodeCh, finished>>

\* The package-level variables: IsService is decided, the service goroutine is
\* started, and exit code 2 is sent if the event log cannot be written.
ControlInit ==
  /\ IsService \in BOOLEAN
  /\ early \in BOOLEAN
  /\ early => IsService
  /\ main = "starting" /\ via = "none" /\ code = -1
  /\ kill = FALSE
  /\ server = "off" /\ serverErrCh = "empty"
  /\ svc = IF IsService THEN "run" ELSE "off"
  /\ exitCodeCh = IF early THEN 2 ELSE -1
  /\ finished = 0
  /\ reported = -1
  /\ asked = 0

-----------------------------------------------------------------------------
(* main and run.                                                           *)

\* Configuration, logger, priority, Enable or Build fails: return 1.
StartupFails ==
  /\ main = "starting"
  /\ code' = 1
  /\ main' = "returned"
  /\ UNCHANGED <<IsService, early, kill, via, serverVars, svcVars, exitCodeCh, finished>>

\* The HTTP server is started in its goroutine.
StartServer ==
  /\ main = "starting"
  /\ main' = "select"
  /\ server' = "serving"
  /\ UNCHANGED <<IsService, early, kill, via, code, serverErrCh, svcVars, exitCodeCh, finished>>

\* External: os.Interrupt or os.Kill.
KillSignal ==
  /\ ~kill /\ main # "exited"
  /\ kill' = TRUE
  /\ UNCHANGED <<IsService, early, mainVars, serverVars, svcVars, exitCodeCh, finished>>

\* select: case <-ctx.Done()
SelectKill ==
  /\ main = "select" /\ kill
  /\ via' = "kill"
  /\ main' = "shutdown"
  /\ UNCHANGED <<IsService, early, kill, code, serverVars, svcVars, exitCodeCh, finished>>

\* select: case <-stopCh, sent by Execute
SelectStop ==
  /\ main = "select" /\ svc = "stop"
  /\ via' = "stop"
  /\ main' = "shutdown"
  /\ svc' = "stopping"
  /\ UNCHANGED <<IsService, early, kill, code, serverVars, reported, asked, exitCodeCh, finished>>

\* select: case err := <-errCh with an error: return 1
SelectError ==
  /\ main = "select" /\ serverErrCh = "error"
  /\ via' = "error"
  /\ serverErrCh' = "empty"
  /\ code' = 1
  /\ main' = "returned"
  /\ UNCHANGED <<IsService, early, kill, server, svcVars, exitCodeCh, finished>>

\* select: case err := <-errCh, closed
SelectClosed ==
  /\ main = "select" /\ serverErrCh = "empty" /\ server = "closed"
  /\ via' = "closed"
  /\ main' = "shutdown"
  /\ UNCHANGED <<IsService, early, kill, code, serverVars, svcVars, exitCodeCh, finished>>

\* server.Shutdown, return 0
Shutdown ==
  /\ main = "shutdown"
  /\ server' = IF server = "serving" THEN "ending" ELSE server
  /\ code' = 0
  /\ main' = "returned"
  /\ UNCHANGED <<IsService, early, kill, via, serverErrCh, svcVars, exitCodeCh, finished>>

\* os.Exit(exitCode)
Exit ==
  /\ main = "returned" /\ ~IsService
  /\ main' = "exited"
  /\ UNCHANGED <<IsService, early, kill, via, code, serverVars, svcVars, exitCodeCh, finished>>

\* Mutant of SendExitCode: the exit code is not sent.
SendExitCodeSkipped ==
  /\ main = "returned" /\ IsService
  /\ main' = "waiting"
  /\ UNCHANGED <<IsService, early, kill, via, code, serverVars, svcVars, exitCodeCh, finished>>

\* exitCodeCh <- exitCode
SendExitCode ==
  /\ main = "returned" /\ IsService
  /\ exitCodeCh = -1
  /\ exitCodeCh' = code
  /\ main' = "waiting"
  /\ UNCHANGED <<IsService, early, kill, via, code, serverVars, svcVars, finished>>

\* Mutant of ReceiveFinished: main does not wait for the service goroutine.
ReceiveFinishedNoWait ==
  /\ main = "waiting"
  /\ main' = "exited"
  /\ UNCHANGED <<IsService, early, kill, via, code, serverVars, svcVars, exitCodeCh, finished>>

\* <-serviceManagerFinishedCh; main returns and the process ends
ReceiveFinished ==
  /\ main = "waiting"
  /\ finished = 1
  /\ finished' = 0
  /\ main' = "exited"
  /\ UNCHANGED <<IsService, early, kill, via, code, serverVars, svcVars, exitCodeCh>>

-----------------------------------------------------------------------------
(* The server goroutine.                                                   *)

\* ListenAndServe returns an error that is not ErrServerClosed.
ServerFails ==
  /\ server = "serving" /\ main # "exited"
  /\ serverErrCh' = "error"
  /\ server' = "ending"
  /\ UNCHANGED <<IsService, early, kill, mainVars, svcVars, exitCodeCh, finished>>

\* External: ListenAndServe returns nil or ErrServerClosed by itself.
ServerEnds ==
  /\ server = "serving" /\ main # "exited"
  /\ server' = "ending"
  /\ UNCHANGED <<IsService, early, kill, mainVars, serverErrCh, svcVars, exitCodeCh, finished>>

\* close(errCh)
CloseErrCh ==
  /\ server = "ending" /\ main # "exited"
  /\ server' = "closed"
  /\ UNCHANGED <<IsService, early, kill, mainVars, serverErrCh, svcVars, exitCodeCh, finished>>

-----------------------------------------------------------------------------
(* The service goroutine: svc.Run and Execute.                             *)

\* Mutant of RunFails: the goroutine returns without its signal to main.
RunFailsSilently ==
  /\ svc = "run"
  /\ svc' = "off"
  /\ UNCHANGED <<IsService, early, kill, mainVars, serverVars, reported, asked, exitCodeCh, finished>>

\* svc.Run cannot connect to the service manager.
RunFails ==
  /\ svc = "run"
  /\ svc' = "over"
  /\ UNCHANGED <<IsService, early, kill, mainVars, serverVars, reported, asked, exitCodeCh, finished>>

\* svc.Run calls Execute, which reports StartPending and Running.
ExecuteStarts ==
  /\ svc = "run"
  /\ svc' = "select"
  /\ UNCHANGED <<IsService, early, kill, mainVars, serverVars, reported, asked, exitCodeCh, finished>>

\* select: case exitCodeCh := <-exitCodeCh; return
ExecuteExitCode ==
  /\ svc = "select" /\ exitCodeCh # -1
  /\ reported' = exitCodeCh
  /\ exitCodeCh' = -1
  /\ svc' = "over"
  /\ UNCHANGED <<IsService, early, kill, mainVars, serverVars, asked, finished>>

\* select: case c := <-r with Interrogate, or a request that is not handled
Interrogate ==
  /\ svc = "select" /\ asked < MaxInterrogate
  /\ asked' = asked + 1
  /\ UNCHANGED <<IsService, early, kill, mainVars, serverVars, svc, reported, exitCodeCh, finished>>

\* select: case c := <-r with Stop or Shutdown; Execute goes on to stopCh.
StopRequest ==
  /\ svc = "select"
  /\ svc' = "stop"
  /\ UNCHANGED <<IsService, early, kill, mainVars, serverVars, reported, asked, exitCodeCh, finished>>

\* Mutant of ExecuteStopped: Execute does not wait for the exit code.
ExecuteStoppedAtOnce ==
  /\ svc = "stopping"
  /\ reported' = 0
  /\ svc' = "over"
  /\ UNCHANGED <<IsService, early, kill, mainVars, serverVars, asked, exitCodeCh, finished>>

\* return false, uint32(<-exitCodeCh)
ExecuteStopped ==
  /\ svc = "stopping" /\ exitCodeCh # -1
  /\ reported' = exitCodeCh
  /\ exitCodeCh' = -1
  /\ svc' = "over"
  /\ UNCHANGED <<IsService, early, kill, mainVars, serverVars, asked, finished>>

\* serviceManagerFinishedCh <- struct{}{}
SignalFinished ==
  /\ svc = "over" /\ finished = 0 /\ main # "exited"
  /\ finished' = 1
  /\ svc' = "off"
  /\ UNCHANGED <<IsService, early, kill, mainVars, serverVars, reported, asked, exitCodeCh>>

-----------------------------------------------------------------------------
Main ==
  \/ StartupFails \/ StartServer \/ SelectKill \/ SelectStop \/ SelectError
  \/ SelectClosed \/ Shutdown \/ Exit \/ SendExitCode \/ ReceiveFinished

Svc ==
  RunFails \/ ExecuteStarts \/ ExecuteExitCode \/ ExecuteStopped \/ SignalFinished

ControlNext ==
  \/ Main \/ Svc
  \/ KillSignal \/ Interrogate \/ StopRequest
  \/ ServerFails \/ ServerEnds \/ CloseErrCh

ControlSpec == ControlInit /\ [][ControlNext]_controlVars

\* Goroutines that can run do; the environment (signals, control requests, the
\* listener) need not do anything.
ControlFairSpec ==
  /\ ControlSpec
  /\ WF_controlVars(Main) /\ WF_controlVars(Svc) /\ WF_controlVars(CloseErrCh)

-----------------------------------------------------------------------------
(* Properties.                                                             *)

ControlTypeOK ==
  /\ IsService \in BOOLEAN /\ early \in BOOLEAN /\ kill \in BOOLEAN
  /\ main \in {"starting", "select", "shutdown", "returned", "waiting", "exited"}
  /\ via \in {"none", "kill", "stop", "error", "closed"}
  /\ code \in {-1, 0, 1}
  /\ server \in {"off", "serving", "ending", "closed"}
  /\ serverErrCh \in {"empty", "error"}
  /\ svc \in {"off", "run", "select", "stop", "stopping", "over"}
  /\ exitCodeCh \in {-1, 0, 1, 2}
  /\ finished \in 0..1
  /\ reported \in {-1, 0, 1, 2}
  /\ asked \in 0..MaxInterrogate

\* The service manager is told the exit code that run returned, after it
\* returned; the only other code is the 2 of a service whose start could not be
\* logged (0_service.go:32-34, 105-109, 124; main.go:61).
ReportedIsExitCode ==
  reported # -1 => reported = code \/ (early /\ reported = 2)

\* As a service the process does not end before Execute has returned or svc.Run
\* has failed (main.go:63-64): the manager never sees it vanish while running.
NoEarlyExit ==
  main = "exited" /\ IsService => svc = "off"

\* A clean exit code is reported only for a run that served and was then asked
\* to end; a failed start or a failed listener is never reported as 0
\* (main.go:135-179, 235-242).
FailureIsReported ==
  reported = 0 => via \in {"kill", "stop", "closed"}

\* Nothing is left unread in exitCodeCh when the process ends unless the
\* service manager could not be reached or had stopped listening
\* (main.go:61-64).
ExitCodeIsRead ==
  main = "exited" /\ exitCodeCh # -1 => reported \in {-1, 2}

\* main and Execute wait for each other in no circle but one: main finds room in
\* exitCodeCh, and the service goroutine it waits for can go on, unless Execute has
\* come to its send on stopCh too late, when the select of run is gone; an
\* Execute whose stop was taken gets its exit code (main.go:61-64,
\* 0_service.go:105-124).
OnlyALateStopHangs ==
  /\ main = "returned" /\ IsService /\ ~early => exitCodeCh = -1
  /\ main = "waiting" => \/ finished = 1
                         \/ svc \in {"run", "over"}
                         \/ svc = "select" /\ exitCodeCh # -1
                         \/ svc = "stopping" /\ exitCodeCh # -1
                         \/ svc = "stop"
  /\ svc = "stopping" => main \in {"shutdown", "returned"} \/ exitCodeCh # -1

\* If no stop request comes and the start could be logged, the process ends
\* once run has returned.
EndsWithoutStop ==
  [](svc # "stop" /\ ~early) => (main = "returned" ~> main = "exited")

\* If the select in run takes the stop signal, the manager is told exit code 0,
\* or 2 if the start could not be logged.
StopIsAnswered ==
  main = "shutdown" /\ via = "stop" ~> reported \in {0, 2}

\* What 0_service.go:116 says of Execute: "Stop the service if a stop or
\* shutdown request is received."
StopRequestStops == svc = "stop" ~> main = "exited"
=============================================================================
