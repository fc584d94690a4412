-------------------------- MODULE StartStopProofs --------------------------
(***************************************************************************)
(* Proofs about the start and the end of the process: first CollectionBuild*)
(* for any set of collectors, then ServiceControl, for any number of       *)
(* interrogations.                                                         *)
(***************************************************************************)
EXTENDS CollectionBuild, ServiceControl, TLAPS

\* An error value that some collector's Build has returned, or nil if some has
\* returned nil.
Real(e) ==
  /\ \E d \in collectors : own[d] = e.class
  /\ e # Nil => e.of \in collectors /\ own[e.of] = e.class /\ e.class # "nil"

SomeFailed == \E d \in collectors : own[d] \in {"tolerated", "fatal"}

\* How the goroutines follow Build, and own follows the goroutines.
BuilderInv ==
  \A c \in Names :
    /\ pc[c] # "off" => c \in collectors /\ phase \in {"building", "returned"}
    /\ c \in collectors /\ phase \in {"building", "returned"} => pc[c] # "off"
    /\ own[c] # "none" <=> pc[c] \in {"compare", "wrap", "done"}
    /\ phase = "returned" => pc[c] \in {"off", "done"}

\* err is the result stored last; what was sent is real; and a goroutine that
\* sent nothing has seen a nil that some Build returned.
ErrInv ==
  /\ \/ err = Nil /\ \A c \in Names : own[c] = "none"
     \/ Real(err)
  /\ \A e \in errCh : e.of \in collectors /\ Real(e.err)
  /\ \A c \in collectors :
       pc[c] = "done" => \/ \E e \in errCh : e.of = c
                         \/ \E d \in collectors : own[d] = "nil"

\* What Build returns is what was sent, without the tolerated errors; and
\* something is sent only if some Build failed.
ResultInv ==
  /\ phase = "returned" => errs = {e \in errCh : e.err.class # "tolerated"}
  /\ errCh # {} \/ (\E c \in Names : pc[c] = "wrap") => SomeFailed
  /\ phase \in {"flags", "enabled"} => errCh = {} /\ \A c \in Names : own[c] = "none"

IInv == TypeOK /\ BuilderInv /\ ErrInv /\ ResultInv

-----------------------------------------------------------------------------
\* Nil is an error value.
LEMMA NilType == Nil \in ErrorValues /\ Nil.class = "nil"
  BY DEF Nil, ErrorValues, Classes

\* Wrapping keeps the class, and marks the collector of an error.
LEMMA ErrorOfType ==
  ASSUME NEW c \in Names, NEW class \in Classes
  PROVE  /\ ErrorOf(c, class) \in ErrorValues
         /\ ErrorOf(c, class).class = class
         /\ ErrorOf(c, class) # Nil => ErrorOf(c, class).of = c
         /\ class = "nil" => ErrorOf(c, class) = Nil
  BY DEF ErrorOf, Nil, ErrorValues, Classes

\* The invariant holds before the flags are parsed.
LEMMA InitIInv == Init => IInv
  BY NilType DEF Init, IInv, TypeOK, BuilderInv, ErrInv, ResultInv

\* A real error stays real: own is written once, collectors not at all.
LEMMA RealStays ==
  ASSUME collectors' = collectors,
         \A d \in collectors : own[d] # "none" => own'[d] = own[d],
         NEW e \in ErrorValues, Real(e)
  PROVE  Real(e)'
  BY DEF Real, ErrorValues, Classes, Nil

\* Every step of Enable, Build and its goroutines keeps the invariant.
LEMMA IInvInductive == IInv /\ [Next]_vars => IInv'
  <1> SUFFICES ASSUME IInv, [Next]_vars
               PROVE  IInv'
    OBVIOUS
  <1>i. TypeOK /\ BuilderInv /\ ErrInv /\ ResultInv
    BY DEF IInv
  <1>1. CASE EnableFails \/ InitMIFails
    <2>1. TypeOK'
      BY <1>i, <1>1 DEF EnableFails, InitMIFails, TypeOK, ErrorValues, Classes
    <2>2. BuilderInv' /\ ResultInv'
      BY <1>i, <1>1 DEF EnableFails, InitMIFails, TypeOK, BuilderInv, ResultInv, SomeFailed
    <2>3. ErrInv'
      BY <1>i, <1>1 DEF EnableFails, InitMIFails, ErrInv, Real
    <2> QED
      BY <2>1, <2>2, <2>3 DEF IInv
  <1>2. CASE Enable
    <2>1. TypeOK' /\ BuilderInv' /\ ResultInv'
      BY <1>i, <1>2 DEF Enable, TypeOK, BuilderInv, ResultInv, SomeFailed
    <2>2. ErrInv'
      BY <1>i, <1>2 DEF Enable, TypeOK, BuilderInv, ResultInv, SomeFailed, ErrInv, Real, ErrorValues, Classes
    <2> QED
      BY <2>1, <2>2 DEF IInv
  <1>3. CASE StartBuilds
    <2>1. TypeOK' /\ BuilderInv' /\ ResultInv'
      BY <1>i, <1>3 DEF StartBuilds, TypeOK, BuilderInv, ResultInv, SomeFailed
    <2>2. ErrInv'
      BY <1>i, <1>3 DEF StartBuilds, TypeOK, ResultInv, ErrInv, Real
    <2> QED
      BY <2>1, <2>2 DEF IInv
  <1>4. ASSUME NEW c \in Names, StoreErr(c)
        PROVE  IInv'
    <2>1. PICK class \in Classes : /\ own' = [own EXCEPT ![c] = class]
                                   /\ err' = ErrorOf(c, class)
      BY <1>4, Zenon DEF StoreErr
    <2>2. c \in collectors /\ own[c] = "none"
      BY <1>i, <1>4 DEF StoreErr, BuilderInv
    <2>3. TypeOK'
      BY <1>i, <1>4, <2>1, ErrorOfType DEF StoreErr, TypeOK
    <2>4. BuilderInv'
      BY <1>i, <1>4, <2>1, <2>2 DEF StoreErr, TypeOK, BuilderInv, Classes
    <2>r. ResultInv'
      <3>1. SomeFailed => SomeFailed'
        BY <1>i, <1>4, <2>1, <2>2 DEF StoreErr, TypeOK, SomeFailed
      <3> QED
        BY <1>i, <1>4, <2>1, <2>2, <3>1 DEF StoreErr, TypeOK, BuilderInv, ResultInv
    <2>5. \A d \in collectors : own[d] # "none" => own'[d] = own[d]
      BY <1>i, <2>1, <2>2 DEF TypeOK
    <2>6. own'[c] = class /\ collectors' = collectors /\ errCh' = errCh
      BY <1>i, <1>4, <2>1 DEF StoreErr, TypeOK
    <2>7. Real(err)'
      <3>1. Nil' = Nil
        BY DEF Nil
      <3>2. /\ err'.class = class
            /\ err' # Nil => err'.of = c
            /\ class = "nil" => err' = Nil
        BY <2>1, ErrorOfType
      <3> QED
        BY <2>2, <2>6, <3>1, <3>2 DEF Real
    <2>8. \A e \in errCh : e.of \in collectors /\ Real(e.err)'
      BY <1>i, <2>5, <2>6, RealStays DEF ErrInv, TypeOK
    <2>9. \A d \in collectors : own[d] = "nil" => own'[d] = "nil"
      BY <2>5
    <2>10. ErrInv'
      <3>1. ASSUME NEW d \in collectors, pc'[d] = "done"
            PROVE  \/ \E e \in errCh : e.of = d
                   \/ \E b \in collectors : own'[b] = "nil"
        <4>1. pc[d] = "done"
          BY <1>i, <1>4, <3>1 DEF StoreErr, TypeOK
        <4> QED
          BY <1>i, <4>1, <2>9 DEF ErrInv
      <3> QED
        BY <2>6, <2>7, <2>8, <3>1 DEF ErrInv
    <2> QED
      BY <2>3, <2>4, <2>r, <2>10 DEF IInv
  <1>5. ASSUME NEW c \in Names, CompareNotNil(c)
        PROVE  IInv'
    <2>a. c \in collectors /\ own[c] # "none"
      BY <1>i, <1>5 DEF CompareNotNil, BuilderInv
    <2>b. SomeFailed
      <3>1. CASE own[c] # "nil"
        BY <1>i, <2>a, <3>1 DEF TypeOK, Classes, SomeFailed
      <3>2. CASE err # Nil
        BY <1>i, <2>a, <3>2 DEF TypeOK, ErrInv, Real, ErrorValues, Classes, SomeFailed
      <3> QED
        BY <1>5, <3>1, <3>2 DEF CompareNotNil
    <2>1. TypeOK' /\ BuilderInv' /\ ResultInv'
      BY <1>i, <1>5, <2>b DEF CompareNotNil, TypeOK, BuilderInv, ResultInv, SomeFailed
    <2>2. ErrInv'
      BY <1>i, <1>5 DEF CompareNotNil, TypeOK, ErrInv, Real
    <2> QED
      BY <2>1, <2>2 DEF IInv
  <1>6. ASSUME NEW c \in Names, CompareNil(c)
        PROVE  IInv'
    <2>1. TypeOK' /\ BuilderInv' /\ ResultInv'
      BY <1>i, <1>6 DEF CompareNil, TypeOK, BuilderInv, ResultInv, SomeFailed
    <2>2. c \in collectors /\ own[c] # "none"
      BY <1>i, <1>6 DEF CompareNil, BuilderInv
    <2>3. \E d \in collectors : own[d] = "nil"
      BY <1>i, <1>6, <2>2, NilType DEF CompareNil, ErrInv, Real
    <2>4. ErrInv'
      BY <1>i, <1>6, <2>3 DEF CompareNil, TypeOK, ErrInv, Real
    <2> QED
      BY <2>1, <2>4 DEF IInv
  <1>7. ASSUME NEW c \in Names, WrapAndSend(c)
        PROVE  IInv'
    <2>1. c \in collectors /\ own[c] # "none" /\ phase \notin {"flags", "enabled"}
      BY <1>i, <1>7 DEF WrapAndSend, BuilderInv
    <2>2. Real(err)
      BY <1>i, <2>1 DEF ErrInv
    <2>3. TypeOK'
      BY <1>i, <1>7 DEF WrapAndSend, TypeOK
    <2>4. BuilderInv' /\ ResultInv'
      BY <1>i, <1>7, <2>1 DEF WrapAndSend, TypeOK, BuilderInv, ResultInv, SomeFailed
    <2>5. ErrInv'
      <3>1. errCh' = errCh \cup {[of |-> c, err |-> err]}
        BY <1>7 DEF WrapAndSend
      <3>2. UNCHANGED <<collectors, err, own>>
        BY <1>7 DEF WrapAndSend
      <3>3. \A e \in errCh' : e.of \in collectors /\ Real(e.err)'
        BY <1>i, <2>1, <2>2, <3>1, <3>2 DEF ErrInv, Real
      <3>4. \A d \in collectors : pc'[d] = "done" =>
              d = c \/ pc[d] = "done"
        BY <1>i, <1>7 DEF WrapAndSend, TypeOK
      <3>5. \E e \in errCh' : e.of = c
        <4>1. [of |-> c, err |-> err] \in errCh'
          BY <3>1
        <4>2. [of |-> c, err |-> err].of = c
          OBVIOUS
        <4> QED
          BY <4>1, <4>2
      <3>6. Real(err)'
        BY <2>2, <3>2 DEF Real
      <3>7. ASSUME NEW d \in collectors, pc'[d] = "done"
            PROVE  \/ \E e \in errCh' : e.of = d
                   \/ \E b \in collectors : own[b] = "nil"
        BY <1>i, <3>1, <3>4, <3>5, <3>7 DEF ErrInv
      <3> QED
        BY <3>2, <3>3, <3>6, <3>7 DEF ErrInv
    <2> QED
      BY <2>3, <2>4, <2>5 DEF IInv
  <1>8. CASE JoinErrors
    <2>1. TypeOK'
      BY <1>i, <1>8 DEF JoinErrors, TypeOK
    <2>2. BuilderInv' /\ ResultInv'
      BY <1>i, <1>8 DEF JoinErrors, TypeOK, BuilderInv, ResultInv, SomeFailed
    <2>3. ErrInv'
      BY <1>i, <1>8, SMTT(30) DEF JoinErrors, ErrInv, Real
    <2> QED
      BY <2>1, <2>2, <2>3 DEF IInv
  <1>9. CASE UNCHANGED vars
    BY <1>i, <1>9 DEF vars, IInv, TypeOK, BuilderInv, ErrInv, ResultInv, Real, SomeFailed
  <1> QED
    BY <1>1, <1>2, <1>3, <1>4, <1>5, <1>6, <1>7, <1>8, <1>9
       DEF Next, Builder, Returned

\* The invariant holds in every behaviour of Build.
LEMMA IInvAlways == Spec => []IInv
  BY InitIInv, IInvInductive, PTL DEF Spec

-----------------------------------------------------------------------------
(* The theorems.                                                           *)

\* Whatever the goroutines of Build store in the shared err, it is an error that
\* one of them can have, and only those reach errCh (collection.go:206-248).
THEOREM TypeCorrect == Spec => []TypeOK
  <1>1. IInv => TypeOK
    BY DEF IInv
  <1> QED
    BY IInvAlways, <1>1, PTL

\* Every error that Build returns is a fatal error of a collector, or a wrapped nil,
\* and then one collector has failed and another has not (collection.go:223-249).
THEOREM BuildErrorsAreReal == Spec => []ErrorsAreReal
  <1>1. IInv => ErrorsAreReal
    <2> SUFFICES ASSUME IInv, phase = "returned", NEW e \in errs
                 PROVE  IF e.err = Nil
                        THEN /\ \E c \in collectors : own[c] = "nil"
                             /\ \E c \in collectors : own[c] # "nil"
                        ELSE /\ e.err.class = "fatal" /\ e.err.of \in collectors
                             /\ own[e.err.of] = "fatal"
      BY DEF ErrorsAreReal
    <2>1. e \in errCh /\ e.err.class # "tolerated" /\ Real(e.err)
      BY DEF IInv, ResultInv, ErrInv
    <2>2. SomeFailed
      BY <2>1 DEF IInv, ResultInv
    <2>3. CASE e.err = Nil
      BY <2>1, <2>2, <2>3, NilType DEF Real, SomeFailed
    <2>4. CASE e.err # Nil
      <3>1. e.err.class \in Classes
        BY <2>1 DEF IInv, TypeOK, ErrorValues
      <3> QED
        BY <2>1, <2>4, <3>1 DEF Real, Classes
    <2> QED
      BY <2>3, <2>4
  <1> QED
    BY IInvAlways, <1>1, PTL

\* When all collectors have the same outcome, Build reports it exactly
\* (collection.go:235-249).
THEOREM BuildIsExactIfUniform == Spec => []UniformOutcomeIsExact
  <1>1. IInv => UniformOutcomeIsExact
    <2> SUFFICES ASSUME IInv, phase = "returned"
                 PROVE  UniformOutcomeIsExact
      BY DEF UniformOutcomeIsExact
    <2>1. \A e \in errCh : \E d \in collectors : own[d] = e.err.class
      BY DEF IInv, ErrInv, Real
    <2>2. errs = {e \in errCh : e.err.class # "tolerated"}
      BY DEF IInv, ResultInv
    <2>3. ASSUME \A c \in collectors : own[c] = "tolerated"
          PROVE  errs = {}
      BY <2>1, <2>2, <2>3
    <2>4. ASSUME \A c \in collectors : own[c] = "fatal"
          PROVE  {e.of : e \in errs} = collectors
      <3>1. errs = errCh
        BY <2>1, <2>2, <2>4
      <3>2. \A c \in collectors : \E e \in errCh : e.of = c
        BY <2>4 DEF IInv, TypeOK, BuilderInv, ErrInv
      <3>3. \A e \in errCh : e.of \in collectors
        BY DEF IInv, ErrInv
      <3> QED
        BY <3>1, <3>2, <3>3
    <2> QED
      BY <2>3, <2>4 DEF UniformOutcomeIsExact
  <1> QED
    BY IInvAlways, <1>1, PTL

\* Build waits for every collector (collection.go:209-212, 229).
THEOREM BuildWaits == Spec => []WaitsForEveryBuild
  <1>1. IInv => WaitsForEveryBuild
    BY DEF IInv, TypeOK, BuilderInv, WaitsForEveryBuild
  <1> QED
    BY IInvAlways, <1>1, PTL

-----------------------------------------------------------------------------
(* ServiceControl.                                                         *)

\* main has put its exit code into exitCodeCh.
Sent == main \in {"waiting", "exited"} /\ IsService

\* How the exit code travels from run to Execute.
CodeInv ==
  /\ code # -1 <=> main \in {"returned", "waiting", "exited"}
  /\ exitCodeCh # -1 => \/ early /\ exitCodeCh = 2
                        \/ Sent /\ exitCodeCh = code /\ reported \in {-1, 2}
  /\ reported # -1 => (early /\ reported = 2) \/ (Sent /\ reported = code)
  /\ reported # -1 => svc \in {"over", "off"}
  /\ main = "waiting" \/ early => IsService
  /\ exitCodeCh = 2 => ~Sent
  /\ svc # "off" => IsService

\* A code of zero comes from the end of run.
ViaInv ==
  /\ main = "shutdown" => via \in {"kill", "stop", "closed"}
  /\ code = 0 => via \in {"kill", "stop", "closed"}

\* The service goroutine gives its signal last, and reads the exit code before it
\* unless svc.Run has failed.
FinishedInv ==
  /\ finished = 1 => svc = "off"
  /\ main = "exited" /\ IsService => svc = "off"
  /\ IsService /\ svc = "off" => finished = 1 \/ main = "exited"
  /\ main = "waiting" /\ exitCodeCh = -1 => svc \in {"over", "off"}
  /\ svc = "stopping" => main \in {"shutdown", "returned", "waiting"}

ControlInv == ControlTypeOK /\ CodeInv /\ ViaInv /\ FinishedInv

-----------------------------------------------------------------------------
\* The invariant holds when main starts.
LEMMA InitControlInv == ControlInit => ControlInv
  <1> SUFFICES ASSUME ControlInit
               PROVE  ControlInv
    OBVIOUS
  <1> USE DEF ControlInit, ControlInv, ControlTypeOK, CodeInv, ViaInv, FinishedInv, Sent
  <1>0. kill \in BOOLEAN
    BY Zenon
  <1>1. ControlTypeOK
    BY <1>0, InterrogateAssumption
  <1>2. CodeInv
    OBVIOUS
  <1>3. ViaInv
    OBVIOUS
  <1>4. FinishedInv
    BY SMTT(30)
  <1> QED
    BY <1>1, <1>2, <1>3, <1>4

\* Every step of main, of the server and of the service goroutine keeps it.
LEMMA ControlStep == ControlInv /\ [ControlNext]_controlVars => ControlInv'
  <1> SUFFICES ASSUME ControlInv, [ControlNext]_controlVars
               PROVE  ControlInv'
    OBVIOUS
  <1> USE DEF ControlInv, ControlTypeOK, CodeInv, ViaInv, FinishedInv, Sent, mainVars, serverVars, svcVars
  <1>1. CASE StartupFails
    BY <1>1 DEF StartupFails
  <1>2. CASE StartServer
    BY <1>2 DEF StartServer
  <1>3. CASE SelectKill
    BY <1>3 DEF SelectKill
  <1>4. CASE SelectStop
    BY <1>4 DEF SelectStop
  <1>5. CASE SelectError
    BY <1>5 DEF SelectError
  <1>6. CASE SelectClosed
    BY <1>6 DEF SelectClosed
  <1>7. CASE Shutdown
    BY <1>7 DEF Shutdown
  <1>8. CASE Exit
    BY <1>8 DEF Exit
  <1>9. CASE SendExitCode
    BY <1>9 DEF SendExitCode
  <1>10. CASE ReceiveFinished
    BY <1>10 DEF ReceiveFinished
  <1>11. CASE KillSignal
    BY <1>11 DEF KillSignal
  <1>12. CASE ServerFails
    BY <1>12 DEF ServerFails
  <1>13. CASE ServerEnds
    BY <1>13 DEF ServerEnds
  <1>14. CASE CloseErrCh
    BY <1>14 DEF CloseErrCh
  <1>15. CASE RunFails
    BY <1>15 DEF RunFails
  <1>16. CASE ExecuteStarts
    BY <1>16 DEF ExecuteStarts
  <1>17. CASE ExecuteExitCode
    BY <1>17 DEF ExecuteExitCode
  <1>18. CASE Interrogate
    BY <1>18, InterrogateAssumption DEF Interrogate
  <1>19. CASE StopRequest
    BY <1>19 DEF StopRequest
  <1>20. CASE ExecuteStopped
    BY <1>20 DEF ExecuteStopped
  <1>21. CASE SignalFinished
    BY <1>21 DEF SignalFinished
  <1>22. CASE UNCHANGED controlVars
    BY <1>22 DEF controlVars
  <1> QED
    BY <1>1, <1>2, <1>3, <1>4, <1>5, <1>6, <1>7, <1>8, <1>9, <1>10, <1>11, <1>12, <1>13, <1>14, <1>15, <1>16, <1>17, <1>18, <1>19, <1>20, <1>21, <1>22, Zenon
       DEF ControlNext, Main, Svc

\* The invariant holds in every behaviour of the process.
LEMMA ControlAlways == ControlSpec => []ControlInv
  BY InitControlInv, ControlStep, PTL DEF ControlSpec

-----------------------------------------------------------------------------
(* The theorems.                                                           *)

\* The control flow of main, the web server and the service handler keeps its
\* types; in particular serviceManagerFinishedCh never holds a second value (main.go,
\* 0_service.go).
THEOREM ControlTypes == ControlSpec => []ControlTypeOK
  <1>1. ControlInv => ControlTypeOK
    BY DEF ControlInv
  <1> QED
    BY ControlAlways, <1>1, PTL

\* The service manager is told the exit code of run, or the 2 of a service
\* whose start could not be logged (0_service.go:32-34, 105-109, 124).
THEOREM ExitCodeIsTrue == ControlSpec => []ReportedIsExitCode
  <1>1. ControlInv => ReportedIsExitCode
    BY DEF ControlInv, CodeInv, ReportedIsExitCode
  <1> QED
    BY ControlAlways, <1>1, PTL

\* A service process does not end before its service goroutine has
\* (main.go:63-64).
THEOREM ServiceEndsFirst == ControlSpec => []NoEarlyExit
  <1>1. ControlInv => NoEarlyExit
    BY DEF ControlInv, FinishedInv, NoEarlyExit
  <1> QED
    BY ControlAlways, <1>1, PTL

\* A failed start or listener is never reported as a clean exit
\* (main.go:135-179, 235-242).
THEOREM FailuresAreReported == ControlSpec => []FailureIsReported
  <1>1. ControlInv => FailureIsReported
    BY DEF ControlInv, CodeInv, ViaInv, FailureIsReported
  <1> QED
    BY ControlAlways, <1>1, PTL

\* An exit code is left unread only if no Execute was there to read it
\* (main.go:61-64).
THEOREM ExitCodeIsNotLost == ControlSpec => []ExitCodeIsRead
  <1>1. ControlInv => ExitCodeIsRead
    BY DEF ControlInv, ControlTypeOK, CodeInv, Sent, ExitCodeIsRead
  <1> QED
    BY ControlAlways, <1>1, PTL

\* main and Execute hang on each other only if a stop request comes too late for
\* the select of run (main.go:61-64, 0_service.go:105-124).
THEOREM MainIsNotStuck == ControlSpec => []OnlyALateStopHangs
  <1>1. ControlInv => OnlyALateStopHangs
    BY DEF ControlInv, ControlTypeOK, CodeInv, FinishedInv, Sent, OnlyALateStopHangs
  <1> QED
    BY ControlAlways, <1>1, PTL

-----------------------------------------------------------------------------
(* The room in errCh of Build.                                             *)

\* What is in errCh was sent by a goroutine that is done, and each has sent one.
SentInv ==
  /\ \A e \in errCh : e.of \in collectors /\ pc[e.of] = "done"
  /\ \A e, f \in errCh : e.of = f.of => e = f

\* Every step of Enable, Build and its goroutines keeps it.
LEMMA SentInductive == IInv /\ SentInv /\ [Next]_vars => SentInv'
  <1> SUFFICES ASSUME IInv, SentInv, [Next]_vars
               PROVE  SentInv'
    OBVIOUS
  <1>i. TypeOK /\ BuilderInv /\ ResultInv
    BY DEF IInv
  <1>1. CASE EnableFails \/ InitMIFails \/ JoinErrors \/ UNCHANGED vars
    BY <1>1 DEF EnableFails, InitMIFails, JoinErrors, vars, SentInv
  <1>2. CASE Enable \/ StartBuilds
    BY <1>i, <1>2 DEF Enable, StartBuilds, ResultInv, SentInv
  <1>3. ASSUME NEW c \in Names, StoreErr(c) \/ CompareNotNil(c) \/ CompareNil(c)
        PROVE  SentInv'
    BY <1>i, <1>3 DEF StoreErr, CompareNotNil, CompareNil, TypeOK, SentInv
  <1>4. ASSUME NEW c \in Names, WrapAndSend(c)
        PROVE  SentInv'
    <2> DEFINE x == [of |-> c, err |-> err]
    <2>1. /\ pc[c] = "wrap" /\ collectors' = collectors
          /\ errCh' = errCh \cup {x} /\ pc' = [pc EXCEPT ![c] = "done"]
      BY <1>4, SMTT(30) DEF WrapAndSend
    <2>2. c \in collectors /\ x.of = c
      BY <1>i, <2>1 DEF BuilderInv
    <2>3. \A e \in errCh : e.of # c /\ e.of \in Names
      BY <1>i, <2>1 DEF SentInv, TypeOK
    <2> HIDE DEF x
    <2> QED
      BY <1>i, <2>1, <2>2, <2>3, SMTT(30) DEF SentInv, TypeOK
  <1> QED
    BY <1>1, <1>2, <1>3, <1>4 DEF Next, Builder, Returned

INSTANCE FiniteSetTheorems

\* Every goroutine of Build that has an error to send can send it, for any number
\* of collectors (collection.go:217, 224, 229).
THEOREM SendersFindRoom == Spec => []ErrChHasRoom
  <1>1. ASSUME TypeOK, BuilderInv, SentInv, NEW c \in Names, pc[c] = "wrap"
        PROVE  Cardinality(errCh) < Cardinality(collectors)
    <2> DEFINE T == collectors \ {c}
               f == [e \in errCh |-> e.of]
    <2>1. c \in collectors
      BY <1>1 DEF BuilderInv
    <2>2. IsFiniteSet(collectors)
      BY <1>1, NamesAssumption, FS_Subset DEF TypeOK
    <2>3. IsFiniteSet(T) /\ Cardinality(T) = Cardinality(collectors) - 1
      BY <2>1, <2>2, FS_RemoveElement, Zenon
    <2>4. f \in Injection(errCh, T)
      <3>1. f \in [errCh -> T]
        BY <1>1 DEF SentInv
      <3>2. \A e, g \in errCh : f[e] = f[g] => e = g
        BY <1>1 DEF SentInv
      <3> QED
        BY <3>1, <3>2 DEF Injection, IsInjective
    <2>5. IsFiniteSet(errCh) /\ Cardinality(errCh) <= Cardinality(T)
      BY <2>3, <2>4, FS_Injection, Zenon
    <2>6. Cardinality(errCh) \in Nat /\ Cardinality(collectors) \in Nat
      BY <2>2, <2>5, FS_CardinalityType
    <2> HIDE DEF T
    <2> QED
      BY <2>3, <2>5, <2>6
  <1>2. IInv /\ SentInv => ErrChHasRoom
    BY <1>1, Zenon DEF IInv, ErrChHasRoom
  <1>3. Init => SentInv
    BY DEF Init, SentInv
  <1> QED
    BY IInvAlways, SentInductive, <1>2, <1>3, PTL DEF Spec
=============================================================================
