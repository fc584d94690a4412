--------------------------- MODULE CollectionBuild ---------------------------
(***************************************************************************)
(* Start-up of the collection (pkg/collector/collection.go): Enable,       *)
(* initMI and Build, which builds all collectors in parallel.              *)
(*                                                                         *)
(* The goroutines of Build assign to one variable err, the one that holds  *)
(* the result of initMI, without synchronisation.  Each goroutine stores   *)
(* the result of its collector in err, compares err with nil and, after a  *)
(* call of GetName, reads err again to wrap it.  The comparison may use    *)
(* the value just stored or load the variable: the race leaves both open.  *)
(* An error is a pair of the collector that returned it and its class.     *)
(***************************************************************************)
EXTENDS Integers, FiniteSets

CONSTANTS
  Names,     \* the collectors that exist
  Unknown    \* a name that no collector has

ASSUME NamesAssumption == IsFiniteSet(Names) /\ Unknown \notin Names

VARIABLES
  collectors,  \* the map of the collection, its key set
  phase,       \* where run is in Enable and Build
  err,         \* the shared variable of Build
  own,         \* what Build of each collector has returned
  pc,          \* where the goroutine of each collector is
  errCh,       \* the wrapped errors: the collector that sent it, and the error
  errs         \* the errors that Build returns

vars == <<collectors, phase, err, own, pc, errCh, errs>>

Nil == [of |-> Unknown, class |-> "nil"]

\* "fatal" stands for every error that is not in the list of tolerated ones.
ErrorOf(c, class) == IF class = "nil" THEN Nil ELSE [of |-> c, class |-> class]

Classes == {"nil", "tolerated", "fatal"}

ErrorValues == [of : Names \cup {Unknown}, class : Classes]

Init ==
  /\ collectors = Names
  /\ phase = "flags"
  /\ err = Nil
  /\ own = [c \in Names |-> "none"]
  /\ pc = [c \in Names |-> "off"]
  /\ errCh = {}
  /\ errs = {}

-----------------------------------------------------------------------------
\* Enable: an unknown name is an error and nothing is removed.
EnableFails ==
  /\ phase = "flags"
  /\ phase' = "failed"
  /\ UNCHANGED <<collectors, err, own, pc, errCh, errs>>

\* Enable: the collectors that are not named are removed.
Enable ==
  /\ phase = "flags"
  /\ \E names \in SUBSET Names : collectors' = collectors \cap names
  /\ phase' = "enabled"
  /\ UNCHANGED <<err, own, pc, errCh, errs>>

\* initMI fails in one of its four calls: Build returns its error alone.
InitMIFails ==
  /\ phase = "enabled"
  /\ errs' = {[of |-> Unknown, err |-> [of |-> Unknown, class |-> "fatal"]]}
  /\ phase' = "miFailed"
  /\ UNCHANGED <<collectors, err, own, pc, errCh>>

\* initMI succeeds, err is nil, and a goroutine is started per collector.
StartBuilds ==
  /\ phase = "enabled"
  /\ pc' = [c \in Names |-> IF c \in collectors THEN "build" ELSE "off"]
  /\ phase' = "building"
  /\ UNCHANGED <<collectors, err, own, errCh, errs>>

\* err = collector.Build(...)
StoreErr(c) ==
  /\ pc[c] = "build"
  /\ \E class \in Classes :
       /\ own' = [own EXCEPT ![c] = class]
       /\ err' = ErrorOf(c, class)
  /\ pc' = [pc EXCEPT ![c] = "compare"]
  /\ UNCHANGED <<collectors, phase, errCh, errs>>

\* Mutant of CompareNotNil: the result is sent whether it is nil or not.
CompareNotNilAlways(c) ==
  /\ pc[c] = "compare"
  /\ pc' = [pc EXCEPT ![c] = "wrap"]
  /\ UNCHANGED <<collectors, phase, err, own, errCh, errs>>

\* err != nil, on the value just stored or on the variable: true
CompareNotNil(c) ==
  /\ pc[c] = "compare"
  /\ own[c] # "nil" \/ err # Nil
  /\ pc' = [pc EXCEPT ![c] = "wrap"]
  /\ UNCHANGED <<collectors, phase, err, own, errCh, errs>>

\* err != nil, on the value just stored or on the variable: false
CompareNil(c) ==
  /\ pc[c] = "compare"
  /\ own[c] = "nil" \/ err = Nil
  /\ pc' = [pc EXCEPT ![c] = "done"]
  /\ UNCHANGED <<collectors, phase, err, own, errCh, errs>>

\* Mutant of WrapAndSend: the channel has room for one error only.
WrapAndSendOne(c) ==
  /\ pc[c] = "wrap"
  /\ \/ /\ errCh = {}
        /\ errCh' = {[of |-> c, err |-> err]}
        /\ pc' = [pc EXCEPT ![c] = "done"]
        /\ UNCHANGED <<collectors, phase, err, own, errs>>
     \/ errCh # {} /\ UNCHANGED vars

\* errCh <- fmt.Errorf(...): the variable is read again.  The channel has room
\* for one error per collector.
WrapAndSend(c) ==
  /\ pc[c] = "wrap"
  /\ Cardinality(errCh) < Cardinality(collectors)
  /\ errCh' = errCh \cup {[of |-> c, err |-> err]}
  /\ pc' = [pc EXCEPT ![c] = "done"]
  /\ UNCHANGED <<collectors, phase, err, own, errs>>

\* Mutant of JoinErrors: only one of the errors is kept.
JoinOneError ==
  /\ phase = "building"
  /\ \A c \in collectors : pc[c] = "done"
  /\ LET one == CHOOSE e \in errCh : TRUE
     IN  errs' = {e \in errCh : e = one /\ e.err.class # "tolerated"}
  /\ phase' = "returned"
  /\ UNCHANGED <<collectors, err, own, pc, errCh>>

\* wg.Wait, close(errCh); tolerated errors are logged, the others joined.
JoinErrors ==
  /\ phase = "building"
  /\ \A c \in collectors : pc[c] = "done"
  /\ errs' = {e \in errCh : e.err.class # "tolerated"}
  /\ phase' = "returned"
  /\ UNCHANGED <<collectors, err, own, pc, errCh>>

-----------------------------------------------------------------------------
Builder(c) == StoreErr(c) \/ CompareNotNil(c) \/ CompareNil(c) \/ WrapAndSend(c)

Returned == phase \in {"failed", "miFailed", "returned"} /\ UNCHANGED vars

Next ==
  \/ EnableFails \/ Enable \/ InitMIFails \/ StartBuilds
  \/ \E c \in Names : Builder(c)
  \/ JoinErrors
  \/ Returned

Spec == Init /\ [][Next]_vars

\* Every goroutine of Build makes progress, in particular every collector's
\* Build returns.
FairSpec ==
  /\ Spec
  /\ WF_vars(JoinErrors)
  /\ \A c \in Names : WF_vars(Builder(c))

-----------------------------------------------------------------------------
(* Properties.                                                             *)

TypeOK ==
  /\ collectors \in SUBSET Names
  /\ phase \in {"flags", "enabled", "building", "returned", "failed",
               "miFailed"}
  /\ err \in ErrorValues
  /\ own \in [Names -> Classes \cup {"none"}]
  /\ pc \in [Names -> {"off", "build", "compare", "wrap", "done"}]
  /\ errCh \in SUBSET [of : Names, err : ErrorValues]
  /\ errs \in SUBSET [of : Names \cup {Unknown}, err : ErrorValues]

\* What can stop the start: a fatal error that a collector's Build has really
\* returned, or the nil of one collector, wrapped as an error because the race let
\* another one's error through the comparison.  The second needs a collection of
\* which one part fails, if only in a tolerated way, and another does not; if all
\* are built without error, Build returns none (collection.go:223-249).
ErrorsAreReal ==
  phase = "returned" => \A e \in errs :
    IF e.err = Nil
    THEN (\E c \in collectors : own[c] = "nil") /\ (\E c \in collectors : own[c] # "nil")
    ELSE e.err.class = "fatal" /\ e.err.of \in collectors /\ own[e.err.of] = "fatal"

\* If every collector has only a tolerated error, Build returns none, and if
\* all of them fail, it returns one error for each (collection.go:235-249).
UniformOutcomeIsExact ==
  /\ phase = "returned" /\ (\A c \in collectors : own[c] = "tolerated") => errs = {}
  /\ phase = "returned" /\ (\A c \in collectors : own[c] = "fatal")
       => {e.of : e \in errs} = collectors

\* Build does not return while a collector is still being built; if initMI
\* fails, no collector is touched (collection.go:209-212, 229).
WaitsForEveryBuild ==
  /\ phase = "returned" => \A c \in collectors : own[c] # "none" /\ pc[c] = "done"
  /\ phase = "miFailed" => \A c \in Names : pc[c] = "off"

\* A goroutine that has an error to send finds room in errCh: each of the others
\* has sent at most one, so that wg.Wait cannot hang on a full channel
\* (collection.go:217, 224, 229).
ErrChHasRoom ==
  \A c \in Names : pc[c] = "wrap" => Cardinality(errCh) < Cardinality(collectors)

\* Build returns, if every collector's Build does: errCh has room for all.
BuildReturns == phase = "building" ~> phase = "returned"

\* What the comment at collection.go:204 says: Build "will try to build all
\* collectors and return all errors".
AllErrorsReturned ==
  phase = "returned" => \A c \in collectors :
    own[c] = "fatal" => [of |-> c, err |-> ErrorOf(c, "fatal")] \in errs
=============================================================================
