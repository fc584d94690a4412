------------------------ MODULE UpdateSchedulerProofs -----------------------
(***************************************************************************)
(* Proofs about UpdateScheduler, for any number of calls of Collect and    *)
(* any number of fetches.                                                  *)
(***************************************************************************)
EXTENDS UpdateScheduler, TLAPS

\* How far Build and the goroutine are, and which descriptors there are.
StartInv ==
  /\ build = "start" => sched = "none" /\ initErrCh = "empty"
  /\ sched \in {"none", "init"} => initErrCh = "empty"
  /\ initErrCh = "error" => sched = "ended"
  /\ build = "init" => initErrCh # "empty" \/ sched = "init"
  /\ build = "failed" => initErrCh = "error"
  /\ build = "ok" => descs = Metrics
  /\ descs = Metrics => build = "ok"

\* A fetch stores all its metrics, and needs all descriptors for them.
FetchInv ==
  /\ sched = "metrics" => made \in {{}, {"query_duration"}, {"query_duration", "pending"}}
  /\ sched = "metrics" => made \subseteq descs
  /\ sched = "lock" /\ outcome = "metrics" => made = Metrics /\ descs = Metrics
  /\ buf = Nil \/ (buf.metrics = Metrics /\ descs = Metrics)

\* The calls that hold the read lock send what is in the buffer.
ReadInv ==
  /\ readers = {k \in Calls : pc[k] = "send"}
  /\ \A k \in Calls :
       /\ pc[k] = "lock" => got[k] = {}
       /\ pc[k] = "send" => seen[k] = buf /\ got[k] \subseteq buf.metrics
       /\ pc[k] = "ended" => got[k] = IF seen[k] = Nil THEN {} ELSE Metrics

IInv == TypeOK /\ StartInv /\ FetchInv /\ ReadInv /\ CrashOnlyAtStart

-----------------------------------------------------------------------------
\* The invariant holds before Build is called.
LEMMA InitIInv == Init => IInv
  <1> SUFFICES ASSUME Init
               PROVE  IInv
    OBVIOUS
  <1> USE UpdateAssumption DEF Init, Nil, Metrics
  <1>1. TypeOK
    <2>1. crashed \in BOOLEAN
      BY Zenon
    <2>2. buf \in Buffers /\ seen \in [Calls -> Buffers] /\ fetch \in 0..(Numbers - 1)
      BY DEF Buffers
    <2> QED
      BY <2>1, <2>2 DEF TypeOK
  <1>2. StartInv
    BY DEF StartInv
  <1>3. FetchInv
    BY DEF FetchInv
  <1>4. ReadInv
    BY DEF ReadInv
  <1>5. CrashOnlyAtStart
    BY DEF CrashOnlyAtStart
  <1> QED
    BY <1>1, <1>2, <1>3, <1>4, <1>5 DEF IInv

\* Every step of Build, of the goroutine and of Collect keeps it.
LEMMA IInvInductive == IInv /\ [Next]_vars => IInv'
  <1> SUFFICES ASSUME IInv, [Next]_vars
               PROVE  IInv'
    OBVIOUS
  <1> USE UpdateAssumption DEF IInv, Metrics, Nil, buildVars, schedVars, callVars
  <1>1. CASE StartScheduler
    <2>1. TypeOK'
      BY <1>1 DEF StartScheduler, TypeOK, Buffers
    <2>2. StartInv'
      BY <1>1 DEF StartScheduler, StartInv, TypeOK
    <2>3. FetchInv'
      BY <1>1 DEF StartScheduler, FetchInv, TypeOK, StartInv, Buffers
    <2>4. ReadInv'
      BY <1>1 DEF StartScheduler, ReadInv, TypeOK, FetchInv
    <2>5. CrashOnlyAtStart'
      BY <1>1 DEF StartScheduler, CrashOnlyAtStart, StartInv, FetchInv, TypeOK
    <2> QED
      BY <2>1, <2>2, <2>3, <2>4, <2>5
  <1>2. CASE AwaitInit
    <2>1. TypeOK'
      BY <1>2 DEF AwaitInit, TypeOK, Buffers
    <2>2. StartInv'
      BY <1>2 DEF AwaitInit, StartInv, TypeOK
    <2>3. FetchInv'
      BY <1>2 DEF AwaitInit, FetchInv, TypeOK, StartInv, Buffers
    <2>4. ReadInv'
      BY <1>2 DEF AwaitInit, ReadInv, TypeOK, FetchInv
    <2>5. CrashOnlyAtStart'
      BY <1>2 DEF AwaitInit, CrashOnlyAtStart, StartInv, FetchInv, TypeOK
    <2> QED
      BY <2>1, <2>2, <2>3, <2>4, <2>5
  <1>3. CASE MakeDesc
    <2>1. TypeOK'
      BY <1>3 DEF MakeDesc, TypeOK, Buffers
    <2>2. StartInv'
      BY <1>3 DEF MakeDesc, StartInv, TypeOK
    <2>3. FetchInv'
      BY <1>3 DEF MakeDesc, FetchInv, TypeOK, StartInv, Buffers
    <2>4. ReadInv'
      BY <1>3 DEF MakeDesc, ReadInv, TypeOK, FetchInv
    <2>5. CrashOnlyAtStart'
      BY <1>3 DEF MakeDesc, CrashOnlyAtStart, StartInv, FetchInv, TypeOK
    <2> QED
      BY <2>1, <2>2, <2>3, <2>4, <2>5
  <1>4. CASE InitScheduler
    <2>1. TypeOK'
      BY <1>4 DEF InitScheduler, TypeOK, Buffers
    <2>2. StartInv'
      BY <1>4 DEF InitScheduler, StartInv, TypeOK
    <2>3. FetchInv'
      BY <1>4 DEF InitScheduler, FetchInv, TypeOK, StartInv, Buffers
    <2>4. ReadInv'
      BY <1>4 DEF InitScheduler, ReadInv, TypeOK, FetchInv
    <2>5. CrashOnlyAtStart'
      BY <1>4 DEF InitScheduler, CrashOnlyAtStart, StartInv, FetchInv, TypeOK
    <2> QED
      BY <2>1, <2>2, <2>3, <2>4, <2>5
  <1>5. CASE SearchOk
    <2>1. TypeOK'
      BY <1>5 DEF SearchOk, TypeOK, Buffers
    <2>2. StartInv'
      BY <1>5 DEF SearchOk, StartInv, TypeOK
    <2>3. FetchInv'
      BY <1>5 DEF SearchOk, FetchInv, TypeOK, StartInv, Buffers
    <2>4. ReadInv'
      BY <1>5 DEF SearchOk, ReadInv, TypeOK, FetchInv
    <2>5. CrashOnlyAtStart'
      BY <1>5 DEF SearchOk, CrashOnlyAtStart, StartInv, FetchInv, TypeOK
    <2> QED
      BY <2>1, <2>2, <2>3, <2>4, <2>5
  <1>6. CASE FetchFails
    <2>1. TypeOK'
      BY <1>6 DEF FetchFails, TypeOK, Buffers
    <2>2. StartInv'
      BY <1>6 DEF FetchFails, StartInv, TypeOK
    <2>3. FetchInv'
      BY <1>6 DEF FetchFails, FetchInv, TypeOK, StartInv, Buffers
    <2>4. ReadInv'
      BY <1>6 DEF FetchFails, ReadInv, TypeOK, FetchInv
    <2>5. CrashOnlyAtStart'
      BY <1>6 DEF FetchFails, CrashOnlyAtStart, StartInv, FetchInv, TypeOK
    <2> QED
      BY <2>1, <2>2, <2>3, <2>4, <2>5
  <1>7. CASE MakeMetric
    <2>1. TypeOK'
      BY <1>7, Zenon DEF MakeMetric, TypeOK, Buffers
    <2>2. StartInv'
      BY <1>7 DEF MakeMetric, StartInv, TypeOK
    <2>3. FetchInv'
      BY <1>7 DEF MakeMetric, FetchInv, TypeOK, StartInv, Buffers
    <2>4. ReadInv'
      BY <1>7 DEF MakeMetric, ReadInv, TypeOK, FetchInv
    <2>5. CrashOnlyAtStart'
      BY <1>7, Zenon DEF MakeMetric, CrashOnlyAtStart, StartInv, FetchInv, TypeOK
    <2> QED
      BY <2>1, <2>2, <2>3, <2>4, <2>5
  <1>8. CASE Store
    <2>1. TypeOK'
      BY <1>8 DEF Store, Waiting, TypeOK, Buffers
    <2>2. StartInv'
      BY <1>8 DEF Store, Waiting, StartInv, TypeOK
    <2>3. FetchInv'
      BY <1>8 DEF Store, Waiting, FetchInv, TypeOK, StartInv, Buffers
    <2>4. ReadInv'
      BY <1>8 DEF Store, Waiting, ReadInv, TypeOK, FetchInv
    <2>5. CrashOnlyAtStart'
      BY <1>8 DEF Store, Waiting, CrashOnlyAtStart, StartInv, FetchInv, TypeOK
    <2> QED
      BY <2>1, <2>2, <2>3, <2>4, <2>5
  <1>9. CASE Tick
    <2>1. TypeOK'
      BY <1>9 DEF Tick, TypeOK, Buffers
    <2>2. StartInv'
      BY <1>9 DEF Tick, StartInv, TypeOK
    <2>3. FetchInv'
      BY <1>9 DEF Tick, FetchInv, TypeOK, StartInv, Buffers
    <2>4. ReadInv'
      BY <1>9 DEF Tick, ReadInv, TypeOK, FetchInv
    <2>5. CrashOnlyAtStart'
      BY <1>9 DEF Tick, CrashOnlyAtStart, StartInv, FetchInv, TypeOK
    <2> QED
      BY <2>1, <2>2, <2>3, <2>4, <2>5
  <1>10. CASE Cancelled
    <2>1. TypeOK'
      BY <1>10 DEF Cancelled, TypeOK, Buffers
    <2>2. StartInv'
      BY <1>10 DEF Cancelled, StartInv, TypeOK
    <2>3. FetchInv'
      BY <1>10 DEF Cancelled, FetchInv, TypeOK, StartInv, Buffers
    <2>4. ReadInv'
      BY <1>10 DEF Cancelled, ReadInv, TypeOK, FetchInv
    <2>5. CrashOnlyAtStart'
      BY <1>10 DEF Cancelled, CrashOnlyAtStart, StartInv, FetchInv, TypeOK
    <2> QED
      BY <2>1, <2>2, <2>3, <2>4, <2>5
  <1>11. CASE Close
    <2>1. TypeOK'
      BY <1>11 DEF Close, TypeOK, Buffers
    <2>2. StartInv'
      BY <1>11 DEF Close, StartInv, TypeOK
    <2>3. FetchInv'
      BY <1>11 DEF Close, FetchInv, TypeOK, StartInv, Buffers
    <2>4. ReadInv'
      BY <1>11 DEF Close, ReadInv, TypeOK, FetchInv
    <2>5. CrashOnlyAtStart'
      BY <1>11 DEF Close, CrashOnlyAtStart, StartInv, FetchInv, TypeOK
    <2> QED
      BY <2>1, <2>2, <2>3, <2>4, <2>5
  <1>12. ASSUME NEW k \in Calls, Begin(k)
        PROVE  IInv'
    <2>1. TypeOK'
      BY <1>12 DEF Begin, TypeOK, Buffers
    <2>2. StartInv'
      BY <1>12 DEF Begin, StartInv, TypeOK
    <2>3. FetchInv'
      BY <1>12 DEF Begin, FetchInv, TypeOK, StartInv, Buffers
    <2>4. ReadInv'
      BY <1>12 DEF Begin, ReadInv, TypeOK, FetchInv
    <2>5. CrashOnlyAtStart'
      BY <1>12 DEF Begin, CrashOnlyAtStart, StartInv, FetchInv, TypeOK
    <2> QED
      BY <2>1, <2>2, <2>3, <2>4, <2>5
  <1>13. ASSUME NEW k \in Calls, ReadLock(k)
        PROVE  IInv'
    <2>1. TypeOK'
      BY <1>13 DEF ReadLock, TypeOK, Buffers
    <2>2. StartInv'
      BY <1>13 DEF ReadLock, StartInv, TypeOK
    <2>3. FetchInv'
      BY <1>13 DEF ReadLock, FetchInv, TypeOK, StartInv, Buffers
    <2>4. ReadInv'
      BY <1>13 DEF ReadLock, ReadInv, TypeOK, FetchInv
    <2>5. CrashOnlyAtStart'
      BY <1>13 DEF ReadLock, CrashOnlyAtStart, StartInv, FetchInv, TypeOK
    <2> QED
      BY <2>1, <2>2, <2>3, <2>4, <2>5
  <1>14. ASSUME NEW k \in Calls, SendMetric(k)
        PROVE  IInv'
    <2>1. TypeOK'
      BY <1>14 DEF SendMetric, TypeOK, Buffers
    <2>2. StartInv'
      BY <1>14 DEF SendMetric, StartInv, TypeOK
    <2>3. FetchInv'
      BY <1>14 DEF SendMetric, FetchInv, TypeOK, StartInv, Buffers
    <2>4. ReadInv'
      <3>1. PICK m \in buf.metrics : got' = [got EXCEPT ![k] = @ \cup {m}]
        BY <1>14, Zenon DEF SendMetric
      <3>2. got'[k] \subseteq buf.metrics /\ \A j \in Calls \ {k} : got'[j] = got[j]
        BY <1>14, <3>1 DEF SendMetric, ReadInv, TypeOK
      <3> QED
        BY <1>14, <3>2, ZenonT(30) DEF SendMetric, ReadInv, TypeOK
    <2>5. CrashOnlyAtStart'
      BY <1>14 DEF SendMetric, CrashOnlyAtStart, StartInv, FetchInv, TypeOK
    <2> QED
      BY <2>1, <2>2, <2>3, <2>4, <2>5
  <1>15. ASSUME NEW k \in Calls, Return(k)
        PROVE  IInv'
    <2>1. TypeOK'
      BY <1>15 DEF Return, TypeOK, Buffers
    <2>2. StartInv'
      BY <1>15 DEF Return, StartInv, TypeOK
    <2>3. FetchInv'
      BY <1>15 DEF Return, FetchInv, TypeOK, StartInv, Buffers
    <2>4. ReadInv'
      BY <1>15 DEF Return, ReadInv, TypeOK, FetchInv
    <2>5. CrashOnlyAtStart'
      BY <1>15 DEF Return, CrashOnlyAtStart, StartInv, FetchInv, TypeOK
    <2> QED
      BY <2>1, <2>2, <2>3, <2>4, <2>5
  <1>16. CASE UNCHANGED vars
    BY <1>16 DEF vars, TypeOK, StartInv, FetchInv, ReadInv,
                CrashOnlyAtStart
  <1> QED
    BY <1>1, <1>2, <1>3, <1>4, <1>5, <1>6, <1>7, <1>8, <1>9, <1>10, <1>11, <1>12, <1>13, <1>14, <1>15, <1>16
       DEF Next, BuildStep, SchedStep, CallStep

LEMMA IInvAlways == Spec => []IInv
  BY InitIInv, IInvInductive, PTL DEF Spec

-----------------------------------------------------------------------------
\* Every variable keeps its type, whatever Build, the goroutine and the calls do.
THEOREM TypeCorrect == Spec => []TypeOK
  BY IInvAlways, PTL DEF IInv

\* A call of Collect sends nothing or all the metrics of one fetch, for any number
\* of overlapping calls: the read lock keeps the buffer as it is.
THEOREM CollectSendsOneFetch == Spec => []SnapshotIsWhole
  <1>1. IInv => SnapshotIsWhole
    BY Zenon DEF IInv, ReadInv, SnapshotIsWhole
  <1> QED
    BY <1>1, IInvAlways, PTL

\* The goroutine can meet a nil descriptor only before Build has returned.
THEOREM OnlyTheStartCrashes == Spec => []CrashOnlyAtStart
  BY IInvAlways, PTL DEF IInv

\* Build, the goroutine and the calls never wait for each other in a circle, for
\* any number of calls.
THEOREM NobodyIsStuck == Spec => []NoCircularWait
  <1>1. IInv => NoCircularWait
    BY Zenon DEF IInv, StartInv, ReadInv, NoCircularWait
  <1> QED
    BY <1>1, IInvAlways, PTL
=============================================================================
