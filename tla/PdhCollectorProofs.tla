-------------------------- MODULE PdhCollectorProofs --------------------------
(***************************************************************************)
(* Proofs about PdhCollector, for any number of Collect and Close calls.   *)
(***************************************************************************)
EXTENDS PdhCollector, TLAPS

Busy == worker \in {"query", "fill", "reply"}

\* Who holds mu, read off the program counters.
LockInv ==
  /\ readers = {c \in Calls : pc[c] \in {"check", "send", "receive", "unlock"}}
  /\ \A c \in Calls : pc[c] \notin {"lock", "close", "channels"}
  /\ \A x \in Closes :
       /\ pending = x <=> pc[x] = "lock"
       /\ writer = x <=> pc[x] \in {"close", "channels"}
       /\ pc[x] \notin {"check", "send", "receive", "unlock"}
  /\ writer # None => readers = {} /\ pending = None

\* The worker is busy for exactly the caller that waits for an answer, and no
\* caller gets past the check of a collector that is not open.
WorkerInv ==
  /\ Busy => job \in Calls /\ pc[job] = "receive"
  /\ \A c \in Calls :
       /\ pc[c] = "receive" => Busy /\ job = c
       /\ pc[c] \in {"send", "receive"} => handle = "open" /\ chans = "open"

\* The fields change under the write lock only, and never come back.
FieldInv ==
  /\ chans = "open" => ~closed /\ worker \notin {"off", "exit"}
  /\ new \in {"none", "nil"} => handle = "zero" /\ chans = "nil"
  /\ new = "none" => ~closed /\ worker = "off" /\ \A c \in Calls \cup Closes : pc[c] = "idle"
  /\ \A x \in Closes :
       /\ pc[x] = "channels" => handle = "zero"
       /\ pc[x] = "done" => handle = "zero" /\ chans = "nil"

\* What a call has got so far.
CallInv(c) ==
  /\ pc[c] \in {"idle", "check", "send", "receive"} => result[c] = NoResult
  /\ pc[c] \in {"unlock", "done"} => result[c].of = c
  /\ began[c] <= sample
  /\ result[c].answer \in {"nil", "noData"} => dst[c] > began[c]
  /\ pc[c] = "receive" /\ worker = "fill" => sample > began[c]
  /\ pc[c] = "receive" /\ worker = "reply" /\ answer \in {"nil", "noData"}
       => dst[c] > began[c]

IInv ==
  /\ TypeOK
  /\ LockInv
  /\ WorkerInv
  /\ FieldInv
  /\ \A c \in Calls : CallInv(c)

-----------------------------------------------------------------------------
\* The invariant holds before the constructor runs.
LEMMA InitIInv == Init => IInv
  <1> SUFFICES ASSUME Init
               PROVE  IInv
    OBVIOUS
  <1> USE CallsAssumption DEF Init
  <1>1. TypeOK
    BY Zenon DEF TypeOK, Answers, NoResult
  <1>2. LockInv
    BY DEF LockInv
  <1>3. WorkerInv /\ FieldInv
    BY DEF WorkerInv, FieldInv, Busy
  <1>4. ASSUME NEW c \in Calls
        PROVE  CallInv(c)
    <2>1. result[c] = NoResult /\ pc[c] = "idle" /\ began[c] = 0 /\ sample = 0
      OBVIOUS
    <2>2. NoResult.answer = "none"
      BY DEF NoResult
    <2> QED
      BY <2>1, <2>2 DEF CallInv
  <1> QED
    BY <1>1, <1>2, <1>3, <1>4 DEF IInv

\* Every step of the constructor, of a call and of the worker keeps the types.
LEMMA TypeInductive == IInv /\ [Next]_vars => TypeOK'
  <1> SUFFICES ASSUME IInv, [Next]_vars
               PROVE  TypeOK'
    OBVIOUS
  <1> USE CallsAssumption
      DEF TypeOK, muVars, fieldVars, workerVars, callVars, Answers, NoResult
  <1>t. TypeOK /\ WorkerInv
    BY DEF IInv
  <1>1. ASSUME NewReady
        PROVE  TypeOK'
    BY <1>t, <1>1 DEF NewReady
  <1>2. ASSUME NewBroken
        PROVE  TypeOK'
    BY <1>t, <1>2 DEF NewBroken
  <1>3. ASSUME NewNil
        PROVE  TypeOK'
    BY <1>t, <1>3 DEF NewNil
  <1>4. ASSUME NEW c \in Calls, CollectNil(c)
        PROVE  TypeOK'
    BY <1>t, <1>4 DEF CollectNil, Finish
  <1>5. ASSUME NEW c \in Calls, RLock(c)
        PROVE  TypeOK'
    BY <1>t, <1>5 DEF RLock
  <1>6. ASSUME NEW c \in Calls, CheckFails(c)
        PROVE  TypeOK'
    BY <1>t, <1>6 DEF CheckFails, Finish
  <1>7. ASSUME NEW c \in Calls, CheckPasses(c)
        PROVE  TypeOK'
    BY <1>t, <1>7 DEF CheckPasses
  <1>8. ASSUME NEW c \in Calls, SendData(c)
        PROVE  TypeOK'
    BY <1>t, <1>8 DEF SendData
  <1>9. ASSUME NEW c \in Calls, ReceiveError(c)
        PROVE  TypeOK'
    BY <1>t, <1>9 DEF ReceiveError, WorkerInv, Busy
  <1>10. ASSUME NEW c \in Calls, RUnlock(c)
        PROVE  TypeOK'
    BY <1>t, <1>10 DEF RUnlock
  <1>11. ASSUME Query
        PROVE  TypeOK'
    BY <1>t, <1>11 DEF Query
  <1>12. ASSUME QueryFails
        PROVE  TypeOK'
    BY <1>t, <1>12 DEF QueryFails
  <1>13. ASSUME Fill
        PROVE  TypeOK'
    BY <1>t, <1>13 DEF Fill, WorkerInv, Busy
  <1>14. ASSUME WorkerExits
        PROVE  TypeOK'
    BY <1>t, <1>14 DEF WorkerExits
  <1>15. ASSUME NEW x \in Closes, CloseNil(x)
        PROVE  TypeOK'
    BY <1>t, <1>15 DEF CloseNil
  <1>16. ASSUME NEW x \in Closes, AnnounceLock(x)
        PROVE  TypeOK'
    BY <1>t, <1>16 DEF AnnounceLock
  <1>17. ASSUME NEW x \in Closes, Lock(x)
        PROVE  TypeOK'
    BY <1>t, <1>17 DEF Lock
  <1>18. ASSUME NEW x \in Closes, CloseQuery(x)
        PROVE  TypeOK'
    BY <1>t, <1>18 DEF CloseQuery
  <1>19. ASSUME NEW x \in Closes, CloseChannels(x)
        PROVE  TypeOK'
    BY <1>t, <1>19 DEF CloseChannels
  <1>20. CASE UNCHANGED vars
    BY <1>t, <1>20 DEF vars
  <1> QED
    BY <1>1, <1>2, <1>3, <1>4, <1>5, <1>6, <1>7, <1>8, <1>9, <1>10, <1>11, <1>12, <1>13, <1>14, <1>15, <1>16, <1>17, <1>18, <1>19, <1>20, Zenon
       DEF Next, New, Collect, Worker, Close, AllReturned

\* Every step keeps the invariant.
LEMMA IInvInductive == IInv /\ [Next]_vars => IInv'
  <1> SUFFICES ASSUME IInv, [Next]_vars
               PROVE  IInv'
    OBVIOUS
  <1> USE CallsAssumption DEF muVars, fieldVars, workerVars, callVars
  <1>t. TypeOK'
    BY TypeInductive
  <1>i. TypeOK /\ LockInv /\ WorkerInv /\ FieldInv
    BY DEF IInv
  <1>j. \A d \in Calls : CallInv(d)
    BY DEF IInv
  <1>1. ASSUME NewReady
        PROVE  IInv'
    <2>1. LockInv'
      BY <1>1, <1>i DEF NewReady, TypeOK, LockInv, FieldInv
    <2>2. WorkerInv'
      BY <1>1, <1>i, <1>t DEF NewReady, TypeOK, LockInv, WorkerInv, FieldInv, Busy
    <2>3. FieldInv'
      BY <1>1, <1>i DEF NewReady, TypeOK, LockInv, WorkerInv, FieldInv, Busy
    <2>4. ASSUME NEW d \in Calls
          PROVE  CallInv(d)'
      BY <1>1, <1>i, <1>j, <1>t DEF NewReady, TypeOK, WorkerInv, CallInv, Busy, Answers, NoResult
    <2> QED
      BY <1>t, <2>1, <2>2, <2>3, <2>4 DEF IInv
  <1>2. ASSUME NewBroken
        PROVE  IInv'
    <2>1. LockInv'
      BY <1>2, <1>i DEF NewBroken, TypeOK, LockInv, FieldInv
    <2>2. WorkerInv'
      BY <1>2, <1>i, <1>t DEF NewBroken, TypeOK, LockInv, WorkerInv, FieldInv, Busy
    <2>3. FieldInv'
      BY <1>2, <1>i DEF NewBroken, TypeOK, LockInv, WorkerInv, FieldInv, Busy
    <2>4. ASSUME NEW d \in Calls
          PROVE  CallInv(d)'
      BY <1>2, <1>i, <1>j, <1>t DEF NewBroken, TypeOK, WorkerInv, CallInv, Busy, Answers, NoResult
    <2> QED
      BY <1>t, <2>1, <2>2, <2>3, <2>4 DEF IInv
  <1>3. ASSUME NewNil
        PROVE  IInv'
    <2>1. LockInv'
      BY <1>3, <1>i DEF NewNil, TypeOK, LockInv, FieldInv
    <2>2. WorkerInv'
      BY <1>3, <1>i, <1>t DEF NewNil, TypeOK, LockInv, WorkerInv, FieldInv, Busy
    <2>3. FieldInv'
      BY <1>3, <1>i DEF NewNil, TypeOK, LockInv, WorkerInv, FieldInv, Busy
    <2>4. ASSUME NEW d \in Calls
          PROVE  CallInv(d)'
      BY <1>3, <1>i, <1>j, <1>t DEF NewNil, TypeOK, WorkerInv, CallInv, Busy, Answers, NoResult
    <2> QED
      BY <1>t, <2>1, <2>2, <2>3, <2>4 DEF IInv
  <1>4. ASSUME NEW c \in Calls, CollectNil(c)
        PROVE  IInv'
    <2>1. LockInv'
      BY <1>4, <1>i DEF CollectNil, Finish, TypeOK, LockInv, FieldInv
    <2>2. WorkerInv'
      BY <1>4, <1>i, <1>t DEF CollectNil, Finish, TypeOK, LockInv, WorkerInv, FieldInv, Busy
    <2>3. FieldInv'
      BY <1>4, <1>i DEF CollectNil, Finish, TypeOK, LockInv, WorkerInv, FieldInv, Busy
    <2>4. ASSUME NEW d \in Calls
          PROVE  CallInv(d)'
      BY <1>4, <1>i, <1>j, <1>t DEF CollectNil, Finish, TypeOK, WorkerInv, CallInv, Busy, Answers, NoResult
    <2> QED
      BY <1>t, <2>1, <2>2, <2>3, <2>4 DEF IInv
  <1>5. ASSUME NEW c \in Calls, RLock(c)
        PROVE  IInv'
    <2>1. LockInv'
      BY <1>5, <1>i DEF RLock, TypeOK, LockInv, FieldInv
    <2>2. WorkerInv'
      BY <1>5, <1>i, <1>t DEF RLock, TypeOK, LockInv, WorkerInv, FieldInv, Busy
    <2>3. FieldInv'
      BY <1>5, <1>i DEF RLock, TypeOK, LockInv, WorkerInv, FieldInv, Busy
    <2>4. ASSUME NEW d \in Calls
          PROVE  CallInv(d)'
      BY <1>5, <1>i, <1>j, <1>t DEF RLock, TypeOK, WorkerInv, CallInv, Busy, Answers, NoResult
    <2> QED
      BY <1>t, <2>1, <2>2, <2>3, <2>4 DEF IInv
  <1>6. ASSUME NEW c \in Calls, CheckFails(c)
        PROVE  IInv'
    <2>1. LockInv'
      BY <1>6, <1>i DEF CheckFails, Finish, TypeOK, LockInv, FieldInv
    <2>2. WorkerInv'
      BY <1>6, <1>i, <1>t DEF CheckFails, Finish, TypeOK, LockInv, WorkerInv, FieldInv, Busy
    <2>3. FieldInv'
      BY <1>6, <1>i DEF CheckFails, Finish, TypeOK, LockInv, WorkerInv, FieldInv, Busy
    <2>4. ASSUME NEW d \in Calls
          PROVE  CallInv(d)'
      BY <1>6, <1>i, <1>j, <1>t DEF CheckFails, Finish, TypeOK, WorkerInv, CallInv, Busy, Answers, NoResult
    <2> QED
      BY <1>t, <2>1, <2>2, <2>3, <2>4 DEF IInv
  <1>7. ASSUME NEW c \in Calls, CheckPasses(c)
        PROVE  IInv'
    <2>1. LockInv'
      BY <1>7, <1>i DEF CheckPasses, TypeOK, LockInv, FieldInv
    <2>2. WorkerInv'
      BY <1>7, <1>i, <1>t DEF CheckPasses, TypeOK, LockInv, WorkerInv, FieldInv, Busy
    <2>3. FieldInv'
      BY <1>7, <1>i DEF CheckPasses, TypeOK, LockInv, WorkerInv, FieldInv, Busy
    <2>4. ASSUME NEW d \in Calls
          PROVE  CallInv(d)'
      BY <1>7, <1>i, <1>j, <1>t DEF CheckPasses, TypeOK, WorkerInv, CallInv, Busy, Answers, NoResult
    <2> QED
      BY <1>t, <2>1, <2>2, <2>3, <2>4 DEF IInv
  <1>8. ASSUME NEW c \in Calls, SendData(c)
        PROVE  IInv'
    <2>1. LockInv'
      BY <1>8, <1>i DEF SendData, TypeOK, LockInv, FieldInv
    <2>2. WorkerInv'
      BY <1>8, <1>i, <1>t DEF SendData, TypeOK, LockInv, WorkerInv, FieldInv, Busy
    <2>3. FieldInv'
      BY <1>8, <1>i DEF SendData, TypeOK, LockInv, WorkerInv, FieldInv, Busy
    <2>4. ASSUME NEW d \in Calls
          PROVE  CallInv(d)'
      BY <1>8, <1>i, <1>j, <1>t DEF SendData, TypeOK, WorkerInv, CallInv, Busy, Answers, NoResult
    <2> QED
      BY <1>t, <2>1, <2>2, <2>3, <2>4 DEF IInv
  <1>9. ASSUME NEW c \in Calls, ReceiveError(c)
        PROVE  IInv'
    <2>1. LockInv'
      BY <1>9, <1>i DEF ReceiveError, TypeOK, LockInv, FieldInv
    <2>2. WorkerInv'
      BY <1>9, <1>i, <1>t DEF ReceiveError, TypeOK, LockInv, WorkerInv, FieldInv, Busy
    <2>3. FieldInv'
      BY <1>9, <1>i DEF ReceiveError, TypeOK, LockInv, WorkerInv, FieldInv, Busy
    <2>4. ASSUME NEW d \in Calls
          PROVE  CallInv(d)'
      BY <1>9, <1>i, <1>j, <1>t DEF ReceiveError, TypeOK, WorkerInv, CallInv, Busy, Answers, NoResult
    <2> QED
      BY <1>t, <2>1, <2>2, <2>3, <2>4 DEF IInv
  <1>10. ASSUME NEW c \in Calls, RUnlock(c)
        PROVE  IInv'
    <2>1. LockInv'
      BY <1>10, <1>i DEF RUnlock, TypeOK, LockInv, FieldInv
    <2>2. WorkerInv'
      BY <1>10, <1>i, <1>t DEF RUnlock, TypeOK, LockInv, WorkerInv, FieldInv, Busy
    <2>3. FieldInv'
      BY <1>10, <1>i DEF RUnlock, TypeOK, LockInv, WorkerInv, FieldInv, Busy
    <2>4. ASSUME NEW d \in Calls
          PROVE  CallInv(d)'
      BY <1>10, <1>i, <1>j, <1>t DEF RUnlock, TypeOK, WorkerInv, CallInv, Busy, Answers, NoResult
    <2> QED
      BY <1>t, <2>1, <2>2, <2>3, <2>4 DEF IInv
  <1>11. ASSUME Query
        PROVE  IInv'
    <2>1. LockInv'
      BY <1>11, <1>i DEF Query, TypeOK, LockInv, FieldInv
    <2>2. WorkerInv'
      BY <1>11, <1>i, <1>t DEF Query, TypeOK, LockInv, WorkerInv, FieldInv, Busy
    <2>3. FieldInv'
      BY <1>11, <1>i DEF Query, TypeOK, LockInv, WorkerInv, FieldInv, Busy
    <2>4. ASSUME NEW d \in Calls
          PROVE  CallInv(d)'
      BY <1>11, <1>i, <1>j, <1>t DEF Query, TypeOK, WorkerInv, CallInv, Busy, Answers, NoResult
    <2> QED
      BY <1>t, <2>1, <2>2, <2>3, <2>4 DEF IInv
  <1>12. ASSUME QueryFails
        PROVE  IInv'
    <2>1. LockInv'
      BY <1>12, <1>i DEF QueryFails, TypeOK, LockInv, FieldInv
    <2>2. WorkerInv'
      BY <1>12, <1>i, <1>t DEF QueryFails, TypeOK, LockInv, WorkerInv, FieldInv, Busy
    <2>3. FieldInv'
      BY <1>12, <1>i DEF QueryFails, TypeOK, LockInv, WorkerInv, FieldInv, Busy
    <2>4. ASSUME NEW d \in Calls
          PROVE  CallInv(d)'
      BY <1>12, <1>i, <1>j, <1>t DEF QueryFails, TypeOK, WorkerInv, CallInv, Busy, Answers, NoResult
    <2> QED
      BY <1>t, <2>1, <2>2, <2>3, <2>4 DEF IInv
  <1>13. ASSUME Fill
        PROVE  IInv'
    <2>1. LockInv'
      BY <1>13, <1>i DEF Fill, TypeOK, LockInv, FieldInv
    <2>2. WorkerInv'
      BY <1>13, <1>i, <1>t DEF Fill, TypeOK, LockInv, WorkerInv, FieldInv, Busy
    <2>3. FieldInv'
      BY <1>13, <1>i DEF Fill, TypeOK, LockInv, WorkerInv, FieldInv, Busy
    <2>4. ASSUME NEW d \in Calls
          PROVE  CallInv(d)'
      BY <1>13, <1>i, <1>j, <1>t DEF Fill, TypeOK, WorkerInv, CallInv, Busy, Answers, NoResult
    <2> QED
      BY <1>t, <2>1, <2>2, <2>3, <2>4 DEF IInv
  <1>14. ASSUME WorkerExits
        PROVE  IInv'
    <2>1. LockInv'
      BY <1>14, <1>i DEF WorkerExits, TypeOK, LockInv, FieldInv
    <2>2. WorkerInv'
      BY <1>14, <1>i, <1>t DEF WorkerExits, TypeOK, LockInv, WorkerInv, FieldInv, Busy
    <2>3. FieldInv'
      BY <1>14, <1>i DEF WorkerExits, TypeOK, LockInv, WorkerInv, FieldInv, Busy
    <2>4. ASSUME NEW d \in Calls
          PROVE  CallInv(d)'
      BY <1>14, <1>i, <1>j, <1>t DEF WorkerExits, TypeOK, WorkerInv, CallInv, Busy, Answers, NoResult
    <2> QED
      BY <1>t, <2>1, <2>2, <2>3, <2>4 DEF IInv
  <1>15. ASSUME NEW x \in Closes, CloseNil(x)
        PROVE  IInv'
    <2>1. LockInv'
      BY <1>15, <1>i DEF CloseNil, TypeOK, LockInv, FieldInv
    <2>2. WorkerInv'
      BY <1>15, <1>i, <1>t DEF CloseNil, TypeOK, LockInv, WorkerInv, FieldInv, Busy
    <2>3. FieldInv'
      BY <1>15, <1>i DEF CloseNil, TypeOK, LockInv, WorkerInv, FieldInv, Busy
    <2>4. ASSUME NEW d \in Calls
          PROVE  CallInv(d)'
      BY <1>15, <1>i, <1>j, <1>t DEF CloseNil, TypeOK, WorkerInv, CallInv, Busy, Answers, NoResult
    <2> QED
      BY <1>t, <2>1, <2>2, <2>3, <2>4 DEF IInv
  <1>16. ASSUME NEW x \in Closes, AnnounceLock(x)
        PROVE  IInv'
    <2>1. LockInv'
      BY <1>16, <1>i DEF AnnounceLock, TypeOK, LockInv, FieldInv
    <2>2. WorkerInv'
      BY <1>16, <1>i, <1>t DEF AnnounceLock, TypeOK, LockInv, WorkerInv, FieldInv, Busy
    <2>3. FieldInv'
      BY <1>16, <1>i DEF AnnounceLock, TypeOK, LockInv, WorkerInv, FieldInv, Busy
    <2>4. ASSUME NEW d \in Calls
          PROVE  CallInv(d)'
      BY <1>16, <1>i, <1>j, <1>t DEF AnnounceLock, TypeOK, WorkerInv, CallInv, Busy, Answers, NoResult
    <2> QED
      BY <1>t, <2>1, <2>2, <2>3, <2>4 DEF IInv
  <1>17. ASSUME NEW x \in Closes, Lock(x)
        PROVE  IInv'
    <2>1. LockInv'
      BY <1>17, <1>i DEF Lock, TypeOK, LockInv, FieldInv
    <2>2. WorkerInv'
      BY <1>17, <1>i, <1>t DEF Lock, TypeOK, LockInv, WorkerInv, FieldInv, Busy
    <2>3. FieldInv'
      BY <1>17, <1>i DEF Lock, TypeOK, LockInv, WorkerInv, FieldInv, Busy
    <2>4. ASSUME NEW d \in Calls
          PROVE  CallInv(d)'
      BY <1>17, <1>i, <1>j, <1>t DEF Lock, TypeOK, WorkerInv, CallInv, Busy, Answers, NoResult
    <2> QED
      BY <1>t, <2>1, <2>2, <2>3, <2>4 DEF IInv
  <1>18. ASSUME NEW x \in Closes, CloseQuery(x)
        PROVE  IInv'
    <2>1. LockInv'
      BY <1>18, <1>i DEF CloseQuery, TypeOK, LockInv, FieldInv
    <2>2. WorkerInv'
      BY <1>18, <1>i, <1>t DEF CloseQuery, TypeOK, LockInv, WorkerInv, FieldInv, Busy
    <2>3. FieldInv'
      BY <1>18, <1>i DEF CloseQuery, TypeOK, LockInv, WorkerInv, FieldInv, Busy
    <2>4. ASSUME NEW d \in Calls
          PROVE  CallInv(d)'
      BY <1>18, <1>i, <1>j, <1>t DEF CloseQuery, TypeOK, WorkerInv, CallInv, Busy, Answers, NoResult
    <2> QED
      BY <1>t, <2>1, <2>2, <2>3, <2>4 DEF IInv
  <1>19. ASSUME NEW x \in Closes, CloseChannels(x)
        PROVE  IInv'
    <2>1. LockInv'
      BY <1>19, <1>i DEF CloseChannels, TypeOK, LockInv, FieldInv
    <2>2. WorkerInv'
      BY <1>19, <1>i, <1>t DEF CloseChannels, TypeOK, LockInv, WorkerInv, FieldInv, Busy
    <2>3. FieldInv'
      BY <1>19, <1>i DEF CloseChannels, TypeOK, LockInv, WorkerInv, FieldInv, Busy
    <2>4. ASSUME NEW d \in Calls
          PROVE  CallInv(d)'
      BY <1>19, <1>i, <1>j, <1>t, SMTT(30) DEF CloseChannels, TypeOK, WorkerInv, CallInv, Busy, Answers, NoResult
    <2> QED
      BY <1>t, <2>1, <2>2, <2>3, <2>4 DEF IInv
  <1>20. CASE UNCHANGED vars
    BY <1>i, <1>j, <1>t, <1>20
       DEF vars, IInv, LockInv, WorkerInv, FieldInv, CallInv, Busy
  <1> QED
    BY <1>1, <1>2, <1>3, <1>4, <1>5, <1>6, <1>7, <1>8, <1>9, <1>10, <1>11, <1>12, <1>13, <1>14, <1>15, <1>16, <1>17, <1>18, <1>19, <1>20
       DEF Next, New, Collect, Worker, Close, AllReturned

\* The invariant holds in every behaviour of the collector.
LEMMA IInvAlways == Spec => []IInv
  BY InitIInv, IInvInductive, PTL DEF Spec

-----------------------------------------------------------------------------
(* The theorems.                                                           *)

\* The collector's fields, its mutex, its worker and its calls keep their types
\* (collector.go, Collect, Close and collectRoutine).
THEOREM TypeCorrect == Spec => []TypeOK
  <1>1. IInv => TypeOK
    BY DEF IInv
  <1> QED
    BY IInvAlways, <1>1, PTL

\* No caller gets another caller's answer, however many share errorCh, and a Collect
\* that succeeds returns rows of a sample taken during the call
\* (collector.go:285-287, 302, 447).
THEOREM AnswersAreOwn == Spec => []OwnAnswer
  <1>1. IInv => OwnAnswer
    <2>1. ASSUME IInv, NEW c \in Calls, result[c] # NoResult
          PROVE  result[c].of = c
      BY <2>1, CallsAssumption, SMTT(30) DEF IInv, CallInv, TypeOK, LockInv
    <2>2. ASSUME IInv, NEW c \in Calls, result[c].answer \in {"nil", "noData"}
          PROVE  dst[c] > began[c]
      BY <2>2 DEF IInv, CallInv
    <2> QED
      BY <2>1, <2>2 DEF OwnAnswer
  <1> QED
    BY IInvAlways, <1>1, PTL

\* The worker never touches a closed query or a closed or nil errorCh
\* (collector.go:302, 447, 595-608).
THEOREM QueryOpenWhileUsed == Spec => []NoUseAfterClose
  <1>1. IInv => NoUseAfterClose
    BY DEF IInv, WorkerInv, FieldInv, Busy, NoUseAfterClose, TypeOK
  <1> QED
    BY IInvAlways, <1>1, PTL

\* After Close has returned the collector stays closed (collector.go:281,
\* 599-608).
THEOREM CloseIsFinal == Spec => []ClosedForGood
  <1>1. IInv => ClosedForGood
    BY DEF IInv, FieldInv, WorkerInv, ClosedForGood
  <1> QED
    BY IInvAlways, <1>1, PTL

\* The worker does not write to the slice of a call that has been answered
\* (collector.go:321-449).
THEOREM SliceReturned == Spec => SliceIsCallersAgain
  <1>1. ASSUME IInv, [Next]_vars
        PROVE  [\A c \in Calls : pc[c] \in {"unlock", "done"} => dst'[c] = dst[c]]_vars
    <2> SUFFICES ASSUME NEW c \in Calls, pc[c] \in {"unlock", "done"}
                 PROVE  dst'[c] = dst[c]
      OBVIOUS
    <2> USE DEF muVars, fieldVars, workerVars, callVars
    <2>1. CASE Fill
      BY <1>1, <2>1 DEF Fill, IInv, WorkerInv, Busy, TypeOK
    <2>2. CASE ~Fill
      <3>1. dst' = dst
        BY <1>1, <2>2, ZenonT(30)
           DEF Next, New, NewReady, NewBroken, NewNil, Collect, CollectNil, RLock,
               CheckFails, CheckPasses, SendData, ReceiveError, RUnlock, Worker,
               Query, QueryFails, WorkerExits, Close, CloseNil, AnnounceLock, Lock,
               CloseQuery, CloseChannels, AllReturned, vars
      <3> QED
        BY <3>1, SMTT(30)
    <2> QED
      BY <2>1, <2>2
  <1> QED
    BY IInvAlways, <1>1, PTL DEF Spec, SliceIsCallersAgain

\* A circle of waiting calls would need the worker: it is there while the channels
\* are, and what it waits for is the very call that waits for it
\* (collector.go:278-287, 300, 447, 592).
THEOREM NobodyIsStuck == Spec => []NoCircularWait
  <1>1. ASSUME IInv, NEW c \in Calls, pc[c] \in {"check", "send", "receive", "unlock"}
        PROVE  worker \in {"query", "fill"} \/ \E d \in InProgress : CanGoOn(d)
    <2>i. TypeOK /\ WorkerInv /\ FieldInv
      BY <1>1 DEF IInv
    <2>1. c \in InProgress
      BY <1>1 DEF InProgress
    <2>2. ASSUME worker = "reply"
          PROVE  job \in InProgress /\ CanGoOn(job)
      BY <2>i, <2>2 DEF WorkerInv, Busy, InProgress, CanGoOn
    <2>3. CASE pc[c] \in {"check", "unlock"}
      BY <2>1, <2>3 DEF CanGoOn
    <2>4. CASE pc[c] \in {"send", "receive"}
      <3>1. chans = "open" /\ ~closed /\ worker \in {"range", "query", "fill", "reply"}
        BY <2>4, <2>i DEF TypeOK, WorkerInv, FieldInv
      <3>2. ASSUME worker = "range"
            PROVE  CanGoOn(c)
        BY <2>4, <3>1, <3>2, <2>i DEF CanGoOn, WorkerInv, Busy
      <3> QED
        BY <2>1, <2>2, <3>1, <3>2
    <2> QED
      BY <1>1, <2>3, <2>4
  <1>2. ASSUME IInv, InProgress # {}
        PROVE  worker \in {"query", "fill"} \/ \E d \in InProgress : CanGoOn(d)
    <2>i. TypeOK /\ LockInv
      BY <1>2 DEF IInv
    <2>1. PICK c \in Calls \cup Closes : pc[c] \notin {"idle", "done"}
      BY <1>2 DEF InProgress
    <2>2. CASE c \in Calls
      BY <1>1, <1>2, <2>1, <2>2, <2>i DEF TypeOK, LockInv
    <2>3. CASE c \in Closes
      <3>1. c \in InProgress
        BY <2>1 DEF InProgress
      <3>2. pc[c] \in {"lock", "close", "channels"}
        BY <2>1, <2>3, <2>i DEF TypeOK, LockInv
      <3>3. CASE readers = {} \/ pc[c] # "lock"
        BY <3>1, <3>2, <3>3 DEF CanGoOn
      <3>4. CASE readers # {}
        BY <1>1, <1>2, <2>i, <3>4 DEF LockInv
      <3> QED
        BY <3>3, <3>4
    <2> QED
      BY <2>1, <2>2, <2>3
  <1>3. ASSUME IInv, {pending, writer} # {None}
        PROVE  {pending, writer} \cap InProgress # {}
    <2>1. PICK x \in Closes : x \in {pending, writer}
      BY <1>3 DEF IInv, TypeOK
    <2>2. pc[x] \in {"lock", "close", "channels"}
      BY <1>3, <2>1 DEF IInv, LockInv
    <2> QED
      BY <2>1, <2>2 DEF InProgress
  <1>4. IInv => NoCircularWait
    BY <1>2, <1>3, Zenon DEF NoCircularWait
  <1> QED
    BY IInvAlways, <1>4, PTL

-----------------------------------------------------------------------------
(* Refinement: the answers of the calls and the opening and closing of the *)
(* collector happen as in PdhService.                                      *)

\* Only a call of its own changes a reply.
LEMMA ReplyStep ==
  ASSUME TypeOK, NEW c \in Calls, NEW o, NEW a,
         result' = [result EXCEPT ![c] = [of |-> o, answer |-> a]]
  PROVE  [d \in Calls |-> result[d].answer]'
           = [[d \in Calls |-> result[d].answer] EXCEPT ![c] = a]
  BY Zenon DEF TypeOK

\* A step of the collector is a step of PdhService or leaves its state alone.
LEMMA StepRefines == IInv /\ [Next]_vars => [Atomic!ANext]_(Atomic!avars)
  <1> SUFFICES ASSUME IInv, [Next]_vars
               PROVE  Atomic!ANext \/ UNCHANGED Atomic!avars
    OBVIOUS
  <1> USE CallsAssumption DEF muVars, fieldVars, workerVars, callVars
  <1>i. TypeOK /\ LockInv /\ WorkerInv /\ FieldInv
    BY DEF IInv
  <1>j. \A d \in Calls : CallInv(d)
    BY DEF IInv
  <1>n. NoResult.answer = "none"
    BY DEF NoResult
  <1>1. ASSUME NewReady \/ NewBroken \/ NewNil
        PROVE  Atomic!Construct
    BY <1>1 DEF NewReady, NewBroken, NewNil, Atomic!Construct
  <1>2. ASSUME NEW c \in Calls, CollectNil(c) \/ CheckFails(c)
        PROVE  Atomic!Refuse(c)
    <2>1. result' = [result EXCEPT ![c] = [of |-> c, answer |-> "notInitialized"]]
      BY <1>2 DEF CollectNil, CheckFails, Finish
    <2>2. [d \in Calls |-> result[d].answer]'
            = [[d \in Calls |-> result[d].answer] EXCEPT ![c] = "notInitialized"]
      BY <2>1, <1>i, ReplyStep, Zenon
    <2>3. result[c].answer = "none"
      BY <1>2, <1>j, <1>n DEF CollectNil, CheckFails, CallInv
    <2>4. new # "none" /\ ~(handle = "open" /\ chans = "open") /\ UNCHANGED <<new, handle, chans>>
      BY <1>2, <1>i DEF CollectNil, CheckFails, FieldInv
    <2> QED
      BY <2>2, <2>3, <2>4 DEF Atomic!Refuse
  <1>3. ASSUME NEW c \in Calls, ReceiveError(c)
        PROVE  Atomic!Answer(c)
    <2>1. result' = [result EXCEPT ![c] = [of |-> job, answer |-> answer]]
      BY <1>3 DEF ReceiveError
    <2>2. [d \in Calls |-> result[d].answer]'
            = [[d \in Calls |-> result[d].answer] EXCEPT ![c] = answer]
      BY <2>1, <1>i, ReplyStep, Zenon
    <2>3. result[c].answer = "none"
      BY <1>3, <1>j, <1>n DEF ReceiveError, CallInv
    <2>4. answer \in {"nil", "noData", "error"}
      BY <1>i DEF TypeOK, Answers
    <2>5. handle = "open" /\ chans = "open" /\ UNCHANGED <<new, handle, chans>>
      BY <1>3, <1>i DEF ReceiveError, WorkerInv
    <2> QED
      BY <2>2, <2>3, <2>4, <2>5, Zenon DEF Atomic!Answer
  <1>4. ASSUME NEW x \in Closes, CloseQuery(x)
        PROVE  Atomic!Shut \/ UNCHANGED Atomic!avars
    BY <1>4, <1>i, SMTT(30) DEF CloseQuery, Atomic!Shut, Atomic!avars, TypeOK
  <1>5. ASSUME NEW x \in Closes, CloseChannels(x)
        PROVE  UNCHANGED Atomic!avars
    BY <1>5, <1>i, SMTT(30) DEF CloseChannels, Atomic!avars, FieldInv
  <1>6. ASSUME NEW x \in Closes, CloseNil(x) \/ AnnounceLock(x) \/ Lock(x)
        PROVE  UNCHANGED Atomic!avars
    BY <1>6, SMTT(30) DEF CloseNil, AnnounceLock, Lock, Atomic!avars
  <1>7. ASSUME NEW c \in Calls, RLock(c) \/ CheckPasses(c) \/ SendData(c) \/ RUnlock(c)
        PROVE  UNCHANGED Atomic!avars
    BY <1>7, SMTT(30) DEF RLock, CheckPasses, SendData, RUnlock, Atomic!avars
  <1>8. ASSUME Worker
        PROVE  UNCHANGED Atomic!avars
    BY <1>8 DEF Worker, Query, QueryFails, Fill, WorkerExits, Atomic!avars
  <1>9. CASE UNCHANGED vars
    BY <1>9 DEF vars, Atomic!avars
  <1> QED
    BY <1>1, <1>2, <1>3, <1>4, <1>5, <1>6, <1>7, <1>8, <1>9
       DEF Next, New, Collect, Close, AllReturned, Atomic!ANext

\* The collector answers every Collect as if it handled one call at a time, at
\* one instant between the call and its return (collector.go:273-288, 587-609).
THEOREM CollectorIsAtomic == Spec => ImplementsAtomic
  <1>1. Init => Atomic!AInit
    BY DEF Init, NoResult, Atomic!AInit
  <1> QED
    BY <1>1, IInvAlways, StepRefines, PTL DEF Spec, ImplementsAtomic, Atomic!ASpec
===============================================================================
