---------------------------- MODULE ScrapeProofs ----------------------------
(***************************************************************************)
(* Proofs about Scrape, for any number of requests, collectors and metrics *)
(* and any capacity of bufCh.                                              *)
(***************************************************************************)
EXTENDS Scrape, TLAPS

\* The metric that the forwarder has taken from bufCh and not yet dealt with.
Held(k) == IF forward[k] \in {"check", "send"} THEN 1 ELSE 0

\* An empty buffer and an idle forwarder leave what has been delivered.
LEMMA NothingElse == \A n \in Nat : 0 + 0 + n = n
  OBVIOUS

\* The mutex is held by exactly the request that is inside collectAll.
MutexInv ==
  \A r \in Requests :
    request[r] \in {"collecting", "emitted"} <=> concurrencyMu = r

\* How a run follows its request.
FollowInv(k) ==
  /\ request[k[1]] \in {"idle", "rejected", "waiting"} => main[k] = "off"
  /\ request[k[1]] \in {"emitted", "returned", "closed"} => main[k] \in {"off", "done"}
  /\ request[k[1]] \notin {"idle", "rejected", "waiting"} /\ k[2] \in enabled[k[1]]
       => main[k] # "off"
  /\ main[k] # "off" => k[2] \in enabled[k[1]]

\* How the goroutines of one run follow each other.
RunInv(k) ==
  /\ main[k] = "off" => /\ collect[k] = "off" /\ forward[k] = "off"
                        /\ bufCh[k] = 0 /\ produced[k] = 0 /\ delivered[k] = 0
                        /\ late[k] = 0 /\ ~timeout[k] /\ ctx[k] = "live"
  /\ main[k] # "off" => collect[k] # "off" /\ forward[k] # "off"
  /\ status[k] = "none" <=> main[k] # "done"
  /\ main[k] \in {"off", "select", "store", "abandon"} => err[k] = "none"
  /\ errCh[k] # "empty" \/ err[k] # "none" => collect[k] \in {"closing", "done"}
  /\ status[k] \in {"success", "failed"} => forward[k] = "done" /\ err[k] # "none"
  /\ main[k] = "wait" => err[k] # "none"
  /\ status[k] = "pending" => timeout[k] /\ err[k] = "none"
  /\ timeout[k] => ctx[k] = "expired" /\ main[k] \in {"abandon", "done"}
  /\ main[k] \in {"store", "abandon"} => ctx[k] = "expired"
  /\ main[k] = "abandon" => timeout[k]
  /\ bufClosed[k] <=> collect[k] = "done"
  /\ ctx[k] = "cancelled" => status[k] \in {"success", "failed"}
  /\ drain[k] # "off" <=> status[k] = "pending"
  /\ drain[k] = "done" => bufClosed[k]
  /\ late[k] <= 1
  /\ forward[k] = "send" => late[k] = 0
  /\ ~timeout[k] => late[k] = 0
  /\ ctx[k] # "expired" =>
       /\ produced[k] = bufCh[k] + Held(k) + delivered[k]
       /\ forward[k] = "done" => bufCh[k] = 0 /\ bufClosed[k]

IInv ==
  /\ TypeOK
  /\ MutexInv
  /\ \A k \in Run : FollowInv(k) /\ RunInv(k)

-----------------------------------------------------------------------------
\* The invariant holds before the first request.
LEMMA InitIInv == Init => IInv
  BY ConstantsAssumption, SMTT(30) DEF Init, IInv, TypeOK, MutexInv, FollowInv, RunInv, Run, Held, Errors

\* Every step of every goroutine keeps the types (all of collect.go and
\* handler.go); kept apart because the step proofs below need the type of both states.
LEMMA TypeInductive == TypeOK /\ [Next]_vars => TypeOK'
  <1> SUFFICES ASSUME TypeOK, [Next]_vars
               PROVE  TypeOK'
    OBVIOUS
  <1> USE ConstantsAssumption DEF TypeOK, Run, reqVars, mainVars, chanVars, goVars, countVars
  <1>1. ASSUME NEW r \in Requests, NewHandler(r)
        PROVE  TypeOK'
    BY <1>1 DEF NewHandler
  <1>2. ASSUME NEW r \in Requests, NewHandlerFails(r)
        PROVE  TypeOK'
    BY <1>2, Zenon DEF NewHandlerFails
  <1>3. ASSUME NEW r \in Requests, LockAndStart(r)
        PROVE  TypeOK'
    BY <1>3, Zenon DEF LockAndStart, RunsOf
  <1>4. ASSUME NEW r \in Requests, EmitStatuses(r)
        PROVE  TypeOK'
    <2> DEFINE x(c) == [name |-> c,
                        success |-> status[<<r, c>>] = "success",
                        timeout |-> status[<<r, c>>] = "pending"]
    <2>1. \A c \in enabled[r] : x(c) \in [name : Collectors, success : BOOLEAN,
                                         timeout : BOOLEAN]
      OBVIOUS
    <2>2. /\ request' = [request EXCEPT ![r] = "emitted"]
          /\ exposed' = [exposed EXCEPT ![r] = {x(c) : c \in enabled[r]}]
          /\ UNCHANGED <<enabled, concurrencyMu, mainVars, chanVars, goVars,
                         countVars>>
      BY <1>4, Zenon DEF EmitStatuses
    <2> HIDE DEF x
    <2>3. {x(c) : c \in enabled[r]} \in SUBSET [name : Collectors,
                                               success : BOOLEAN, timeout : BOOLEAN]
      BY <2>1
    <2> QED
      BY <2>2, <2>3, Zenon
  <1>5. ASSUME NEW r \in Requests, Unlock(r)
        PROVE  TypeOK'
    BY <1>5, Zenon DEF Unlock
  <1>6. ASSUME NEW r \in Requests, RegistryCloses(r)
        PROVE  TypeOK'
    BY <1>6, Zenon DEF RegistryCloses
  <1>7. ASSUME NEW k \in Run, Expire(k)
        PROVE  TypeOK'
    BY <1>7, Zenon DEF Expire
  <1>8. ASSUME NEW k \in Run, ReceiveErr(k)
        PROVE  TypeOK'
    BY <1>8, Zenon DEF ReceiveErr, Errors
  <1>9. ASSUME NEW k \in Run, ReturnStatus(k)
        PROVE  TypeOK'
    BY <1>9 DEF ReturnStatus, StatusOf, Tolerated
  <1>10. ASSUME NEW k \in Run, ReceiveDone(k)
        PROVE  TypeOK'
    BY <1>10, Zenon DEF ReceiveDone
  <1>11. ASSUME NEW k \in Run, StoreTimeout(k)
        PROVE  TypeOK'
    BY <1>11, Zenon DEF StoreTimeout
  <1>12. ASSUME NEW k \in Run, Abandon(k)
        PROVE  TypeOK'
    BY <1>12, Zenon DEF Abandon
  <1>13a. ASSUME NEW k \in Run, BeginSend(k)
        PROVE  TypeOK'
    BY <1>13a, Zenon DEF BeginSend
  <1>13. ASSUME NEW k \in Run, Produce(k)
        PROVE  TypeOK'
    BY <1>13 DEF Produce
  <1>14. ASSUME NEW k \in Run, CollectReturns(k)
        PROVE  TypeOK'
    BY <1>14 DEF CollectReturns, Errors
  <1>15. ASSUME NEW k \in Run, CloseBuf(k)
        PROVE  TypeOK'
    BY <1>15, Zenon DEF CloseBuf
  <1>16. ASSUME NEW k \in Run, ForwardDone(k)
        PROVE  TypeOK'
    BY <1>16, Zenon DEF ForwardDone
  <1>17. ASSUME NEW k \in Run, ForwardReceive(k)
        PROVE  TypeOK'
    BY <1>17 DEF ForwardReceive
  <1>18. ASSUME NEW k \in Run, ForwardClosed(k)
        PROVE  TypeOK'
    BY <1>18, Zenon DEF ForwardClosed
  <1>19. ASSUME NEW k \in Run, ForwardCheck(k)
        PROVE  TypeOK'
    BY <1>19, Zenon DEF ForwardCheck
  <1>20. ASSUME NEW k \in Run, ForwardSend(k)
        PROVE  TypeOK'
    BY <1>20 DEF ForwardSend
  <1>21. ASSUME NEW k \in Run, ForwardPanic(k)
        PROVE  TypeOK'
    BY <1>21, Zenon DEF ForwardPanic
  <1>22. ASSUME NEW k \in Run, DrainReceive(k)
        PROVE  TypeOK'
    BY <1>22 DEF DrainReceive
  <1>23. ASSUME NEW k \in Run, DrainClosed(k)
        PROVE  TypeOK'
    BY <1>23, Zenon DEF DrainClosed
  <1>24. CASE UNCHANGED vars
    BY <1>24, Zenon DEF vars
  <1> QED
    BY <1>1, <1>2, <1>3, <1>4, <1>5, <1>6, <1>7, <1>8, <1>9, <1>10, <1>11, <1>12, <1>13, <1>13a, <1>14, <1>15, <1>16, <1>17, <1>18, <1>19, <1>20, <1>21, <1>22, <1>23, <1>24, ZenonT(30)
       DEF Next, Handler, Caller, Collector, Forwarder, Drainer, Terminated

\* Every step of every goroutine keeps the invariant.
LEMMA IInvInductive == IInv /\ [Next]_vars => IInv'
  <1> SUFFICES ASSUME IInv, [Next]_vars
               PROVE  IInv'
    OBVIOUS
  <1> USE ConstantsAssumption DEF reqVars, mainVars, chanVars, goVars, countVars
  <1>t. TypeOK'
    BY TypeInductive DEF IInv
  <1>i. TypeOK /\ MutexInv
    BY DEF IInv
  <1>j. \A k \in Run : FollowInv(k) /\ RunInv(k)
    BY DEF IInv
  <1>p. \A k \in Run : k[1] \in Requests /\ k[2] \in Collectors /\ k = <<k[1], k[2]>>
    BY DEF Run
  <1>1. ASSUME NEW r \in Requests, NewHandler(r)
        PROVE  IInv'
    <2>1. MutexInv'
      BY <1>1, <1>i DEF NewHandler, MutexInv, TypeOK
    <2>2. ASSUME NEW j \in Run
          PROVE  FollowInv(j)'
      BY <1>1, <1>i, <1>j, <1>p, SMTT(30) DEF NewHandler, FollowInv, TypeOK
    <2>3. ASSUME NEW j \in Run
          PROVE  RunInv(j)'
      BY <1>1, <1>j DEF NewHandler, RunInv, Held
    <2> QED
      BY <1>t, <2>1, <2>2, <2>3 DEF IInv
  <1>2. ASSUME NEW r \in Requests, NewHandlerFails(r)
        PROVE  IInv'
    <2>1. MutexInv'
      BY <1>2, <1>i DEF NewHandlerFails, MutexInv, TypeOK
    <2>2. ASSUME NEW j \in Run
          PROVE  FollowInv(j)'
      BY <1>2, <1>i, <1>j, <1>p, SMTT(30) DEF NewHandlerFails, FollowInv, TypeOK
    <2>3. ASSUME NEW j \in Run
          PROVE  RunInv(j)'
      BY <1>2, <1>j DEF NewHandlerFails, RunInv, Held
    <2> QED
      BY <1>t, <2>1, <2>2, <2>3 DEF IInv
  <1>3. ASSUME NEW r \in Requests, LockAndStart(r)
        PROVE  IInv'
    <2>1. MutexInv'
      BY <1>3, <1>i DEF LockAndStart, MutexInv, TypeOK
    <2>2. ASSUME NEW j \in Run
          PROVE  FollowInv(j)'
      BY <1>3, <1>i, <1>j, <1>p, SMTT(30) DEF LockAndStart, RunsOf, FollowInv, TypeOK
    <2>3. ASSUME NEW j \in Run
          PROVE  RunInv(j)'
      BY <1>3, <1>i, <1>j, <1>p, SMTT(30) DEF LockAndStart, RunsOf, FollowInv, RunInv, Held, TypeOK
    <2> QED
      BY <1>t, <2>1, <2>2, <2>3 DEF IInv
  <1>4. ASSUME NEW r \in Requests, EmitStatuses(r)
        PROVE  IInv'
    <2>1. MutexInv'
      BY <1>4, <1>i DEF EmitStatuses, MutexInv, TypeOK
    <2>2. ASSUME NEW j \in Run
          PROVE  FollowInv(j)'
      BY <1>4, <1>i, <1>j, <1>p, SMTT(30) DEF EmitStatuses, RunsOf, FollowInv, TypeOK
    <2>3. ASSUME NEW j \in Run
          PROVE  RunInv(j)'
      BY <1>4, <1>j DEF EmitStatuses, RunInv, Held
    <2> QED
      BY <1>t, <2>1, <2>2, <2>3 DEF IInv
  <1>5. ASSUME NEW r \in Requests, Unlock(r)
        PROVE  IInv'
    <2>1. MutexInv'
      BY <1>5, <1>i DEF Unlock, MutexInv, TypeOK
    <2>2. ASSUME NEW j \in Run
          PROVE  FollowInv(j)'
      BY <1>5, <1>i, <1>j, <1>p, SMTT(30) DEF Unlock, FollowInv, TypeOK
    <2>3. ASSUME NEW j \in Run
          PROVE  RunInv(j)'
      BY <1>5, <1>j DEF Unlock, RunInv, Held
    <2> QED
      BY <1>t, <2>1, <2>2, <2>3 DEF IInv
  <1>6. ASSUME NEW r \in Requests, RegistryCloses(r)
        PROVE  IInv'
    <2>1. MutexInv'
      BY <1>6, <1>i DEF RegistryCloses, MutexInv, TypeOK
    <2>2. ASSUME NEW j \in Run
          PROVE  FollowInv(j)'
      BY <1>6, <1>i, <1>j, <1>p, SMTT(30) DEF RegistryCloses, FollowInv, TypeOK
    <2>3. ASSUME NEW j \in Run
          PROVE  RunInv(j)'
      BY <1>6, <1>j DEF RegistryCloses, RunInv, Held
    <2> QED
      BY <1>t, <2>1, <2>2, <2>3 DEF IInv
  <1>7. ASSUME NEW k \in Run, Expire(k)
        PROVE  IInv'
    <2>1. MutexInv'
      BY <1>7, <1>i, Zenon DEF Expire, MutexInv, TypeOK
    <2>2. ASSUME NEW j \in Run
          PROVE  FollowInv(j)'
      BY <1>7, <1>i, <1>j, <1>p, Zenon DEF Expire, FollowInv, RunInv, TypeOK
    <2>3. ASSUME NEW j \in Run
          PROVE  RunInv(j)'
      <3>0. RunInv(j)
        BY <1>j, SMTT(30)
      <3>1. CASE j = k
        BY <1>7, <1>i, <1>t, <3>0, <3>1, SMTT(30) DEF Expire, RunInv, Held, TypeOK
      <3>2. CASE j # k
        BY <1>7, <1>i, <3>0, <3>2 DEF Expire, RunInv, Held, TypeOK
      <3> QED
        BY <3>1, <3>2
    <2> QED
      BY <1>t, <2>1, <2>2, <2>3 DEF IInv
  <1>8. ASSUME NEW k \in Run, ReceiveErr(k)
        PROVE  IInv'
    <2>1. MutexInv'
      BY <1>8, <1>i, Zenon DEF ReceiveErr, MutexInv, TypeOK
    <2>2. ASSUME NEW j \in Run
          PROVE  FollowInv(j)'
      BY <1>8, <1>i, <1>j, <1>p, SMTT(30) DEF ReceiveErr, FollowInv, RunInv, TypeOK
    <2>3. ASSUME NEW j \in Run
          PROVE  RunInv(j)'
      <3>0. RunInv(j)
        BY <1>j
      <3>1. CASE j = k
        BY <1>8, <1>i, <1>t, <3>0, <3>1, SMTT(30) DEF ReceiveErr, Errors, RunInv, Held, TypeOK
      <3>2. CASE j # k
        BY <1>8, <1>i, <3>0, <3>2 DEF ReceiveErr, RunInv, Held, TypeOK
      <3> QED
        BY <3>1, <3>2
    <2> QED
      BY <1>t, <2>1, <2>2, <2>3 DEF IInv
  <1>9. ASSUME NEW k \in Run, ReturnStatus(k)
        PROVE  IInv'
    <2>1. MutexInv'
      BY <1>9, <1>i, SMTT(30) DEF ReturnStatus, MutexInv, TypeOK
    <2>2. ASSUME NEW j \in Run
          PROVE  FollowInv(j)'
      BY <1>9, <1>i, <1>j, <1>p, SMTT(30) DEF ReturnStatus, FollowInv, RunInv, TypeOK
    <2>3. ASSUME NEW j \in Run
          PROVE  RunInv(j)'
      <3>0. RunInv(j)
        BY <1>j
      <3>1. CASE j = k
        BY <1>9, <1>i, <1>t, <3>0, <3>1, SMTT(30) DEF ReturnStatus, StatusOf, RunInv, Held, TypeOK
      <3>2. CASE j # k
        BY <1>9, <1>i, <3>0, <3>2 DEF ReturnStatus, RunInv, Held, TypeOK
      <3> QED
        BY <3>1, <3>2
    <2> QED
      BY <1>t, <2>1, <2>2, <2>3 DEF IInv
  <1>10. ASSUME NEW k \in Run, ReceiveDone(k)
        PROVE  IInv'
    <2>1. MutexInv'
      BY <1>10, <1>i, Zenon DEF ReceiveDone, MutexInv, TypeOK
    <2>2. ASSUME NEW j \in Run
          PROVE  FollowInv(j)'
      BY <1>10, <1>i, <1>j, <1>p, SMTT(30) DEF ReceiveDone, FollowInv, RunInv, TypeOK
    <2>3. ASSUME NEW j \in Run
          PROVE  RunInv(j)'
      <3>0. RunInv(j)
        BY <1>j
      <3>1. CASE j = k
        BY <1>10, <1>i, <1>t, <3>0, <3>1, SMTT(30) DEF ReceiveDone, RunInv, Held, TypeOK
      <3>2. CASE j # k
        BY <1>10, <1>i, <3>0, <3>2 DEF ReceiveDone, RunInv, Held, TypeOK
      <3> QED
        BY <3>1, <3>2
    <2> QED
      BY <1>t, <2>1, <2>2, <2>3 DEF IInv
  <1>11. ASSUME NEW k \in Run, StoreTimeout(k)
        PROVE  IInv'
    <2>1. MutexInv'
      BY <1>11, <1>i, Zenon DEF StoreTimeout, MutexInv, TypeOK
    <2>2. ASSUME NEW j \in Run
          PROVE  FollowInv(j)'
      BY <1>11, <1>i, <1>j, <1>p, SMTT(30) DEF StoreTimeout, FollowInv, RunInv, TypeOK
    <2>3. ASSUME NEW j \in Run
          PROVE  RunInv(j)'
      <3>0. RunInv(j)
        BY <1>j
      <3>1. CASE j = k
        BY <1>11, <1>i, <1>t, <3>0, <3>1, SMTT(30) DEF StoreTimeout, RunInv, Held, TypeOK
      <3>2. CASE j # k
        BY <1>11, <1>i, <3>0, <3>2 DEF StoreTimeout, RunInv, Held, TypeOK
      <3> QED
        BY <3>1, <3>2
    <2> QED
      BY <1>t, <2>1, <2>2, <2>3 DEF IInv
  <1>12. ASSUME NEW k \in Run, Abandon(k)
        PROVE  IInv'
    <2>1. MutexInv'
      BY <1>12, <1>i, SMTT(30) DEF Abandon, MutexInv, TypeOK
    <2>2. ASSUME NEW j \in Run
          PROVE  FollowInv(j)'
      BY <1>12, <1>i, <1>j, <1>p, SMTT(30) DEF Abandon, FollowInv, RunInv, TypeOK
    <2>3. ASSUME NEW j \in Run
          PROVE  RunInv(j)'
      <3>0. RunInv(j)
        BY <1>j
      <3>1. CASE j = k
        BY <1>12, <1>i, <1>t, <3>0, <3>1, SMTT(30) DEF Abandon, RunInv, Held, TypeOK
      <3>2. CASE j # k
        BY <1>12, <1>i, <3>0, <3>2 DEF Abandon, RunInv, Held, TypeOK
      <3> QED
        BY <3>1, <3>2
    <2> QED
      BY <1>t, <2>1, <2>2, <2>3 DEF IInv
  <1>13a. ASSUME NEW k \in Run, BeginSend(k)
        PROVE  IInv'
    <2>1. MutexInv'
      BY <1>13a, <1>i, Zenon DEF BeginSend, MutexInv, TypeOK
    <2>2. ASSUME NEW j \in Run
          PROVE  FollowInv(j)'
      BY <1>13a, <1>i, <1>j, <1>p, SMTT(30) DEF BeginSend, FollowInv, RunInv, TypeOK
    <2>3. ASSUME NEW j \in Run
          PROVE  RunInv(j)'
      <3>0. RunInv(j)
        BY <1>j
      <3>1. CASE j = k
        BY <1>13a, <1>i, <1>t, <3>0, <3>1, SMTT(40) DEF BeginSend, RunInv, Held, TypeOK
      <3>2. CASE j # k
        BY <1>13a, <1>i, <3>0, <3>2, SMTT(30) DEF BeginSend, RunInv, Held, TypeOK
      <3> QED
        BY <3>1, <3>2
    <2> QED
      BY <1>t, <2>1, <2>2, <2>3 DEF IInv
  <1>13. ASSUME NEW k \in Run, Produce(k)
        PROVE  IInv'
    <2>1. MutexInv'
      BY <1>13, <1>i, SMTT(30) DEF Produce, MutexInv, TypeOK
    <2>2. ASSUME NEW j \in Run
          PROVE  FollowInv(j)'
      BY <1>13, <1>i, <1>j, <1>p, SMTT(30) DEF Produce, FollowInv, RunInv, TypeOK
    <2>3. ASSUME NEW j \in Run
          PROVE  RunInv(j)'
      <3>0. RunInv(j)
        BY <1>j
      <3>1. CASE j = k
        <4>1. /\ collect[j] = "sending" /\ collect'[j] = "running"
              /\ bufCh'[j] = bufCh[j] + 1 /\ produced'[j] = produced[j] + 1
          BY <1>13, <1>i, <3>1, SMTT(30) DEF Produce, TypeOK
        <4>2. /\ main[j] # "off" /\ ~bufClosed[j] /\ Held(j)' = Held(j)
              /\ bufCh[j] \in Nat /\ produced[j] \in Nat /\ delivered[j] \in Nat
              /\ Held(j) \in Nat
          BY <1>13, <1>i, <3>0, <4>1, ConstantsAssumption DEF Produce, RunInv, Held, TypeOK
        <4>3. UNCHANGED <<main, ctx, timeout, err, status, errCh, bufClosed, forward,
                          drain, delivered, late>>
          BY <1>13, SMTT(30) DEF Produce, mainVars
        <4>4. ctx'[j] # "expired" =>
                /\ produced'[j] = bufCh'[j] + Held(j)' + delivered'[j]
                /\ forward'[j] # "done"
          BY <3>0, <4>1, <4>2, <4>3, SMTT(30) DEF RunInv
        <4>5. /\ main'[j] # "off"
              /\ collect'[j] \notin {"off", "closing", "done"}
              /\ errCh[j] = "empty" /\ err[j] = "none"
          BY <3>0, <4>1, <4>2, <4>3, SMTT(30) DEF RunInv
        <4> QED
          BY <3>0, <4>1, <4>2, <4>3, <4>4, <4>5, Zenon DEF RunInv
      <3>2. CASE j # k
        BY <1>13, <1>i, <3>0, <3>2 DEF Produce, RunInv, Held, TypeOK
      <3> QED
        BY <3>1, <3>2
    <2> QED
      BY <1>t, <2>1, <2>2, <2>3 DEF IInv
  <1>14. ASSUME NEW k \in Run, CollectReturns(k)
        PROVE  IInv'
    <2>1. MutexInv'
      BY <1>14, <1>i, SMTT(30) DEF CollectReturns, MutexInv, TypeOK
    <2>2. ASSUME NEW j \in Run
          PROVE  FollowInv(j)'
      BY <1>14, <1>i, <1>j, <1>p, SMTT(30) DEF CollectReturns, FollowInv, RunInv, TypeOK
    <2>3. ASSUME NEW j \in Run
          PROVE  RunInv(j)'
      <3>0. RunInv(j)
        BY <1>j
      <3>1. CASE j = k
        BY <1>14, <1>i, <1>t, <3>0, <3>1, SMTT(30) DEF CollectReturns, Errors, RunInv, Held, TypeOK
      <3>2. CASE j # k
        BY <1>14, <1>i, <3>0, <3>2 DEF CollectReturns, RunInv, Held, TypeOK
      <3> QED
        BY <3>1, <3>2
    <2> QED
      BY <1>t, <2>1, <2>2, <2>3 DEF IInv
  <1>15. ASSUME NEW k \in Run, CloseBuf(k)
        PROVE  IInv'
    <2>1. MutexInv'
      BY <1>15, <1>i, SMTT(30) DEF CloseBuf, MutexInv, TypeOK
    <2>2. ASSUME NEW j \in Run
          PROVE  FollowInv(j)'
      BY <1>15, <1>i, <1>j, <1>p, SMTT(30) DEF CloseBuf, FollowInv, RunInv, TypeOK
    <2>3. ASSUME NEW j \in Run
          PROVE  RunInv(j)'
      <3>0. RunInv(j)
        BY <1>j
      <3>1. CASE j = k
        BY <1>15, <1>i, <1>t, <3>0, <3>1, SMTT(40) DEF CloseBuf, RunInv, Held, TypeOK
      <3>2. CASE j # k
        BY <1>15, <1>i, <3>0, <3>2 DEF CloseBuf, RunInv, Held, TypeOK
      <3> QED
        BY <3>1, <3>2
    <2> QED
      BY <1>t, <2>1, <2>2, <2>3 DEF IInv
  <1>16. ASSUME NEW k \in Run, ForwardDone(k)
        PROVE  IInv'
    <2>1. MutexInv'
      BY <1>16, <1>i, SMTT(30) DEF ForwardDone, MutexInv, TypeOK
    <2>2. ASSUME NEW j \in Run
          PROVE  FollowInv(j)'
      BY <1>16, <1>i, <1>j, <1>p, SMTT(30) DEF ForwardDone, FollowInv, RunInv, TypeOK
    <2>3. ASSUME NEW j \in Run
          PROVE  RunInv(j)'
      <3>0. RunInv(j)
        BY <1>j
      <3>1. CASE j = k
        BY <1>16, <1>i, <1>t, <3>0, <3>1, SMTT(30) DEF ForwardDone, RunInv, Held, TypeOK
      <3>2. CASE j # k
        BY <1>16, <1>i, <3>0, <3>2, SMTT(30) DEF ForwardDone, RunInv, Held, TypeOK
      <3> QED
        BY <3>1, <3>2
    <2> QED
      BY <1>t, <2>1, <2>2, <2>3 DEF IInv
  <1>17. ASSUME NEW k \in Run, ForwardReceive(k)
        PROVE  IInv'
    <2>1. MutexInv'
      BY <1>17, <1>i, SMTT(30) DEF ForwardReceive, MutexInv, TypeOK
    <2>2. ASSUME NEW j \in Run
          PROVE  FollowInv(j)'
      BY <1>17, <1>i, <1>j, <1>p, SMTT(30) DEF ForwardReceive, FollowInv, RunInv, TypeOK
    <2>3. ASSUME NEW j \in Run
          PROVE  RunInv(j)'
      <3>0. RunInv(j)
        BY <1>j
      <3>1. CASE j = k
        BY <1>17, <1>i, <1>t, <3>0, <3>1, SMTT(40) DEF ForwardReceive, RunInv, Held, TypeOK
      <3>2. CASE j # k
        BY <1>17, <1>i, <3>0, <3>2 DEF ForwardReceive, RunInv, Held, TypeOK
      <3> QED
        BY <3>1, <3>2
    <2> QED
      BY <1>t, <2>1, <2>2, <2>3 DEF IInv
  <1>18. ASSUME NEW k \in Run, ForwardClosed(k)
        PROVE  IInv'
    <2>1. MutexInv'
      BY <1>18, <1>i, Zenon DEF ForwardClosed, MutexInv, TypeOK
    <2>2. ASSUME NEW j \in Run
          PROVE  FollowInv(j)'
      BY <1>18, <1>i, <1>j, <1>p, SMTT(30) DEF ForwardClosed, FollowInv, RunInv, TypeOK
    <2>3. ASSUME NEW j \in Run
          PROVE  RunInv(j)'
      <3>0. RunInv(j)
        BY <1>j
      <3>1. CASE j = k
        BY <1>18, <1>i, <1>t, <3>0, <3>1, SMTT(30) DEF ForwardClosed, RunInv, Held, TypeOK
      <3>2. CASE j # k
        BY <1>18, <1>i, <3>0, <3>2 DEF ForwardClosed, RunInv, Held, TypeOK
      <3> QED
        BY <3>1, <3>2
    <2> QED
      BY <1>t, <2>1, <2>2, <2>3 DEF IInv
  <1>19. ASSUME NEW k \in Run, ForwardCheck(k)
        PROVE  IInv'
    <2>1. MutexInv'
      BY <1>19, <1>i, Zenon DEF ForwardCheck, MutexInv, TypeOK
    <2>2. ASSUME NEW j \in Run
          PROVE  FollowInv(j)'
      BY <1>19, <1>i, <1>j, <1>p, SMTT(30) DEF ForwardCheck, FollowInv, RunInv, TypeOK
    <2>3. ASSUME NEW j \in Run
          PROVE  RunInv(j)'
      <3>0. RunInv(j)
        BY <1>j
      <3>1. CASE j = k
        BY <1>19, <1>i, <1>t, <3>0, <3>1, SMTT(30) DEF ForwardCheck, RunInv, Held, TypeOK
      <3>2. CASE j # k
        BY <1>19, <1>i, <3>0, <3>2, SMTT(30) DEF ForwardCheck, RunInv, Held, TypeOK
      <3> QED
        BY <3>1, <3>2
    <2> QED
      BY <1>t, <2>1, <2>2, <2>3 DEF IInv
  <1>20. ASSUME NEW k \in Run, ForwardSend(k)
        PROVE  IInv'
    <2>1. MutexInv'
      BY <1>20, <1>i, SMTT(30) DEF ForwardSend, MutexInv, TypeOK
    <2>2. ASSUME NEW j \in Run
          PROVE  FollowInv(j)'
      BY <1>20, <1>i, <1>j, <1>p, SMTT(30) DEF ForwardSend, FollowInv, RunInv, TypeOK
    <2>3. ASSUME NEW j \in Run
          PROVE  RunInv(j)'
      <3>0. RunInv(j)
        BY <1>j
      <3>1. CASE j = k
        BY <1>20, <1>i, <1>t, <3>0, <3>1, SMTT(40) DEF ForwardSend, ChClosed, RunInv, Held, TypeOK
      <3>2. CASE j # k
        BY <1>20, <1>i, <3>0, <3>2, SMTT(30) DEF ForwardSend, RunInv, Held, TypeOK
      <3> QED
        BY <3>1, <3>2
    <2> QED
      BY <1>t, <2>1, <2>2, <2>3 DEF IInv
  <1>21. ASSUME NEW k \in Run, ForwardPanic(k)
        PROVE  IInv'
    <2>1. MutexInv'
      BY <1>21, <1>i, SMTT(30) DEF ForwardPanic, MutexInv, TypeOK
    <2>2. ASSUME NEW j \in Run
          PROVE  FollowInv(j)'
      BY <1>21, <1>i, <1>j, <1>p, Zenon DEF ForwardPanic, FollowInv, RunInv, TypeOK
    <2>3. ASSUME NEW j \in Run
          PROVE  RunInv(j)'
      <3>0. FollowInv(j) /\ RunInv(j)
        BY <1>j, SMTT(30)
      <3>1. CASE j = k
        BY <1>21, <1>i, <1>t, <1>p, <3>0, <3>1, SMTT(40) DEF ForwardPanic, ChClosed, FollowInv, RunInv, Held, TypeOK
      <3>2. CASE j # k
        BY <1>21, <1>i, <3>0, <3>2, SMTT(30) DEF ForwardPanic, RunInv, Held, TypeOK
      <3> QED
        BY <3>1, <3>2
    <2> QED
      BY <1>t, <2>1, <2>2, <2>3 DEF IInv
  <1>22. ASSUME NEW k \in Run, DrainReceive(k)
        PROVE  IInv'
    <2>1. MutexInv'
      BY <1>22, <1>i, SMTT(30) DEF DrainReceive, MutexInv, TypeOK
    <2>2. ASSUME NEW j \in Run
          PROVE  FollowInv(j)'
      BY <1>22, <1>i, <1>j, <1>p, SMTT(30) DEF DrainReceive, FollowInv, RunInv, TypeOK
    <2>3. ASSUME NEW j \in Run
          PROVE  RunInv(j)'
      <3>0. RunInv(j)
        BY <1>j
      <3>1. CASE j = k
        BY <1>22, <1>i, <1>t, <3>0, <3>1, SMTT(30) DEF DrainReceive, RunInv, Held, TypeOK
      <3>2. CASE j # k
        BY <1>22, <1>i, <3>0, <3>2, SMTT(30) DEF DrainReceive, RunInv, Held, TypeOK
      <3> QED
        BY <3>1, <3>2
    <2> QED
      BY <1>t, <2>1, <2>2, <2>3 DEF IInv
  <1>23. ASSUME NEW k \in Run, DrainClosed(k)
        PROVE  IInv'
    <2>1. MutexInv'
      BY <1>23, <1>i, SMTT(30) DEF DrainClosed, MutexInv, TypeOK
    <2>2. ASSUME NEW j \in Run
          PROVE  FollowInv(j)'
      BY <1>23, <1>i, <1>j, <1>p, SMTT(30) DEF DrainClosed, FollowInv, RunInv, TypeOK
    <2>3. ASSUME NEW j \in Run
          PROVE  RunInv(j)'
      <3>0. RunInv(j)
        BY <1>j
      <3>1. CASE j = k
        BY <1>23, <1>i, <1>t, <3>0, <3>1, SMTT(30) DEF DrainClosed, RunInv, Held, TypeOK
      <3>2. CASE j # k
        BY <1>23, <1>i, <3>0, <3>2 DEF DrainClosed, RunInv, Held, TypeOK
      <3> QED
        BY <3>1, <3>2
    <2> QED
      BY <1>t, <2>1, <2>2, <2>3 DEF IInv
  <1>24. CASE UNCHANGED vars
    <2>1. MutexInv'
      BY <1>24, <1>i, ZenonT(30) DEF vars, MutexInv
    <2>2. ASSUME NEW j \in Run
          PROVE  FollowInv(j)' /\ RunInv(j)'
      BY <1>24, <1>j, ZenonT(30) DEF vars, FollowInv, RunInv, Held
    <2> QED
      BY <1>t, <2>1, <2>2, SMTT(30) DEF IInv
  <1> QED
    BY <1>1, <1>2, <1>3, <1>4, <1>5, <1>6, <1>7, <1>8, <1>9, <1>10, <1>11, <1>12, <1>13, <1>13a, <1>14, <1>15, <1>16, <1>17, <1>18, <1>19, <1>20, <1>21, <1>22, <1>23, <1>24, SMTT(30)
       DEF Next, Handler, Caller, Collector, Forwarder, Drainer, Terminated

\* Nothing but the goroutines' own steps reaches a state outside IInv.
LEMMA IInvAlways == Spec => []IInv
  BY InitIInv, IInvInductive, PTL DEF Spec

-----------------------------------------------------------------------------
(* The theorems.                                                           *)

\* The state of the scrape engine (collect.go, handler.go) keeps its type; in
\* particular bufCh never holds more than its capacity.
THEOREM TypeCorrect == Spec => []TypeOK
  <1>1. IInv => TypeOK
    BY DEF IInv
  <1> QED
    BY IInvAlways, <1>1, PTL

\* concurrencyMu lets one request at a time into collectAll (handler.go:67-71).
THEOREM ScrapesAreSerial == Spec => []OneScrapeAtATime
  <1>1. IInv => OneScrapeAtATime
    BY SMTT(30) DEF IInv, MutexInv, OneScrapeAtATime
  <1> QED
    BY IInvAlways, <1>1, PTL

\* Two Collect calls of one collector overlap only when one of them belongs to
\* a run that was given up as timed out (collect.go:184-204).
THEOREM OverlapNeedsTimeout == Spec => []OverlapOnlyAfterTimeout
  <1>1. IInv => OverlapOnlyAfterTimeout
    <2> SUFFICES ASSUME IInv,
                        NEW r \in Requests, NEW s \in Requests, NEW c \in Collectors,
                        r # s,
                        Collecting(<<r, c>>), Collecting(<<s, c>>)
                 PROVE  status[<<r, c>>] = "pending" \/ status[<<s, c>>] = "pending"
      BY Zenon DEF OverlapOnlyAfterTimeout
    <2>1. /\ <<r, c>> \in Run /\ FollowInv(<<r, c>>) /\ RunInv(<<r, c>>)
          /\ <<s, c>> \in Run /\ FollowInv(<<s, c>>) /\ RunInv(<<s, c>>)
      BY DEF IInv, Run
    <2>2. TypeOK /\ MutexInv
      BY SMTT(30) DEF IInv
    <2>3. main[<<r, c>>] = "done" \/ main[<<s, c>>] = "done"
      BY <2>1, <2>2, SMTT(40) DEF Collecting, MutexInv, FollowInv, RunInv, TypeOK
    <2> QED
      BY <2>1, <2>2, <2>3, SMTT(30) DEF Collecting, RunInv, TypeOK
  <1> QED
    BY IInvAlways, <1>1, PTL

\* A run that answers within its deadline has passed every metric of its
\* collector on to the registry (collect.go:141-175).
THEOREM NothingIsLost == Spec => []NoLossWithoutExpiry
  <1>1. IInv => NoLossWithoutExpiry
    <2> SUFFICES ASSUME IInv, NEW k \in Run,
                        status[k] \in {"success", "failed"}, ctx[k] # "expired"
                 PROVE  delivered[k] = produced[k]
      BY Zenon DEF NoLossWithoutExpiry
    <2>1. RunInv(k)
      BY Zenon DEF IInv
    <2>2. bufCh[k] \in Nat /\ delivered[k] \in Nat /\ produced[k] \in Nat
      BY ConstantsAssumption DEF IInv, TypeOK
    <2>3. forward[k] = "done" /\ bufCh[k] = 0
      BY <2>1, Zenon DEF RunInv
    <2>4. produced[k] = bufCh[k] + Held(k) + delivered[k] /\ Held(k) = 0
      BY <2>1, <2>3, Zenon DEF RunInv, Held
    <2>5. produced[k] = 0 + 0 + delivered[k]
      BY <2>3, <2>4, Zenon
    <2> QED
      BY <2>2, <2>5, NothingElse, Zenon
  <1> QED
    BY IInvAlways, <1>1, PTL

\* After timeout.Store(true) at most one more metric of the run reaches the
\* registry (collect.go:161-165, 185).
THEOREM LateIsBounded == Spec => []AtMostOneLate
  <1>1. IInv => AtMostOneLate
    BY ZenonT(30) DEF IInv, RunInv, AtMostOneLate
  <1> QED
    BY IInvAlways, <1>1, PTL

\* No goroutine of a run is stuck on another: the deadline frees the caller, the
\* caller or the drain frees Collect, and the end of Collect frees them all
\* (collect.go:154-170, 184, 197-201).
THEOREM NobodyIsStuck == Spec => []NoCircularWait
  <1>1. ASSUME IInv, NEW k \in Run
        PROVE  /\ main[k] \notin {"off", "done"} =>
                    \/ main[k] = "select" /\ ctx[k] = "live"
                    \/ CallerGoesOn(k) \/ ForwarderGoesOn(k) \/ collect[k] = "closing"
               /\ collect[k] = "sending" /\ bufCh[k] = BufCap =>
                    CallerGoesOn(k) \/ ForwarderGoesOn(k) \/ DrainerGoesOn(k)
               /\ collect[k] = "done" => /\ forward[k] # "done" => ForwarderGoesOn(k)
                                         /\ drain[k] = "running" => DrainerGoesOn(k)
    <2>1. /\ main[k] \in {"off", "select", "wait", "store", "abandon", "done"}
          /\ ctx[k] \in {"live", "expired", "cancelled"}
          /\ forward[k] \in {"off", "select", "check", "send", "done"}
          /\ drain[k] \in {"off", "running", "done"}
          /\ status[k] \in {"none", "pending", "success", "failed"}
          /\ bufCh[k] \in Nat /\ BufCap \in Nat \ {0}
      BY <1>1, ConstantsAssumption DEF IInv, TypeOK
    <2>2. RunInv(k)
      BY <1>1, Zenon DEF IInv
    <2>3. main[k] \notin {"off", "done"} =>
            \/ main[k] = "select" /\ ctx[k] = "live"
            \/ CallerGoesOn(k) \/ ForwarderGoesOn(k) \/ collect[k] = "closing"
      BY <2>1, <2>2, SMTT(30) DEF RunInv, CallerGoesOn, ForwarderGoesOn
    <2>4. collect[k] = "sending" /\ bufCh[k] = BufCap =>
            CallerGoesOn(k) \/ ForwarderGoesOn(k) \/ DrainerGoesOn(k)
      BY <2>1, <2>2, SMTT(30) DEF RunInv, CallerGoesOn, ForwarderGoesOn, DrainerGoesOn
    <2>5. collect[k] = "done" => /\ forward[k] # "done" => ForwarderGoesOn(k)
                                 /\ drain[k] = "running" => DrainerGoesOn(k)
      BY <2>1, <2>2 DEF RunInv, ForwarderGoesOn, DrainerGoesOn
    <2> QED
      BY <2>3, <2>4, <2>5, Zenon
  <1>2. IInv => NoCircularWait
    BY <1>1, ZenonT(30) DEF NoCircularWait
  <1> QED
    BY IInvAlways, <1>2, PTL

\* No caller can meet a closed registry channel, so the unguarded sends of
\* collectCollector cannot panic (collect.go:178-193).
THEOREM CallersBeforeClose == Spec => []ChOutlivesCallers
  <1>1. IInv => ChOutlivesCallers
    <2> SUFFICES ASSUME IInv, NEW r \in Requests, request[r] = "closed",
                        NEW c \in enabled[r]
                 PROVE  main[<<r, c>>] = "done"
      BY DEF ChOutlivesCallers, ChClosed, RunsOf
    <2>1. c \in Collectors
      BY SMTT(30) DEF IInv, TypeOK
    <2>2. <<r, c>> \in Run /\ FollowInv(<<r, c>>)
      BY <2>1 DEF IInv, Run
    <2> QED
      BY <2>2, SMTT(30) DEF FollowInv
  <1> QED
    BY IInvAlways, <1>1, PTL

-----------------------------------------------------------------------------
(* What collectAll exposes.                                                *)

\* The pair of values that collectAll sends to ch for collector c.
Shown(r, c) == [name |-> c,
                success |-> status[<<r, c>>] = "success",
                timeout |-> status[<<r, c>>] = "pending"]

AllShown(r) == {Shown(r, c) : c \in enabled[r]}

\* A request that has emitted shows the statuses its runs still have, and a
\* status other than pending is the one of the error that main received.
ShownInv ==
  /\ \A r \in Requests :
       request[r] \in {"emitted", "returned", "closed"} => exposed[r] = AllShown(r)
  /\ \A k \in Run :
       status[k] \in {"success", "failed"} => status[k] = StatusOf(err[k])

\* A status changes only while its request is inside collectAll, so what has
\* been sent to ch stays true (collect.go:62-98).
LEMMA ShownInductive == IInv /\ ShownInv /\ [Next]_vars => ShownInv'
  <1> SUFFICES ASSUME IInv, ShownInv, [Next]_vars
               PROVE  ShownInv'
    OBVIOUS
  <1> USE ConstantsAssumption DEF reqVars, mainVars, chanVars, goVars, countVars
  <1>i. TypeOK /\ \A k \in Run : FollowInv(k) /\ RunInv(k)
    BY DEF IInv
  <1>f. ASSUME UNCHANGED <<enabled, status>>
        PROVE  \A r \in Requests : AllShown(r)' = AllShown(r)
    BY <1>f DEF AllShown, Shown
  <1>e. ASSUME UNCHANGED <<status, err>>
        PROVE  \A k \in Run : status'[k] \in {"success", "failed"} => status'[k] = StatusOf(err[k])'
    BY <1>e DEF ShownInv, StatusOf
  <1>s. ASSUME UNCHANGED <<request, exposed, enabled, status, err>>
        PROVE  ShownInv'
    <2>1. \A r \in Requests : AllShown(r)' = AllShown(r)
      BY <1>s, <1>f
    <2> QED
      BY <1>s, <2>1, <1>e, Zenon DEF ShownInv
  <1>q. ASSUME UNCHANGED <<exposed, enabled, status, err>>,
               NEW r \in Requests, NEW p, request' = [request EXCEPT ![r] = p],
               p \in {"emitted", "returned", "closed"} =>
                 request[r] \in {"emitted", "returned", "closed"}
        PROVE  ShownInv'
    <2>1. \A s \in Requests : AllShown(s)' = AllShown(s)
      BY <1>q, <1>f
    <2>2. \A s \in Requests :
            request'[s] \in {"emitted", "returned", "closed"} =>
              request[s] \in {"emitted", "returned", "closed"}
      BY <1>q, <1>i DEF TypeOK
    <2> QED
      BY <1>q, <2>1, <2>2, <1>e, Zenon DEF ShownInv
  <1>1. ASSUME NEW r \in Requests, NewHandler(r)
        PROVE  ShownInv'
    <2>1. ASSUME NEW s \in Requests, request'[s] \in {"emitted", "returned", "closed"}
          PROVE  /\ request[s] \in {"emitted", "returned", "closed"}
                 /\ enabled'[s] = enabled[s]
      BY <1>1, <2>1, <1>i DEF NewHandler, TypeOK
    <2>2. ASSUME NEW s \in Requests, request'[s] \in {"emitted", "returned", "closed"}
          PROVE  AllShown(s)' = AllShown(s)
      <3>1. UNCHANGED status
        BY <1>1 DEF NewHandler
      <3> QED
        BY <2>1, <2>2, <3>1, Zenon DEF AllShown, Shown
    <2>3. UNCHANGED <<exposed, status, err>>
      BY <1>1 DEF NewHandler
    <2> QED
      BY <2>1, <2>2, <2>3, <1>e, Zenon DEF ShownInv
  <1>2. ASSUME NEW r \in Requests,
               NewHandlerFails(r) \/ LockAndStart(r) \/ Unlock(r) \/ RegistryCloses(r)
        PROVE  ShownInv'
    BY <1>2, <1>q, Zenon DEF NewHandlerFails, LockAndStart, Unlock, RegistryCloses
  <1>3. ASSUME NEW r \in Requests, EmitStatuses(r)
        PROVE  ShownInv'
    <2>1. /\ request' = [request EXCEPT ![r] = "emitted"]
          /\ exposed' = [exposed EXCEPT ![r] = AllShown(r)]
          /\ UNCHANGED <<enabled, status, err>>
      BY <1>3, Zenon DEF EmitStatuses, AllShown, Shown
    <2>2. \A s \in Requests : AllShown(s)' = AllShown(s)
      BY <2>1, <1>f
    <2>3. \A s \in Requests :
            request'[s] \in {"emitted", "returned", "closed"} => exposed'[s] = AllShown(s)
      BY <2>1, <1>i, SMTT(30) DEF ShownInv, TypeOK
    <2> QED
      BY <2>1, <2>2, <2>3, <1>e DEF ShownInv
  <1>4. ASSUME NEW k \in Run, ReceiveErr(k)
        PROVE  ShownInv'
    <2>1. status[k] = "none"
      BY <1>4, <1>i, Zenon DEF ReceiveErr, RunInv
    <2>2. /\ UNCHANGED <<request, exposed, enabled, status>>
          /\ \A j \in Run : j # k => err'[j] = err[j]
      BY <1>4, <1>i DEF ReceiveErr, TypeOK
    <2>3. \A s \in Requests : AllShown(s)' = AllShown(s)
      BY <2>2, <1>f
    <2>4. \A j \in Run : status'[j] \in {"success", "failed"} => status'[j] = StatusOf(err[j])'
      BY <2>1, <2>2, SMTT(30) DEF ShownInv, StatusOf
    <2> QED
      BY <2>2, <2>3, <2>4, SMTT(30) DEF ShownInv
  <1>5. ASSUME NEW k \in Run, NEW v, main[k] \in {"wait", "abandon"},
               status' = [status EXCEPT ![k] = v],
               v = StatusOf(err[k]) \/ v = "pending",
               UNCHANGED <<request, exposed, enabled, err>>
        PROVE  ShownInv'
    <2>1. request[k[1]] \notin {"emitted", "returned", "closed"}
      BY <1>5, <1>i, SMTT(30) DEF FollowInv
    <2>2. ASSUME NEW r \in Requests, request[r] \in {"emitted", "returned", "closed"}
          PROVE  exposed[r] = AllShown(r)'
      <3>1. ASSUME NEW c \in enabled[r]
            PROVE  Shown(r, c)' = Shown(r, c)
        <4>1. <<r, c>> \in Run /\ <<r, c>> # k
          BY <2>1, <2>2, <3>1, <1>i, SMTT(30) DEF TypeOK, Run
        <4> QED
          BY <4>1, <1>5, <1>i, SMTT(30) DEF Shown, TypeOK
      <3> QED
        BY <1>5, <2>2, <3>1, SMTT(30) DEF ShownInv, AllShown
    <2>3. \A j \in Run : status'[j] \in {"success", "failed"} => status'[j] = StatusOf(err[j])
      BY <1>5, <1>i, SMTT(30) DEF ShownInv, TypeOK
    <2> QED
      BY <1>5, <2>2, <2>3, Zenon DEF ShownInv, StatusOf
  <1>6. ASSUME NEW k \in Run, ReturnStatus(k) \/ Abandon(k)
        PROVE  ShownInv'
    BY <1>6, <1>5, SMTT(30) DEF ReturnStatus, Abandon
  <1>7. ASSUME NEW k \in Run, Expire(k) \/ ReceiveDone(k) \/ StoreTimeout(k)
        PROVE  ShownInv'
    BY <1>7, <1>s, SMTT(30) DEF Expire, ReceiveDone, StoreTimeout
  <1>8. ASSUME NEW k \in Run, Collector(k)
        PROVE  ShownInv'
    BY <1>8, <1>s, SMTT(30) DEF Collector, BeginSend, Produce, CollectReturns, CloseBuf
  <1>9. ASSUME NEW k \in Run, Forwarder(k)
        PROVE  ShownInv'
    BY <1>9, <1>s, SMTT(30) DEF Forwarder, ForwardDone, ForwardReceive, ForwardClosed,
                      ForwardCheck, ForwardSend, ForwardPanic
  <1>10. ASSUME NEW k \in Run, Drainer(k)
         PROVE  ShownInv'
    BY <1>10, <1>s, Zenon DEF Drainer, DrainReceive, DrainClosed
  <1>11. CASE UNCHANGED vars
    BY <1>11, <1>s, Zenon DEF vars
  <1> QED
    BY <1>1, <1>2, <1>3, <1>4, <1>6, <1>7, <1>8, <1>9, <1>10, <1>11, Zenon
       DEF Next, Handler, Caller, Terminated

-----------------------------------------------------------------------------
(* Refinement: the three variables of ScrapeService change only as it      *)
(* allows.                                                                 *)

\* How phaseOf follows one request.
LEMMA PhaseStep ==
  ASSUME TypeOK, NEW r \in Requests, NEW p,
         request' = [request EXCEPT ![r] = p]
  PROVE  phaseOf' = [phaseOf EXCEPT ![r] =
                       CASE p \in {"collecting", "emitted"} -> "serving"
                         [] p \in {"returned", "closed"} -> "served"
                         [] OTHER -> p]
  BY ZenonT(30) DEF phaseOf, TypeOK

\* A step of the engine is a step of the service or leaves its state alone.
LEMMA StepRefines == IInv /\ [Next]_vars => [Service!SNext]_(Service!svars)
  <1> SUFFICES ASSUME IInv, [Next]_vars
               PROVE  Service!SNext \/ UNCHANGED Service!svars
    BY SMTT(30)
  <1> USE ConstantsAssumption DEF reqVars, mainVars, chanVars, goVars, countVars
  <1>i. TypeOK /\ MutexInv
    BY DEF IInv
  <1>j. \A k \in Run : FollowInv(k) /\ RunInv(k)
    BY DEF IInv
  <1>p. \A k \in Run : k[1] \in Requests /\ k[2] \in Collectors /\ k = <<k[1], k[2]>>
    BY DEF Run
  <1>1. ASSUME NEW r \in Requests, NewHandler(r)
        PROVE  Service!Accept(r)
    <2>1. phaseOf' = [phaseOf EXCEPT ![r] = "waiting"]
      BY <1>1, <1>i, PhaseStep, Zenon DEF NewHandler
    <2>2. phaseOf[r] = "idle"
      BY <1>1, SMTT(30) DEF NewHandler, phaseOf
    <2>3. PICK names \in SUBSET Collectors :
            enabled' = [enabled EXCEPT ![r] = IF names = {} THEN Collectors ELSE names]
      BY <1>1, SMTT(30) DEF NewHandler
    <2>4. \E S \in SUBSET Collectors : S # {} /\ enabled' = [enabled EXCEPT ![r] = S]
      BY <2>3
    <2> QED
      BY <1>1, <2>1, <2>2, <2>4, Zenon DEF Service!Accept, NewHandler
  <1>2. ASSUME NEW r \in Requests, NewHandlerFails(r)
        PROVE  Service!Reject(r)
    <2>1. phaseOf' = [phaseOf EXCEPT ![r] = "rejected"]
      BY <1>2, <1>i, PhaseStep, Zenon DEF NewHandlerFails
    <2> QED
      BY <1>2, <2>1, Zenon DEF Service!Reject, NewHandlerFails, phaseOf
  <1>3. ASSUME NEW r \in Requests, LockAndStart(r)
        PROVE  Service!Begin(r)
    <2>1. phaseOf' = [phaseOf EXCEPT ![r] = "serving"]
      BY <1>3, <1>i, PhaseStep, Zenon DEF LockAndStart
    <2>2. \A s \in Requests : phaseOf[s] # "serving"
      BY <1>3, <1>i, SMTT(30) DEF LockAndStart, MutexInv, phaseOf, TypeOK
    <2> QED
      BY <1>3, <2>1, <2>2, Zenon DEF Service!Begin, LockAndStart, phaseOf
  <1>4. ASSUME NEW r \in Requests, EmitStatuses(r)
        PROVE  UNCHANGED Service!svars
    BY <1>4, <1>i, SMTT(30) DEF EmitStatuses, Service!svars, phaseOf, TypeOK
  <1>5. ASSUME NEW r \in Requests, Unlock(r)
        PROVE  Service!Answer(r)
    <2>1. phaseOf' = [phaseOf EXCEPT ![r] = "served"]
      BY <1>5, <1>i, PhaseStep, Zenon DEF Unlock
    <2>2. \A c \in enabled[r] : status[<<r, c>>] # "none"
      <3> SUFFICES ASSUME NEW c \in enabled[r]
                   PROVE  status[<<r, c>>] # "none"
        BY SMTT(30)
      <3>1. c \in Collectors
        BY <1>i, ZenonT(30) DEF TypeOK
      <3>2. <<r, c>> \in Run /\ FollowInv(<<r, c>>) /\ RunInv(<<r, c>>)
        BY <3>1, <1>j, Zenon DEF Run
      <3> QED
        BY <3>2, <1>5, ZenonT(30) DEF FollowInv, RunInv, Unlock
    <2> QED
      BY <1>5, <2>1, <2>2, SMTT(30) DEF Service!Answer, Unlock, phaseOf
  <1>6. ASSUME NEW r \in Requests, RegistryCloses(r)
        PROVE  UNCHANGED Service!svars
    BY <1>6, <1>i, SMTT(30) DEF RegistryCloses, Service!svars, phaseOf, TypeOK
  <1>7. ASSUME NEW k \in Run, ReturnStatus(k)
        PROVE  Service!Judge(k[1], k[2])
    <2>1. phaseOf' = phaseOf /\ enabled' = enabled
      BY <1>7 DEF ReturnStatus, phaseOf
    <2>a. FollowInv(k) /\ k[1] \in Requests /\ main[k] \notin {"off", "done"}
      BY <1>7, <1>j, <1>p, Zenon DEF ReturnStatus
    <2>2. phaseOf[k[1]] = "serving" /\ k[2] \in enabled[k[1]]
      <3>1. request[k[1]] = "collecting" /\ k[2] \in enabled[k[1]]
        BY <2>a, <1>i DEF FollowInv, TypeOK
      <3> QED
        BY <2>a, <3>1, SMTT(30) DEF phaseOf
    <2>3. status[<<k[1], k[2]>>] = "none"
      BY <1>7, <1>j, <1>p, Zenon DEF ReturnStatus, RunInv
    <2>4. \E v \in Service!Verdicts : status' = [status EXCEPT ![<<k[1], k[2]>>] = v]
      BY <1>7, <1>p, ZenonT(30) DEF ReturnStatus, StatusOf, Service!Verdicts
    <2> QED
      BY <2>1, <2>2, <2>3, <2>4, ZenonT(30) DEF Service!Judge
  <1>8. ASSUME NEW k \in Run, Abandon(k)
        PROVE  Service!Judge(k[1], k[2])
    <2>1. phaseOf' = phaseOf /\ enabled' = enabled
      BY <1>8, SMTT(30) DEF Abandon, phaseOf
    <2>a. FollowInv(k) /\ k[1] \in Requests /\ main[k] \notin {"off", "done"}
      BY <1>8, <1>j, <1>p, ZenonT(30) DEF Abandon
    <2>2. phaseOf[k[1]] = "serving" /\ k[2] \in enabled[k[1]]
      <3>1. request[k[1]] = "collecting" /\ k[2] \in enabled[k[1]]
        BY <2>a, <1>i DEF FollowInv, TypeOK
      <3> QED
        BY <2>a, <3>1 DEF phaseOf
    <2>3. status[<<k[1], k[2]>>] = "none"
      BY <1>8, <1>j, <1>p, ZenonT(30) DEF Abandon, RunInv
    <2>4. \E v \in Service!Verdicts : status' = [status EXCEPT ![<<k[1], k[2]>>] = v]
      BY <1>8, <1>p, Zenon DEF Abandon, Service!Verdicts
    <2> QED
      BY <2>1, <2>2, <2>3, <2>4, Zenon DEF Service!Judge
  <1>9. ASSUME NEW k \in Run, Expire(k)
        PROVE  UNCHANGED Service!svars
    BY <1>9 DEF Expire, Service!svars, phaseOf
  <1>10. ASSUME NEW k \in Run, ReceiveErr(k)
        PROVE  UNCHANGED Service!svars
    BY <1>10 DEF ReceiveErr, Service!svars, phaseOf
  <1>11. ASSUME NEW k \in Run, ReceiveDone(k)
        PROVE  UNCHANGED Service!svars
    BY <1>11 DEF ReceiveDone, Service!svars, phaseOf
  <1>12. ASSUME NEW k \in Run, StoreTimeout(k)
        PROVE  UNCHANGED Service!svars
    BY <1>12 DEF StoreTimeout, Service!svars, phaseOf
  <1>13a. ASSUME NEW k \in Run, BeginSend(k)
        PROVE  UNCHANGED Service!svars
    BY <1>13a, SMTT(30) DEF BeginSend, Service!svars, phaseOf
  <1>13. ASSUME NEW k \in Run, Produce(k)
        PROVE  UNCHANGED Service!svars
    BY <1>13, SMTT(30) DEF Produce, Service!svars, phaseOf
  <1>14. ASSUME NEW k \in Run, CollectReturns(k)
        PROVE  UNCHANGED Service!svars
    BY <1>14 DEF CollectReturns, Service!svars, phaseOf
  <1>15. ASSUME NEW k \in Run, CloseBuf(k)
        PROVE  UNCHANGED Service!svars
    BY <1>15 DEF CloseBuf, Service!svars, phaseOf
  <1>16. ASSUME NEW k \in Run, ForwardDone(k)
        PROVE  UNCHANGED Service!svars
    BY <1>16 DEF ForwardDone, Service!svars, phaseOf
  <1>17. ASSUME NEW k \in Run, ForwardReceive(k)
        PROVE  UNCHANGED Service!svars
    BY <1>17, SMTT(30) DEF ForwardReceive, Service!svars, phaseOf
  <1>18. ASSUME NEW k \in Run, ForwardClosed(k)
        PROVE  UNCHANGED Service!svars
    BY <1>18, SMTT(30) DEF ForwardClosed, Service!svars, phaseOf
  <1>19. ASSUME NEW k \in Run, ForwardCheck(k)
        PROVE  UNCHANGED Service!svars
    BY <1>19, SMTT(30) DEF ForwardCheck, Service!svars, phaseOf
  <1>20. ASSUME NEW k \in Run, ForwardSend(k)
        PROVE  UNCHANGED Service!svars
    BY <1>20, SMTT(30) DEF ForwardSend, Service!svars, phaseOf
  <1>21. ASSUME NEW k \in Run, ForwardPanic(k)
        PROVE  UNCHANGED Service!svars
    BY <1>21, SMTT(30) DEF ForwardPanic, Service!svars, phaseOf
  <1>22. ASSUME NEW k \in Run, DrainReceive(k)
        PROVE  UNCHANGED Service!svars
    BY <1>22 DEF DrainReceive, Service!svars, phaseOf
  <1>23. ASSUME NEW k \in Run, DrainClosed(k)
        PROVE  UNCHANGED Service!svars
    BY <1>23 DEF DrainClosed, Service!svars, phaseOf
  <1>24. CASE UNCHANGED vars
    BY <1>24 DEF vars, Service!svars, phaseOf
  <1> QED
    BY <1>p, <1>1, <1>2, <1>3, <1>4, <1>5, <1>6, <1>7, <1>8, <1>9, <1>10, <1>11, <1>12, <1>13, <1>13a, <1>14, <1>15, <1>16, <1>17, <1>18, <1>19, <1>20, <1>21, <1>22, <1>23, <1>24, Zenon
       DEF Next, Handler, Caller, Collector, Forwarder, Drainer, Terminated,
           Service!SNext

\* The scrape engine implements the service: scrapes are served one at a time,
\* every collector of an accepted scrape gets exactly one verdict, and the
\* answer waits for all of them (handler.go:67-71, collect.go:45-223).
THEOREM EngineImplementsService == Spec => ImplementsService
  <1>1. Init => Service!SInit
    BY DEF Init, Service!SInit, phaseOf, Run
  <1> QED
    BY <1>1, IInvAlways, StepRefines, PTL DEF Spec, ImplementsService, Service!SSpec

-----------------------------------------------------------------------------
\* The library on cardinalities, which only the last theorem needs.
INSTANCE FiniteSetTheorems

\* The success and timeout values of a scrape are what happened to each of its
\* collectors, however many there are (collect.go:75-98, 175-224).
THEOREM ExposedValuesAreTrue == Spec => []ExposedIsTrue
  <1>1. Init => ShownInv
    BY DEF Init, ShownInv
  <1>2. IInv /\ ShownInv => ExposedIsTrue
    <2> SUFFICES ASSUME IInv, ShownInv, NEW r \in Requests,
                        request[r] \in {"emitted", "returned", "closed"},
                        NEW c \in enabled[r]
                 PROVE  /\ Cardinality({x \in exposed[r] : x.name = c}) = 1
                        /\ \A x \in exposed[r] : x.name = c =>
                             /\ x.success <=> err[<<r, c>>] \in Tolerated
                             /\ x.timeout => ctx[<<r, c>>] = "expired" /\ err[<<r, c>>] = "none"
                             /\ ~x.timeout => /\ collect[<<r, c>>] \in {"closing", "done"}
                                              /\ forward[<<r, c>>] = "done"
      BY Zenon DEF ExposedIsTrue
    <2>1. exposed[r] = {Shown(r, d) : d \in enabled[r]}
      BY SMTT(30) DEF ShownInv, AllShown
    <2>2. \A d : Shown(r, d).name = d
      BY DEF Shown
    <2>3. {x \in exposed[r] : x.name = c} = {Shown(r, c)}
      BY <2>1, <2>2
    <2>4. Cardinality({Shown(r, c)}) = 1
      BY FS_Singleton, ZenonT(30)
    <2>5. <<r, c>> \in Run /\ FollowInv(<<r, c>>) /\ RunInv(<<r, c>>) /\ TypeOK
      BY SMTT(30) DEF IInv, TypeOK, Run
    <2>6. main[<<r, c>>] = "done"
      BY <2>5 DEF FollowInv
    <2>7. status[<<r, c>>] \in {"pending", "success", "failed"}
      BY <2>5, <2>6, ZenonT(30) DEF RunInv, TypeOK
    <2>8. status[<<r, c>>] = "success" <=> err[<<r, c>>] \in Tolerated
      BY <2>5, <2>7, ZenonT(30) DEF RunInv, ShownInv, StatusOf, Tolerated
    <2>9. status[<<r, c>>] = "pending" => ctx[<<r, c>>] = "expired" /\ err[<<r, c>>] = "none"
      BY <2>5, SMTT(30) DEF RunInv
    <2>10. status[<<r, c>>] # "pending" => /\ collect[<<r, c>>] \in {"closing", "done"}
                                           /\ forward[<<r, c>>] = "done"
      BY <2>5, <2>7, SMTT(30) DEF RunInv
    <2>11. /\ Shown(r, c).success <=> status[<<r, c>>] = "success"
           /\ Shown(r, c).timeout <=> status[<<r, c>>] = "pending"
      BY Zenon DEF Shown
    <2> QED
      BY <2>3, <2>4, <2>8, <2>9, <2>10, <2>11, Zenon
  <1> QED
    BY <1>1, <1>2, IInvAlways, ShownInductive, PTL DEF Spec
=============================================================================
