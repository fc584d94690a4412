------------------------ MODULE ProcessCollectProofs ------------------------
(***************************************************************************)
(* Proofs about WorkerPool and about ProcessCollect, which adds the MI     *)
(* query, for any number of calls, workers, requests, panics, instances    *)
(* and fields and any capacity of the channel.                             *)
(***************************************************************************)
EXTENDS ProcessCollect, FiniteSetTheorems, TLAPS

-----------------------------------------------------------------------------
(* How often a request occurs in the channel.                              *)

LEMMA PlacesFinite ==
  ASSUME NEW q \in Seq(Calls), NEW k
  PROVE  IsFiniteSet(Places(q, k)) /\ Cardinality(Places(q, k)) \in Nat
  <1>1. IsFiniteSet(1..Len(q))
    BY FS_Interval
  <1>2. Places(q, k) \in SUBSET (1..Len(q))
    BY DEF Places
  <1> QED
    BY <1>1, <1>2, FS_Subset, FS_CardinalityType

LEMMA PlacesAppend ==
  ASSUME NEW q \in Seq(Calls), NEW k \in Calls, NEW j \in Calls
  PROVE  Cardinality(Places(Append(q, k), j)) =
           Cardinality(Places(q, j)) + (IF j = k THEN 1 ELSE 0)
  <1>1. Places(Append(q, k), j) =
          IF j = k THEN Places(q, j) \cup {Len(q) + 1} ELSE Places(q, j)
    BY DEF Places
  <1>2. Len(q) + 1 \notin Places(q, j)
    BY DEF Places
  <1>3. IsFiniteSet(Places(q, j)) /\ Cardinality(Places(q, j)) \in Nat
    BY PlacesFinite
  <1>4. Cardinality(Places(q, j) \cup {Len(q) + 1}) = Cardinality(Places(q, j)) + 1
    BY <1>2, <1>3, FS_AddElement, Zenon
  <1> QED
    BY <1>1, <1>3, <1>4

LEMMA PlacesTail ==
  ASSUME NEW q \in Seq(Calls), q # <<>>, NEW j \in Calls
  PROVE  Cardinality(Places(q, j)) =
           Cardinality(Places(Tail(q), j)) + (IF j = Head(q) THEN 1 ELSE 0)
  <1> DEFINE S == Places(q, j) \ {1}
             T == Places(Tail(q), j)
             f == [i \in S |-> i - 1]
  <1>1. /\ Tail(q) \in Seq(Calls) /\ Len(Tail(q)) = Len(q) - 1 /\ Head(q) = q[1]
        /\ \A i \in 1..Len(Tail(q)) : Tail(q)[i] = q[i + 1]
        /\ Len(q) \in Nat \ {0}
    OBVIOUS
  <1>2. \A i \in S : i \in 2..Len(q) /\ q[i] = j
    BY DEF Places
  <1>3. \A i \in T : i \in 1..(Len(q) - 1) /\ q[i + 1] = j
    BY <1>1 DEF Places
  <1>4. f \in [S -> T]
    BY <1>1, <1>2 DEF Places
  <1>5. \A a, b \in S : f[a] = f[b] => a = b
    BY <1>2
  <1>6. \A i \in T : i + 1 \in S /\ f[i + 1] = i
    BY <1>1, <1>3 DEF Places
  <1>7. ExistsBijection(S, T)
    <2> HIDE DEF S, T, f
    <2>1. f \in Injection(S, T)
      BY <1>4, <1>5 DEF Injection, IsInjective
    <2>2. f \in Surjection(S, T)
      BY <1>4, <1>6 DEF Surjection
    <2> QED
      BY <2>1, <2>2 DEF ExistsBijection, Bijection
  <1>8. IsFiniteSet(S) /\ Cardinality(S) =
          IF 1 \in Places(q, j) THEN Cardinality(Places(q, j)) - 1
                                ELSE Cardinality(Places(q, j))
    BY PlacesFinite, FS_RemoveElement, Zenon
  <1>9. Cardinality(T) = Cardinality(S)
    BY <1>7, <1>8, FS_Bijection
  <1>10. 1 \in Places(q, j) <=> j = Head(q)
    BY <1>1 DEF Places
  <1> HIDE DEF S, T
  <1> QED
    BY <1>8, <1>9, <1>10, PlacesFinite DEF T

-----------------------------------------------------------------------------
(* How many workers work on the requests of a call.                        *)

LEMMA InWorkFinite ==
  ASSUME NEW k
  PROVE  IsFiniteSet(InWork(k)) /\ Cardinality(InWork(k)) \in Nat
  <1>1. InWork(k) \in SUBSET Workers
    BY DEF InWork
  <1> QED
    BY <1>1, WorkerPoolAssumption, FS_Subset, FS_CardinalityType

LEMMA InWorkAdd ==
  ASSUME TypeOK, NEW w \in Workers, worker[w] # "work", NEW k \in Calls,
         worker' = [worker EXCEPT ![w] = "work"], req' = [req EXCEPT ![w] = k],
         NEW j \in Calls
  PROVE  Cardinality(InWork(j)') = Cardinality(InWork(j)) + (IF j = k THEN 1 ELSE 0)
  <1>1. InWork(j)' = (IF j = k THEN InWork(j) \cup {w} ELSE InWork(j)) /\ w \notin InWork(j)
    BY Zenon DEF InWork, TypeOK
  <1>2. IsFiniteSet(InWork(j)) /\ Cardinality(InWork(j)) \in Nat
    BY InWorkFinite
  <1>3. Cardinality(InWork(j) \cup {w}) = Cardinality(InWork(j)) + 1
    BY <1>1, <1>2, FS_AddElement, Zenon
  <1> QED
    BY <1>1, <1>2, <1>3

LEMMA InWorkRemove ==
  ASSUME TypeOK, NEW w \in Workers, worker[w] = "work", NEW next, next # "work",
         worker' = [worker EXCEPT ![w] = next], req' = req, NEW j \in Calls
  PROVE  /\ Cardinality(InWork(j)') = Cardinality(InWork(j)) - (IF j = req[w] THEN 1 ELSE 0)
         /\ j = req[w] => Cardinality(InWork(j)) >= 1
  <1>1. InWork(j)' = InWork(j) \ {w} /\ (w \in InWork(j) <=> j = req[w])
    BY Zenon DEF InWork, TypeOK
  <1>2. IsFiniteSet(InWork(j)) /\ Cardinality(InWork(j)) \in Nat
    BY InWorkFinite
  <1>3. Cardinality(InWork(j) \ {w}) =
          IF w \in InWork(j) THEN Cardinality(InWork(j)) - 1 ELSE Cardinality(InWork(j))
    BY <1>2, FS_RemoveElement, Zenon
  <1>4. w \in InWork(j) => Cardinality(InWork(j)) # 0
    BY <1>2, FS_EmptySet
  <1> QED
    BY <1>1, <1>2, <1>3, <1>4

LEMMA InWorkSame ==
  ASSUME TypeOK, NEW w \in Workers, worker[w] # "work", NEW next, next # "work",
         worker' = [worker EXCEPT ![w] = next], req' = req, NEW j \in Calls
  PROVE  InWork(j)' = InWork(j)
  BY DEF InWork, TypeOK

-----------------------------------------------------------------------------
(* The inductive invariant.                                                *)

\* One for the request that is about to be sent, and for the one a call that
\* panicked never sent.
Unsent(k) == IF pc[k] = "send" \/ k \in panicked THEN 1 ELSE 0

CountInv ==
  \A k \in Calls : wg[k] = Queued(k) + Cardinality(InWork(k)) + Unsent(k)

\* A call that has not sent yet or that has returned has no request.
EndInv ==
  \A k \in Calls : /\ pc[k] \in {"idle", "read"} => wg[k] = 0
                   /\ pc[k] = "ended" /\ k \notin panicked => wg[k] = 0
                   /\ k \in panicked => pc[k] = "ended"

\* The channel is closed and forgotten by Close only.
CloseInv ==
  /\ closing = "no" <=> chan = "open"
  /\ closing = "no" => field = "chan"

IInv == TypeOK /\ CountInv /\ EndInv /\ CloseInv /\ NoStraySend /\ PoolKeepsItsSize

\* The invariant holds when Build has started the workers.
LEMMA InitIInv == Init => IInv
  <1> SUFFICES ASSUME Init
               PROVE  IInv
    OBVIOUS
  <1> USE WorkerPoolAssumption DEF Init
  <1>1. TypeOK
    BY DEF TypeOK
  <1>2. CountInv
    <2>1. \A k \in Calls : Places(queue, k) = {} /\ InWork(k) = {}
      BY DEF Places, InWork
    <2>2. \A k \in Calls : Queued(k) = 0 /\ Cardinality(InWork(k)) = 0
      BY <2>1, FS_EmptySet, Zenon DEF Queued
    <2> QED
      BY <2>2 DEF CountInv, Unsent
  <1>3. EndInv /\ CloseInv /\ NoStraySend /\ PoolKeepsItsSize
    BY DEF EndInv, CloseInv, NoStraySend, PoolKeepsItsSize
  <1> QED
    BY <1>1, <1>2, <1>3 DEF IInv

\* The cardinalities are numbers.
LEMMA CountsAreNumbers ==
  ASSUME TypeOK, NEW k \in Calls
  PROVE  Queued(k) \in Nat /\ Cardinality(InWork(k)) \in Nat
  BY PlacesFinite, InWorkFinite DEF Queued, TypeOK

\* A request that is worked on is counted.
LEMMA WorkIsCounted ==
  ASSUME TypeOK, CountInv, NEW w \in Workers, worker[w] = "work"
  PROVE  req[w] \in Calls /\ wg[req[w]] >= 1
  <1>1. req[w] \in Calls /\ w \in InWork(req[w])
    BY DEF TypeOK, InWork
  <1>2. Cardinality(InWork(req[w])) # 0
    BY <1>1, InWorkFinite, FS_EmptySet, SMTT(30)
  <1>3. Queued(req[w]) \in Nat /\ Cardinality(InWork(req[w])) \in Nat
    BY <1>1, CountsAreNumbers
  <1>4. Unsent(req[w]) \in Nat
    BY DEF Unsent
  <1>5. wg[req[w]] = Queued(req[w]) + Cardinality(InWork(req[w])) + Unsent(req[w])
    BY <1>1, SMTT(30) DEF CountInv
  <1> QED
    BY <1>1, <1>2, <1>3, <1>4, <1>5

\* Every step of Collect, of the workers and of Close keeps it.
LEMMA IInvInductive == IInv /\ [Next]_vars => IInv'
  <1> SUFFICES ASSUME IInv, [Next]_vars
               PROVE  IInv'
    OBVIOUS
  <1> USE WorkerPoolAssumption DEF IInv, callVars, workVars
  <1>0. \A k \in Calls : Queued(k) \in Nat /\ Cardinality(InWork(k)) \in Nat
    BY CountsAreNumbers
  <1>1. ASSUME NEW k \in Calls, Begin(k)
        PROVE  IInv'
    <2>1. TypeOK'
      BY <1>1, SMTT(30) DEF Begin, TypeOK
    <2>2. CountInv'
      <3>1. \A j \in Calls : Queued(j)' = Queued(j) /\ InWork(j)' = InWork(j)
        BY <1>1, Zenon DEF Begin, Queued, InWork
      <3> QED
        BY <1>1, <1>0, <3>1, Zenon DEF Begin, CountInv, EndInv, Unsent, TypeOK
    <2>3. EndInv'
      BY <1>1, Zenon DEF Begin, EndInv, CloseInv, TypeOK
    <2>4. CloseInv' /\ NoStraySend' /\ PoolKeepsItsSize'
      BY <1>1, SMTT(30) DEF Begin, CloseInv, NoStraySend, PoolKeepsItsSize, TypeOK
    <2> QED
      BY <2>1, <2>2, <2>3, <2>4, SMTT(30)
  <1>2. ASSUME NEW k \in Calls, Timeout(k)
        PROVE  IInv'
    <2>1. TypeOK'
      BY <1>2, Zenon DEF Timeout, TypeOK
    <2>2. CountInv'
      <3>1. \A j \in Calls : Queued(j)' = Queued(j) /\ InWork(j)' = InWork(j)
        BY <1>2 DEF Timeout, Queued, InWork
      <3> QED
        BY <1>2, <1>0, <3>1, Zenon DEF Timeout, CountInv, EndInv, Unsent, TypeOK
    <2>3. EndInv'
      BY <1>2, Zenon DEF Timeout, EndInv, CloseInv, TypeOK
    <2>4. CloseInv' /\ NoStraySend' /\ PoolKeepsItsSize'
      BY <1>2, SMTT(30) DEF Timeout, CloseInv, NoStraySend, PoolKeepsItsSize, TypeOK
    <2> QED
      BY <2>1, <2>2, <2>3, <2>4
  <1>3. ASSUME NEW k \in Calls, Add(k)
        PROVE  IInv'
    <2>1. TypeOK'
      BY <1>3, SMTT(30) DEF Add, TypeOK
    <2>2. CountInv'
      <3>1. \A j \in Calls : Queued(j)' = Queued(j) /\ InWork(j)' = InWork(j)
        BY <1>3, SMTT(30) DEF Add, Queued, InWork
      <3>2. \A j \in Calls : Unsent(j)' = Unsent(j) + (IF j = k THEN 1 ELSE 0)
        BY <1>3, SMTT(30) DEF Add, Unsent, EndInv, TypeOK
      <3>3. \A j \in Calls : wg'[j] = wg[j] + (IF j = k THEN 1 ELSE 0)
        BY <1>3, SMTT(30) DEF Add, TypeOK
      <3>4. \A j \in Calls : Unsent(j) \in Nat
        BY DEF Unsent
      <3> QED
        BY <1>0, <3>1, <3>2, <3>3, <3>4 DEF CountInv
    <2>3. EndInv'
      BY <1>3, SMTT(30) DEF Add, EndInv, CloseInv, TypeOK
    <2>4. CloseInv' /\ NoStraySend' /\ PoolKeepsItsSize'
      BY <1>3, SMTT(30) DEF Add, CloseInv, NoStraySend, PoolKeepsItsSize, TypeOK
    <2> QED
      BY <2>1, <2>2, <2>3, <2>4
  <1>4. ASSUME NEW k \in Calls, Send(k)
        PROVE  IInv'
    <2>1. TypeOK'
      <3>0. Append(queue, k) \in Seq(Calls) /\ Len(Append(queue, k)) = Len(queue) + 1
            /\ Len(queue) \in Nat
        BY DEF TypeOK
      <3>1. queue' \in Seq(Calls) /\ Len(queue') <= ChanCap
        <4>1. CASE queue' = Append(queue, k) /\ Len(queue) < ChanCap
          BY <3>0, <4>1, SMTT(30)
        <4>2. CASE queue' = queue
          BY <4>2 DEF TypeOK
        <4> QED
          BY <1>4, <4>1, <4>2, SMTT(30) DEF Send
      <3>2. pc' \in [Calls -> {"idle", "read", "loop", "send", "wait", "ended"}] /\ panicked' \subseteq Calls
        BY <1>4, Zenon DEF Send, TypeOK
      <3>3. UNCHANGED <<chan, field, todo, wg, late, worker, req, closing, panics, strays>>
        BY <1>4, Zenon DEF Send, workVars
      <3> QED
        BY <3>1, <3>2, <3>3, Zenon DEF TypeOK
    <2>2. CountInv'
      <3>1. UNCHANGED <<worker, req, wg>> /\ \A j \in Calls : InWork(j)' = InWork(j)
        BY <1>4, Zenon DEF Send, InWork
      <3>2. CASE chan = "open"
        <4>1. /\ queue' = Append(queue, k) /\ pc' = [pc EXCEPT ![k] = "loop"]
              /\ panicked' = panicked /\ pc[k] = "send"
          BY <1>4, <3>2, SMTT(30) DEF Send, CloseInv
        <4>2. \A j \in Calls : Queued(j)' = Queued(j) + (IF j = k THEN 1 ELSE 0)
          BY <4>1, PlacesAppend, SMTT(30) DEF Queued, TypeOK
        <4>3. \A j \in Calls : Unsent(j) = Unsent(j)' + (IF j = k THEN 1 ELSE 0)
                               /\ Unsent(j)' \in Nat
          BY <4>1, SMTT(30) DEF EndInv, Unsent, TypeOK
        <4> QED
          BY <1>0, <3>1, <4>2, <4>3, SMTT(30) DEF CountInv
      <3>3. CASE chan # "open"
        BY <1>4, <1>0, <3>1, <3>3, Zenon DEF Send, CountInv, Queued, Unsent, TypeOK
      <3> QED
        BY <3>2, <3>3
    <2>3. EndInv'
      BY <1>4, ZenonT(30) DEF Send, EndInv, CloseInv, TypeOK
    <2>4. CloseInv' /\ NoStraySend' /\ PoolKeepsItsSize'
      <3>1. CloseInv'
        BY <1>4, ZenonT(30) DEF Send, CloseInv, TypeOK
      <3>2. NoStraySend'
        BY <1>4, ZenonT(30) DEF Send, CloseInv, NoStraySend, TypeOK
      <3>3. PoolKeepsItsSize'
        BY <1>4, Zenon DEF Send, PoolKeepsItsSize
      <3> QED
        BY <3>1, <3>2, <3>3
    <2> QED
      BY <2>1, <2>2, <2>3, <2>4
  <1>5. ASSUME NEW k \in Calls, EndLoop(k)
        PROVE  IInv'
    <2>1. TypeOK'
      BY <1>5, SMTT(30) DEF EndLoop, TypeOK
    <2>2. CountInv'
      <3>1. \A j \in Calls : Queued(j)' = Queued(j) /\ InWork(j)' = InWork(j)
        BY <1>5, ZenonT(30) DEF EndLoop, Queued, InWork
      <3> QED
        BY <1>5, <1>0, <3>1, ZenonT(30) DEF EndLoop, CountInv, EndInv, Unsent, TypeOK
    <2>3. EndInv'
      BY <1>5, ZenonT(30) DEF EndLoop, EndInv, CloseInv, TypeOK
    <2>4. CloseInv' /\ NoStraySend' /\ PoolKeepsItsSize'
      BY <1>5, SMTT(30) DEF EndLoop, CloseInv, NoStraySend, PoolKeepsItsSize, TypeOK
    <2> QED
      BY <2>1, <2>2, <2>3, <2>4
  <1>6. ASSUME NEW k \in Calls, Wait(k)
        PROVE  IInv'
    <2>1. TypeOK'
      BY <1>6, ZenonT(30) DEF Wait, TypeOK
    <2>2. CountInv'
      <3>1. \A j \in Calls : Queued(j)' = Queued(j) /\ InWork(j)' = InWork(j)
        BY <1>6, ZenonT(30) DEF Wait, Queued, InWork
      <3> QED
        BY <1>6, <1>0, <3>1, ZenonT(30) DEF Wait, CountInv, EndInv, Unsent, TypeOK
    <2>3. EndInv'
      BY <1>6, SMTT(30) DEF Wait, EndInv, CloseInv, TypeOK
    <2>4. CloseInv' /\ NoStraySend' /\ PoolKeepsItsSize'
      BY <1>6, SMTT(30) DEF Wait, CloseInv, NoStraySend, PoolKeepsItsSize, TypeOK
    <2> QED
      BY <2>1, <2>2, <2>3, <2>4
  <1>7. ASSUME NEW w \in Workers, Start(w)
        PROVE  IInv'
    <2>1. TypeOK'
      BY <1>7, SMTT(30) DEF Start, TypeOK
    <2>2. CountInv'
      BY <1>7, <1>0, InWorkSame, ZenonT(30) DEF Start, CountInv, Queued, Unsent
    <2>3. EndInv'
      BY <1>7, SMTT(30) DEF Start, EndInv, CloseInv, TypeOK
    <2>4. CloseInv' /\ NoStraySend' /\ PoolKeepsItsSize'
      BY <1>7, SMTT(30) DEF Start, CloseInv, NoStraySend, PoolKeepsItsSize, TypeOK
    <2> QED
      BY <2>1, <2>2, <2>3, <2>4, SMTT(30)
  <1>8. ASSUME NEW w \in Workers, Receive(w)
        PROVE  IInv'
    <2>1. TypeOK'
      <3>1. queue # <<>> => /\ Tail(queue) \in Seq(Calls) /\ Head(queue) \in Calls
                            /\ Len(Tail(queue)) = Len(queue) - 1 /\ Len(queue) \in Nat
        BY SMTT(30) DEF TypeOK
      <3>2. queue' \in Seq(Calls) /\ Len(queue') <= ChanCap
        <4>1. CASE queue # <<>> /\ queue' = Tail(queue)
          BY <3>1, <4>1, SMTT(30) DEF TypeOK
        <4>2. CASE queue' = queue
          BY <4>2, SMTT(30) DEF TypeOK
        <4> QED
          BY <1>8, <4>1, <4>2, SMTT(30) DEF Receive
      <3>3. worker' \in [Workers -> {"start", "range", "work", "stuck", "ended"}]
            /\ req' \in [Workers -> Calls]
        BY <1>8, <3>1, Zenon DEF Receive, TypeOK
      <3> QED
        BY <1>8, <3>2, <3>3, SMTT(30) DEF Receive, TypeOK
    <2>2. CountInv'
      <3>1. CASE queue # <<>>
        <4>1. /\ queue' = Tail(queue) /\ req' = [req EXCEPT ![w] = Head(queue)]
              /\ worker' = [worker EXCEPT ![w] = "work"] /\ worker[w] # "work"
              /\ UNCHANGED <<wg, pc, panicked>>
          BY <1>8, <3>1, SMTT(30) DEF Receive
        <4>2. Head(queue) \in Calls
          BY <3>1, SMTT(30) DEF TypeOK
        <4>3. \A j \in Calls : Queued(j) = Queued(j)' + (IF j = Head(queue) THEN 1 ELSE 0)
          BY <3>1, <4>1, PlacesTail, SMTT(30) DEF Queued, TypeOK
        <4>4. \A j \in Calls : Cardinality(InWork(j)') =
                Cardinality(InWork(j)) + (IF j = Head(queue) THEN 1 ELSE 0)
          BY <4>1, <4>2, InWorkAdd, ZenonT(30)
        <4>5. \A j \in Calls : Queued(j)' \in Nat
          <5>1. queue' \in Seq(Calls)
            BY <3>1, <4>1, SMTT(30) DEF TypeOK
          <5> QED
            BY <5>1, PlacesFinite DEF Queued
        <4> QED
          BY <1>0, <4>1, <4>3, <4>4, <4>5, SMTT(30) DEF CountInv, Unsent
      <3>2. CASE queue = <<>>
        BY <1>8, <3>2, <1>0, InWorkSame, ZenonT(30) DEF Receive, CountInv, Queued, Unsent
      <3> QED
        BY <3>1, <3>2
    <2>3. EndInv'
      BY <1>8, Zenon DEF Receive, EndInv, CloseInv, TypeOK
    <2>4. CloseInv' /\ NoStraySend' /\ PoolKeepsItsSize'
      BY <1>8, Zenon DEF Receive, CloseInv, NoStraySend, PoolKeepsItsSize, TypeOK
    <2> QED
      BY <2>1, <2>2, <2>3, <2>4
  <1>9. ASSUME NEW w \in Workers, Finish(w)
        PROVE  IInv'
    <2>1. TypeOK'
      <3>1. wg[req[w]] >= 1 /\ req[w] \in Calls
        BY <1>9, WorkIsCounted, ZenonT(30) DEF Finish
      <3>2. wg' \in [Calls -> Nat]
        BY <1>9, <3>1, SMTT(30) DEF Finish, Done, TypeOK
      <3> QED
        BY <1>9, <3>2, ZenonT(30) DEF Finish, TypeOK
    <2>2. CountInv'
      <3>1. /\ worker[w] = "work" /\ worker' = [worker EXCEPT ![w] = "range"]
            /\ wg' = [wg EXCEPT ![req[w]] = @ - 1]
            /\ UNCHANGED <<queue, req, pc, panicked>>
        BY <1>9, SMTT(30) DEF Finish, Done
      <3>2. \A j \in Calls : Cardinality(InWork(j)') =
              Cardinality(InWork(j)) - (IF j = req[w] THEN 1 ELSE 0)
        BY <3>1, InWorkRemove, ZenonT(30)
      <3>3. \A j \in Calls : Queued(j)' = Queued(j) /\ Unsent(j)' = Unsent(j) /\ Unsent(j) \in Nat
        BY <3>1 DEF Queued, Unsent
      <3>4. \A j \in Calls : wg'[j] = wg[j] - (IF j = req[w] THEN 1 ELSE 0)
        BY <3>1, SMTT(30) DEF TypeOK
      <3> QED
        BY <1>0, <3>2, <3>3, <3>4, SMTT(30) DEF CountInv
    <2>3. EndInv'
      <3>1. wg[req[w]] >= 1 /\ req[w] \in Calls
        BY <1>9, WorkIsCounted, ZenonT(30) DEF Finish
      <3> QED
        BY <1>9, <3>1, SMTT(30) DEF Finish, Done, EndInv, TypeOK
    <2>4. CloseInv' /\ NoStraySend' /\ PoolKeepsItsSize'
      BY <1>9, SMTT(30) DEF Finish, CloseInv, NoStraySend, PoolKeepsItsSize, TypeOK
    <2> QED
      BY <2>1, <2>2, <2>3, <2>4
  <1>10. ASSUME NEW w \in Workers, Panic(w)
        PROVE  IInv'
    <2>1. TypeOK'
      <3>1. wg[req[w]] >= 1 /\ req[w] \in Calls
        BY <1>10, WorkIsCounted, ZenonT(30) DEF Panic
      <3>2. wg' \in [Calls -> Nat]
        BY <1>10, <3>1 DEF Panic, Done, TypeOK
      <3>3. panics' \in 0..MaxPanics
        BY <1>10, SMTT(30) DEF Panic, TypeOK
      <3>4. strays' \subseteq Calls
        BY <1>10, <3>1, SMTT(30) DEF Panic, TypeOK
      <3>5. worker' \in [Workers -> {"start", "range", "work", "stuck", "ended"}]
        BY <1>10, SMTT(30) DEF Panic, TypeOK
      <3>6. UNCHANGED <<queue, chan, field, pc, todo, panicked, late, req, closing>>
        BY <1>10, ZenonT(30) DEF Panic
      <3> QED
        BY <3>2, <3>3, <3>4, <3>5, <3>6, SMTT(30) DEF TypeOK
    <2>2. CountInv'
      <3>1. /\ worker[w] = "work" /\ worker' = [worker EXCEPT ![w] = "start"]
            /\ wg' = [wg EXCEPT ![req[w]] = @ - 1]
            /\ UNCHANGED <<queue, req, pc, panicked>>
        BY <1>10, SMTT(30) DEF Panic, Done
      <3>2. \A j \in Calls : Cardinality(InWork(j)') =
              Cardinality(InWork(j)) - (IF j = req[w] THEN 1 ELSE 0)
        BY <3>1, InWorkRemove, ZenonT(30)
      <3>3. \A j \in Calls : Queued(j)' = Queued(j) /\ Unsent(j)' = Unsent(j) /\ Unsent(j) \in Nat
        BY <3>1 DEF Queued, Unsent
      <3>4. \A j \in Calls : wg'[j] = wg[j] - (IF j = req[w] THEN 1 ELSE 0)
        BY <3>1, SMTT(30) DEF TypeOK
      <3> QED
        BY <1>0, <3>2, <3>3, <3>4 DEF CountInv
    <2>3. EndInv'
      <3>1. wg[req[w]] >= 1 /\ req[w] \in Calls
        BY <1>10, WorkIsCounted, ZenonT(30) DEF Panic
      <3>2. /\ wg' = [wg EXCEPT ![req[w]] = @ - 1] /\ wg \in [Calls -> Nat]
            /\ UNCHANGED <<pc, panicked>>
        BY <1>10, Zenon DEF Panic, Done, TypeOK
      <3> QED
        BY <3>1, <3>2, SMTT(30) DEF EndInv
    <2>4. CloseInv' /\ NoStraySend' /\ PoolKeepsItsSize'
      <3>1. wg[req[w]] >= 1 /\ req[w] \in Calls
        BY <1>10, WorkIsCounted, ZenonT(30) DEF Panic
      <3>2. pc[req[w]] = "ended" => req[w] \in panicked
        BY <3>1 DEF EndInv, TypeOK
      <3> QED
        BY <1>10, <3>2, Zenon DEF Panic, CloseInv, NoStraySend, PoolKeepsItsSize, TypeOK
    <2> QED
      BY <2>1, <2>2, <2>3, <2>4
  <1>11. ASSUME NEW k \in Calls, ReadFails(k)
        PROVE  IInv'
    <2>1. TypeOK'
      BY <1>11, Zenon DEF ReadFails, TypeOK
    <2>2. CountInv'
      <3>1. \A j \in Calls : Queued(j)' = Queued(j) /\ InWork(j)' = InWork(j)
        BY <1>11 DEF ReadFails, Queued, InWork
      <3> QED
        BY <1>11, <1>0, <3>1, Zenon DEF ReadFails, CountInv, EndInv, Unsent, TypeOK
    <2>3. EndInv'
      BY <1>11, Zenon DEF ReadFails, EndInv, CloseInv, TypeOK
    <2>4. CloseInv' /\ NoStraySend' /\ PoolKeepsItsSize'
      BY <1>11, Zenon DEF ReadFails, CloseInv, NoStraySend, PoolKeepsItsSize, TypeOK
    <2> QED
      BY <2>1, <2>2, <2>3, <2>4
  <1>12. ASSUME NEW k \in Calls, Found(k)
        PROVE  IInv'
    <2>1. TypeOK'
      BY <1>12, SMTT(30) DEF Found, TypeOK
    <2>2. CountInv'
      <3>1. \A j \in Calls : Queued(j)' = Queued(j) /\ InWork(j)' = InWork(j)
        BY <1>12 DEF Found, Queued, InWork
      <3>2. wg' = wg /\ \A j \in Calls : Unsent(j)' = Unsent(j)
        BY <1>12, Zenon DEF Found, Unsent, TypeOK
      <3> QED
        BY <3>1, <3>2, Zenon DEF CountInv
    <2>3. EndInv'
      BY <1>12, Zenon DEF Found, EndInv, CloseInv, TypeOK
    <2>4. CloseInv' /\ NoStraySend' /\ PoolKeepsItsSize'
      BY <1>12, SMTT(30) DEF Found, CloseInv, NoStraySend, PoolKeepsItsSize, TypeOK
    <2> QED
      BY <2>1, <2>2, <2>3, <2>4
  <1>13. CASE CloseChannel
    <2>1. TypeOK'
      BY <1>13 DEF CloseChannel, TypeOK, callVars, workVars
    <2>2. CountInv'
      BY <1>13, Zenon DEF CloseChannel, CountInv, Queued, InWork, Unsent, callVars, workVars
    <2>3. EndInv'
      BY <1>13, Zenon DEF CloseChannel, EndInv, callVars
    <2>4. CloseInv' /\ NoStraySend' /\ PoolKeepsItsSize'
      BY <1>13 DEF CloseChannel, CloseInv, NoStraySend, PoolKeepsItsSize, callVars, workVars, TypeOK
    <2> QED
      BY <2>1, <2>2, <2>3, <2>4
  <1>14. CASE ForgetChannel
    <2>1. TypeOK'
      BY <1>14 DEF ForgetChannel, TypeOK, callVars, workVars
    <2>2. CountInv'
      BY <1>14, Zenon DEF ForgetChannel, CountInv, Queued, InWork, Unsent, callVars, workVars
    <2>3. EndInv'
      BY <1>14, Zenon DEF ForgetChannel, EndInv, callVars
    <2>4. CloseInv' /\ NoStraySend' /\ PoolKeepsItsSize'
      BY <1>14 DEF ForgetChannel, CloseInv, NoStraySend, PoolKeepsItsSize, callVars, workVars, TypeOK
    <2> QED
      BY <2>1, <2>2, <2>3, <2>4
  <1>15. CASE UNCHANGED vars
    BY <1>15 DEF vars, TypeOK, CountInv, Queued, InWork, Unsent, EndInv, CloseInv, NoStraySend,
                PoolKeepsItsSize
  <1> QED
    BY <1>1, <1>2, <1>3, <1>4, <1>5, <1>6, <1>7, <1>8, <1>9, <1>10, <1>11, <1>12, <1>13,
       <1>14, <1>15, SMTT(30)
       DEF Next, CallStep, WorkerStep

LEMMA IInvAlways == Spec => []IInv
  BY InitIInv, IInvInductive, PTL DEF Spec

-----------------------------------------------------------------------------
\* Every variable keeps its type: the wait group is never negative, and the channel
\* keeps to its capacity.
THEOREM TypeCorrect == Spec => []TypeOK
  BY IInvAlways, PTL DEF IInv

\* The wait group of a call is exact, however workers panic and calls overlap.
THEOREM WaitGroupsAreExact == Spec => []WaitGroupIsExact
  <1>1. IInv => WaitGroupIsExact
    BY CountsAreNumbers DEF IInv, CountInv, Unsent, WaitGroupIsExact
  <1> QED
    BY <1>1, IInvAlways, PTL

\* No worker sends to the channel of a call that has returned.
THEOREM NoWorkerSendsAstray == Spec => []NoStraySend
  BY IInvAlways, PTL DEF IInv

\* A panic costs the pool no worker before Close.
THEOREM PanicsAreMadeGood == Spec => []PoolKeepsItsSize
  BY IInvAlways, PTL DEF IInv

\* A call that waits, waits for a request that is in the channel or in work, and
\* the channel is served until Close: no panic leaves a waiter behind.
THEOREM NoWaiterIsForgotten == Spec => []WaitersAreServed
  <1>1. ASSUME IInv, NEW k \in Calls, pc[k] = "wait", wg[k] > 0,
               Places(queue, k) = {}, InWork(k) = {}
        PROVE  FALSE
    <2>1. Queued(k) = 0 /\ Cardinality(InWork(k)) = 0
      BY <1>1, FS_EmptySet, Zenon DEF Queued
    <2>2. Unsent(k) = 0
      BY <1>1, Zenon DEF IInv, EndInv, Unsent
    <2>3. wg[k] = Queued(k) + Cardinality(InWork(k)) + Unsent(k)
      BY <1>1, Zenon DEF IInv, CountInv
    <2> QED
      BY <1>1, <2>1, <2>2, <2>3
  <1>2. ASSUME IInv, closing = "no"
        PROVE  field = "chan" /\ \E w \in Workers : worker[w] \in {"start", "range", "work"}
    BY <1>2, WorkerPoolAssumption, Zenon DEF IInv, CloseInv, PoolKeepsItsSize
  <1>3. IInv => WaitersAreServed
    BY <1>1, <1>2, Zenon DEF WaitersAreServed
  <1> QED
    BY <1>3, IInvAlways, PTL

-----------------------------------------------------------------------------
(* The composition with the query.                                         *)

\* Where the thread of a query can be, given where its caller is, and the account
\* of its errors: received, in errCh, or about to be sent.
Sending(k) == IF thread[k] = "send" THEN 1 ELSE 0

QueryInv ==
  \A k \in Calls :
    /\ errCh[k] \in Nat /\ errs[k] \in Nat /\ failed[k] \in Nat
    /\ caller[k] \in {"idle", "read", "returned", "failed", "taken"}
    /\ thread[k] \in {"none", "wait", "send", "over"}
    /\ caller[k] \in {"idle", "failed"} => thread[k] = "none"
    /\ caller[k] = "read" => thread[k] \in {"wait", "send", "over"}
    /\ caller[k] = "returned" => thread[k] = "over" /\ errCh[k] = 0
    /\ caller[k] = "taken" => thread[k] \in {"none", "over"}
    /\ closed[k] => thread[k] = "over"
    /\ caller[k] # "taken" => failed[k] = errs[k] + errCh[k] + Sending(k)

\* The call of the collector and the call of Query follow each other.
FollowInv ==
  \A k \in Calls :
    /\ pc[k] = "idle" => caller[k] = "idle"
    /\ ~enabled => caller[k] = "idle"
    /\ enabled /\ pc[k] \notin {"idle", "read"} => caller[k] = "taken"

MiTypes ==
  /\ caller \in [Calls -> {"idle", "read", "returned", "failed", "taken"}]
  /\ thread \in [Calls -> {"none", "wait", "send", "over"}]
  /\ errCh \in [Calls -> Nat] /\ errs \in [Calls -> Nat] /\ failed \in [Calls -> Nat]
  /\ DOMAIN closed = Calls /\ pc \in [Calls -> {"idle", "read", "loop", "send", "wait", "ended"}]

CInv == MiTypes /\ QueryInv /\ FollowInv

\* Every step of the composition is a step of the pool or leaves it alone.
LEMMA ComposedStep == [CNext]_allVars => [Next]_vars
  BY Zenon DEF CNext, Next, CloseStep, CBegin, CTimeout, Proceed, QueryStep, CallbackStep, ReadStep,
         CReadFails, CFound, SendStep, PoolStep, CallStep, allVars

LEMMA ComposedIsPool == CSpec => Spec
  <1>1. CInit => Init
    BY DEF CInit
  <1> QED
    BY <1>1, ComposedStep, PTL DEF CSpec, Spec

LEMMA CInitInv == CInit => CInv
  BY DEF CInit, Init, Mi!Init, CInv, MiTypes, QueryInv, FollowInv, Sending

\* The steps of the pool that come after the query leave the query alone.
LEMMA PoolStepsKeepInv ==
  ASSUME CInv, UNCHANGED <<enabled, miVars>>, pc' \in [Calls -> {"idle", "read", "loop", "send",
                                                               "wait", "ended"}],
         \A k \in Calls : /\ pc'[k] = "idle" => pc[k] = "idle"
                          /\ pc'[k] \notin {"idle", "read"} /\ enabled => pc[k] \notin {"idle", "read"}
  PROVE  CInv'
  <1>1. MiTypes'
    BY Zenon DEF CInv, MiTypes, miVars
  <1>2. QueryInv'
    BY Zenon DEF CInv, QueryInv, Sending, miVars
  <1>3. FollowInv'
    BY Zenon DEF CInv, FollowInv, miVars
  <1> QED
    BY <1>1, <1>2, <1>3 DEF CInv

\* Every step of a call, of a callback, of a worker and of Close keeps it.
LEMMA CInvInductive == CInv /\ [CNext]_allVars => CInv'
  <1> SUFFICES ASSUME CInv, [CNext]_allVars
               PROVE  CInv'
    OBVIOUS
  <1> USE DEF callVars, workVars
  <1>1. ASSUME NEW k \in Calls, CBegin(k)
        PROVE  CInv'
    <2> USE <1>1 DEF CBegin, Begin, CInv
    <2>1. CASE ~enabled
      <3>1. UNCHANGED <<enabled, miVars>> /\ pc' = [pc EXCEPT ![k] = "read"]
        BY <2>1
      <3> QED
        BY <2>1, <3>1, PoolStepsKeepInv, Zenon DEF MiTypes
    <2>2. CASE enabled
      <3>1. /\ pc[k] = "idle" /\ caller[k] = "idle" /\ pc' = [pc EXCEPT ![k] = "read"]
            /\ UNCHANGED <<enabled, errCh, errs, failed, closed>>
        BY <2>2, Zenon DEF FollowInv, Mi!QueryStarts, Mi!QueryFails, Mi!nativeVars
      <3>2. \/ /\ caller' = [caller EXCEPT ![k] = "read"]
               /\ thread' = [thread EXCEPT ![k] = "wait"]
            \/ caller' = [caller EXCEPT ![k] = "failed"] /\ UNCHANGED thread
        BY <2>2, Zenon DEF Mi!QueryStarts, Mi!QueryFails, Mi!nativeVars
      <3>3. MiTypes'
        BY <3>1, <3>2, SMTT(30) DEF MiTypes
      <3>4. QueryInv'
        BY <3>1, <3>2 DEF MiTypes, QueryInv, Sending
      <3>5. FollowInv'
        BY <2>2, <3>1, <3>2 DEF MiTypes, FollowInv
      <3> QED
        BY <3>3, <3>4, <3>5
    <2> QED
      BY <2>1, <2>2
  <1>2. ASSUME NEW k \in Calls, ReadStep(k)
        PROVE  CInv'
    <2>1. /\ pc[k] = "read" /\ UNCHANGED enabled
          /\ \/ pc' = [pc EXCEPT ![k] = "ended"]
             \/ pc' = [pc EXCEPT ![k] = "loop"]
          /\ IF enabled THEN Mi!Take(k) ELSE UNCHANGED miVars
      BY <1>2, Zenon DEF ReadStep, CReadFails, CFound, ReadFails, Found
    <2>2. CASE ~enabled
      <3>1. UNCHANGED <<enabled, miVars>>
        BY <2>1, <2>2
      <3> QED
        BY <2>1, <2>2, <3>1, PoolStepsKeepInv DEF MiTypes, CInv
    <2>3. CASE enabled
      <3>1. /\ caller[k] \in {"returned", "failed"} /\ caller' = [caller EXCEPT ![k] = "taken"]
            /\ failed' = [failed EXCEPT ![k] = 0] /\ errs' = [errs EXCEPT ![k] = 0]
            /\ closed' = [closed EXCEPT ![k] = FALSE] /\ UNCHANGED <<thread, errCh>>
        BY <2>1, <2>3 DEF Mi!Take
      <3>2. MiTypes'
        BY <2>1, <3>1, Zenon DEF CInv, MiTypes
      <3>3. QueryInv'
        BY <2>1, <3>1 DEF CInv, MiTypes, QueryInv, Sending
      <3>4. FollowInv'
        BY <2>1, <2>3, <3>1 DEF CInv, MiTypes, FollowInv
      <3> QED
        BY <3>2, <3>3, <3>4, SMTT(30) DEF CInv
    <2> QED
      BY <2>2, <2>3
  <1>3. ASSUME NEW k \in Calls, QueryStep(k)
        PROVE  CInv'
    <2>1. /\ caller[k] = "read" /\ UNCHANGED <<thread, failed, closed, enabled, pc>>
          /\ \/ /\ errCh[k] > 0 /\ UNCHANGED caller
                /\ errCh' = [errCh EXCEPT ![k] = @ - 1] /\ errs' = [errs EXCEPT ![k] = @ + 1]
             \/ /\ errCh[k] = 0 /\ closed[k] /\ UNCHANGED <<errCh, errs>>
                /\ caller' = [caller EXCEPT ![k] = "returned"]
      BY <1>3, Zenon DEF QueryStep, Mi!CallerStep, Mi!ReceiveError, Mi!ReceiveClosed, Mi!nativeVars, vars
    <2>2. MiTypes'
      BY <2>1, SMTT(30) DEF CInv, MiTypes
    <2>3. QueryInv'
      BY <2>1, SMTT(30) DEF CInv, MiTypes, QueryInv, Sending
    <2>4. FollowInv'
      BY <2>1 DEF CInv, MiTypes, FollowInv
    <2> QED
      BY <2>2, <2>3, <2>4 DEF CInv
  <1>4. ASSUME NEW k \in Calls, CallbackStep(k)
        PROVE  CInv'
    <2>1. UNCHANGED <<caller, errs, enabled, pc>> /\ Mi!NativeStep(k)
      BY <1>4, Zenon DEF CallbackStep, Mi!NativeStep, Mi!CallbackFails, Mi!CallbackEmpty, vars,
                  Mi!CallbackInstance, Mi!CallbackStops, Mi!SendError, Mi!MeetsError
    <2>2. \/ /\ thread[k] = "wait" /\ thread' = [thread EXCEPT ![k] = "send"]
             /\ failed' = [failed EXCEPT ![k] = @ + 1] /\ UNCHANGED <<errCh, closed>>
          \/ \E l \in BOOLEAN :
               /\ thread[k] = "wait" /\ UNCHANGED <<errCh, failed>>
               /\ thread' = [thread EXCEPT ![k] = IF l THEN "over" ELSE "wait"]
               /\ closed' = [closed EXCEPT ![k] = l]
          \/ \E l : /\ thread[k] = "send" /\ errCh' = [errCh EXCEPT ![k] = @ + 1]
                    /\ thread' = [thread EXCEPT ![k] = IF l THEN "over" ELSE "wait"]
                    /\ closed' = [closed EXCEPT ![k] = l] /\ UNCHANGED failed
      BY <2>1, Zenon DEF Mi!NativeStep, Mi!CallbackFails, Mi!CallbackEmpty, Mi!CallbackInstance,
                  Mi!CallbackStops, Mi!SendError, Mi!MeetsError, Mi!Callback, Mi!CallbackReturns
    <2>3. caller[k] = "read" /\ ~closed[k]
      BY <2>2, Zenon DEF CInv, QueryInv
    <2>4. MiTypes'
      BY <2>1, <2>2, SMTT(30) DEF CInv, MiTypes
    <2>5. QueryInv'
      BY <2>1, <2>2, <2>3, SMTT(30) DEF CInv, MiTypes, QueryInv, Sending
    <2>6. FollowInv'
      BY <2>1, SMTT(30) DEF CInv, FollowInv
    <2> QED
      BY <2>4, <2>5, <2>6 DEF CInv
  <1>5. ASSUME NEW k \in Calls, CTimeout(k) \/ SendStep(k)
        PROVE  CInv'
    <2>1. /\ UNCHANGED <<enabled, miVars>>
          /\ \/ UNCHANGED pc
             \/ /\ pc[k] \notin {"idle", "read"}
                /\ \E p \in {"loop", "send", "wait", "ended"} : pc' = [pc EXCEPT ![k] = p]
      BY <1>5, Zenon DEF CTimeout, Timeout, SendStep, Add, Send, EndLoop, Wait
    <2> QED
      BY <2>1, PoolStepsKeepInv DEF CInv, MiTypes
  <1>6. ASSUME NEW w \in Workers, PoolStep(w)
        PROVE  CInv'
    <2>1. UNCHANGED <<enabled, miVars, pc>>
      BY <1>6, Zenon DEF PoolStep, WorkerStep, Start, Receive, Finish, Panic
    <2> QED
      BY <2>1, PoolStepsKeepInv, Zenon DEF CInv, MiTypes
  <1>7. CASE CloseStep
    <2>1. UNCHANGED <<enabled, miVars, pc>>
      BY <1>7 DEF CloseStep, CloseChannel, ForgetChannel
    <2> QED
      BY <2>1, PoolStepsKeepInv, Zenon DEF CInv, MiTypes
  <1>8. CASE UNCHANGED allVars
    <2>1. UNCHANGED <<enabled, miVars, pc>>
      BY <1>8, SMTT(30) DEF allVars, vars
    <2> QED
      BY <2>1, PoolStepsKeepInv, Zenon DEF CInv, MiTypes
  <1> QED
    BY <1>1, <1>2, <1>3, <1>4, <1>5, <1>6, <1>7, <1>8, SMTT(30) DEF CNext, Proceed

LEMMA CInvAlways == CSpec => []CInv
  BY CInitInv, CInvInductive, PTL DEF CSpec

\* The query returns every error that its callbacks met, for any number of them.
THEOREM QueryErrorsAreKept == CSpec => []NoErrorIsLost
  <1>1. CInv => NoErrorIsLost
    BY DEF CInv, QueryInv, Sending, NoErrorIsLost
  <1> QED
    BY <1>1, CInvAlways, PTL

\* No callback runs any more when the rows of a query are given to the workers.
THEOREM RowsSettleFirst == CSpec => []RowsAreSettled
  <1>1. CInv => RowsAreSettled
    BY Zenon DEF CInv, QueryInv, FollowInv, RowsAreSettled
  <1> QED
    BY <1>1, CInvAlways, PTL

-----------------------------------------------------------------------------
(* The rows of a query.                                                    *)

RowOk(r) ==
  \A f \in Fields : IF f \in r.has THEN r.row[f] = r.of ELSE r.row[f] < r.of

Rows == {r \in [of : Nat, has : SUBSET Fields, row : [Fields -> Nat]] : RowOk(r)}

\* The element that is reused holds values of the callbacks so far.
ElemInv ==
  /\ count \in [Calls -> Nat] /\ elem \in [Calls -> [Fields -> Nat]]
  /\ \A k \in Calls : \A f \in Fields : elem[k][f] <= count[k]

RowsInv == ElemInv /\ dst \in [Calls -> Seq(Rows)]

\* Unmarshalling an instance sets the fields that it has and keeps the others.
LEMMA FieldsAreSet ==
  ASSUME ElemInv, NEW k \in Calls, NEW had \in SUBSET Fields
  PROVE  /\ Mi!SetFields(k, had) \in [Fields -> Nat]
         /\ \A f \in Fields : /\ f \in had => Mi!SetFields(k, had)[f] = count[k] + 1
                              /\ f \notin had => Mi!SetFields(k, had)[f] <= count[k]
  <1>1. count[k] \in Nat /\ elem[k] \in [Fields -> Nat]
        /\ \A f \in Fields : elem[k][f] <= count[k]
    BY DEF ElemInv
  <1> QED
    BY <1>1 DEF Mi!SetFields

\* A callback keeps what is said of the element.
LEMMA CallbackKeepsElemInv ==
  ASSUME ElemInv, NEW k \in Calls, count' = [count EXCEPT ![k] = @ + 1],
         \/ UNCHANGED elem
         \/ \E had \in SUBSET Fields : elem' = [elem EXCEPT ![k] = Mi!SetFields(k, had)]
  PROVE  ElemInv'
  <1>1. /\ count \in [Calls -> Nat] /\ elem \in [Calls -> [Fields -> Nat]]
        /\ \A j \in Calls : \A f \in Fields : elem[j][f] <= count[j]
    BY DEF ElemInv
  <1>2. /\ count' \in [Calls -> Nat] /\ count'[k] = count[k] + 1
        /\ \A j \in Calls \ {k} : count'[j] = count[j]
    BY <1>1
  <1>3. CASE UNCHANGED elem
    BY <1>1, <1>2, <1>3 DEF ElemInv
  <1>4. ASSUME NEW had \in SUBSET Fields, elem' = [elem EXCEPT ![k] = Mi!SetFields(k, had)]
        PROVE  ElemInv'
    <2> DEFINE e == Mi!SetFields(k, had)
    <2>1. /\ e \in [Fields -> Nat]
          /\ \A f \in Fields : e[f] = count[k] + 1 \/ e[f] <= count[k]
      BY FieldsAreSet
    <2>2. elem' = [elem EXCEPT ![k] = e]
      BY <1>4
    <2> HIDE DEF e
    <2>3. elem' \in [Calls -> [Fields -> Nat]] /\ elem'[k] = e
          /\ \A j \in Calls \ {k} : elem'[j] = elem[j]
      BY <1>1, <2>1, <2>2, SMTT(30)
    <2>4. \A f \in Fields : e[f] <= count'[k]
      BY <1>1, <1>2, <2>1
    <2>5. \A j \in Calls : \A f \in Fields : elem'[j][f] <= count'[j]
      BY <1>1, <1>2, <2>3, <2>4
    <2> QED
      BY <1>2, <2>3, <2>5 DEF ElemInv
  <1> QED
    BY <1>3, <1>4

LEMMA RowsInvInductive == RowsInv /\ [CNext]_allVars => RowsInv'
  <1> SUFFICES ASSUME RowsInv, [CNext]_allVars
               PROVE  RowsInv'
    OBVIOUS
  <1>1. ASSUME UNCHANGED <<count, elem, dst>>
        PROVE  RowsInv'
    BY <1>1 DEF RowsInv, ElemInv
  <1>2. ASSUME NEW k \in Calls, Mi!Take(k)
        PROVE  RowsInv'
    <2>1. /\ count' = [count EXCEPT ![k] = 0]
          /\ elem' = [elem EXCEPT ![k] = [f \in Fields |-> 0]]
          /\ dst' = [dst EXCEPT ![k] = <<>>]
      BY <1>2 DEF Mi!Take, Mi!Zero
    <2>2. <<>> \in Seq(Rows)
      OBVIOUS
    <2>3. dst' \in [Calls -> Seq(Rows)]
      BY <2>1, <2>2 DEF RowsInv
    <2>4. ElemInv'
      BY <2>1 DEF RowsInv, ElemInv
    <2> QED
      BY <2>3, <2>4 DEF RowsInv
  <1>3. ASSUME NEW k \in Calls, Mi!CallbackInstance(k)
        PROVE  RowsInv'
    <2>1. PICK had \in SUBSET Fields :
            /\ count' = [count EXCEPT ![k] = @ + 1]
            /\ elem' = [elem EXCEPT ![k] = Mi!SetFields(k, had)]
            /\ Mi!AppendRow(k, had, Mi!SetFields(k, had))
      BY <1>3, Zenon DEF Mi!CallbackInstance, Mi!Callback
    <2> DEFINE e == Mi!SetFields(k, had)
               r == [of |-> count[k] + 1, has |-> had, row |-> e]
    <2>2. r \in Rows
      <3>1. /\ e \in [Fields -> Nat] /\ count[k] \in Nat
            /\ \A f \in Fields : /\ f \in had => e[f] = count[k] + 1
                                 /\ f \notin had => e[f] <= count[k]
        BY FieldsAreSet, Zenon DEF RowsInv, ElemInv
      <3> HIDE DEF e
      <3>2. r \in [of : Nat, has : SUBSET Fields, row : [Fields -> Nat]]
        BY <3>1, SMTT(30)
      <3>3. RowOk(r)
        BY <3>1 DEF RowOk
      <3> QED
        BY <3>2, <3>3 DEF Rows
    <2>3. dst' = [dst EXCEPT ![k] = Append(dst[k], r)]
      BY <2>1 DEF Mi!AppendRow
    <2> HIDE DEF r
    <2>4. Append(dst[k], r) \in Seq(Rows)
      BY <2>2 DEF RowsInv
    <2>5. dst' \in [Calls -> Seq(Rows)]
      BY <2>3, <2>4 DEF RowsInv
    <2>6. ElemInv'
      BY <2>1, CallbackKeepsElemInv, Zenon DEF RowsInv
    <2> QED
      BY <2>5, <2>6 DEF RowsInv
  <1>4. ASSUME NEW k \in Calls, Mi!CallbackStops(k)
        PROVE  RowsInv'
    <2>1. PICK had \in SUBSET Fields :
            /\ count' = [count EXCEPT ![k] = @ + 1]
            /\ elem' = [elem EXCEPT ![k] = Mi!SetFields(k, had)]
            /\ UNCHANGED dst
      BY <1>4, Zenon DEF Mi!CallbackStops, Mi!Callback, Mi!MeetsError
    <2>2. ElemInv'
      BY <2>1, CallbackKeepsElemInv, Zenon DEF RowsInv
    <2> QED
      BY <2>1, <2>2 DEF RowsInv
  <1>5. ASSUME NEW k \in Calls, Mi!CallbackFails(k) \/ Mi!CallbackEmpty(k)
        PROVE  RowsInv'
    <2>1. count' = [count EXCEPT ![k] = @ + 1] /\ UNCHANGED <<elem, dst>>
      BY <1>5, Zenon DEF Mi!CallbackFails, Mi!CallbackEmpty, Mi!Callback, Mi!MeetsError
    <2>2. ElemInv'
      BY <2>1, CallbackKeepsElemInv, Zenon DEF RowsInv
    <2> QED
      BY <2>1, <2>2 DEF RowsInv
  <1>6. ASSUME NEW k \in Calls, CallbackStep(k)
        PROVE  RowsInv'
    <2>1. Mi!SendError(k) => UNCHANGED <<count, elem, dst>>
      BY DEF Mi!SendError
    <2> QED
      BY <1>1, <1>3, <1>4, <1>5, <1>6, <2>1, SMTT(30) DEF CallbackStep, Mi!NativeStep
  <1>7. ASSUME NEW k \in Calls, CBegin(k) \/ CTimeout(k) \/ QueryStep(k) \/ SendStep(k)
        PROVE  RowsInv'
    <2>1. UNCHANGED <<count, elem, dst>>
      BY <1>7, Zenon DEF CBegin, CTimeout, QueryStep, SendStep, miVars, Mi!QueryStarts, Mi!QueryFails,
                  Mi!CallerStep, Mi!ReceiveError, Mi!ReceiveClosed, Mi!nativeVars
    <2> QED
      BY <1>1, <2>1
  <1>8. ASSUME NEW k \in Calls, ReadStep(k)
        PROVE  RowsInv'
    <2>1. Mi!Take(k) \/ UNCHANGED <<count, elem, dst>>
      BY <1>8 DEF ReadStep, CReadFails, CFound, miVars
    <2> QED
      BY <1>1, <1>2, <2>1, SMTT(30)
  <1>9. ASSUME CloseStep \/ UNCHANGED allVars \/ \E w \in Workers : PoolStep(w)
        PROVE  RowsInv'
    <2>1. UNCHANGED <<count, elem, dst>>
      BY <1>9 DEF CloseStep, PoolStep, allVars, miVars
    <2> QED
      BY <1>1, <2>1, SMTT(30)
  <1> QED
    BY <1>6, <1>7, <1>8, <1>9 DEF CNext, Proceed

\* A row holds the value of another instance only in a field that its own
\* instance does not have, for any number of fields and instances.
THEOREM StaleValuesFillGaps == CSpec => []StaleOnlyIfMissing
  <1>1. CInit => RowsInv
    <2> SUFFICES ASSUME CInit
                 PROVE  RowsInv
      OBVIOUS
    <2>1. \A k \in Calls : dst[k] = <<>> /\ count[k] = 0 /\ elem[k] = [f \in Fields |-> 0]
      BY DEF CInit, Mi!Init, Mi!Zero
    <2>2. /\ count \in [Calls -> Nat] /\ elem \in [Calls -> [Fields -> Nat]]
          /\ dst = [k \in Calls |-> <<>>]
      BY DEF CInit, Mi!Init, Mi!Zero
    <2>3. ElemInv
      BY <2>1, <2>2 DEF ElemInv
    <2>4. <<>> \in Seq(Rows)
      BY SMTT(30)
    <2> QED
      BY <2>2, <2>3, <2>4 DEF RowsInv
  <1>2. RowsInv => StaleOnlyIfMissing
    <2> SUFFICES ASSUME RowsInv, NEW k \in Calls, NEW i \in 1..Len(dst[k]), NEW f \in Fields
                 PROVE  RowOk(dst[k][i])
      BY Zenon DEF StaleOnlyIfMissing, RowOk
    <2>1. dst[k] \in Seq(Rows)
      BY SMTT(30) DEF RowsInv
    <2>2. dst[k][i] \in Rows
      BY <2>1
    <2> QED
      BY <2>2 DEF Rows
  <1> QED
    BY <1>1, <1>2, RowsInvInductive, PTL DEF CSpec

\* What is proved of the pool holds with the query before it.
THEOREM PoolOfTheComposition ==
  CSpec => [](/\ TypeOK /\ WaitGroupIsExact /\ NoStraySend /\ PoolKeepsItsSize
              /\ WaitersAreServed)
  BY ComposedIsPool, TypeCorrect, WaitGroupsAreExact, NoWorkerSendsAstray, PanicsAreMadeGood,
     NoWaiterIsForgotten, PTL
=============================================================================
