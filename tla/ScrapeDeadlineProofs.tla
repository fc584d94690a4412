------------------------ MODULE ScrapeDeadlineProofs ------------------------
(***************************************************************************)
(* Proofs about ScrapeDeadline, for any number of scrapes, any header, any *)
(* margin and any length of time.                                          *)
(***************************************************************************)
EXTENDS ScrapeDeadline, TLAPS

\* The mutex belongs to the scrape that collects.
MutexInv == \A r \in Requests : request[r] = "collecting" <=> mutex = r

\* A scrape starts after it arrived, and ends within its budget.
TimeInv ==
  \A r \in Requests :
    /\ arrived[r] <= now
    /\ request[r] \in {"collecting", "answered"} =>
         arrived[r] <= started[r] /\ started[r] <= now
    /\ request[r] = "collecting" => now <= started[r] + Budget(header[r])
    /\ request[r] = "answered" => /\ started[r] <= answered[r] /\ answered[r] <= now
                                  /\ answered[r] <= started[r] + Budget(header[r])

\* Scrape s holds the mutex during the tick that begins at time t.
Serves(s, t) ==
  /\ request[s] \in {"collecting", "answered"}
  /\ started[s] <= t
  /\ request[s] = "answered" => t < answered[s]

\* Scrapes hold the mutex one after the other.
OrderInv ==
  \A r, s \in Requests :
    /\ r # s
    /\ request[r] \in {"collecting", "answered"}
    /\ request[s] \in {"collecting", "answered"}
    => \/ request[r] = "answered" /\ answered[r] <= started[s]
       \/ request[s] = "answered" /\ answered[s] <= started[r]

\* While a scrape waits or collects, some scrape holds the mutex.
BusyInv ==
  \A r \in Requests :
    /\ request[r] \in {"waiting", "collecting"} =>
         \A t \in arrived[r]..(now - 1) : \E s \in Requests : Serves(s, t)
    /\ request[r] = "answered" =>
         \A t \in arrived[r]..(answered[r] - 1) : \E s \in Requests : Serves(s, t)

IInv == TypeOK /\ MutexInv /\ TimeInv /\ OrderInv /\ BusyInv

-----------------------------------------------------------------------------
(* The budget.                                                             *)

\* The larger of zero and a number.
LEMMA MaxWithZero ==
  ASSUME NEW x \in Int
  PROVE  Max({0, x}) = IF x > 0 THEN x ELSE 0
  BY DEF Max

\* Cutting off the fraction does not lengthen a duration.
LEMMA WholeSecondsIsLess ==
  ASSUME NEW t \in Int
  PROVE  /\ WholeSeconds(t) \in Int
         /\ t >= 0 => WholeSeconds(t) >= 0 /\ WholeSeconds(t) <= t
         /\ t < 0 => WholeSeconds(t) <= 0
  BY DeadlineAssumption DEF WholeSeconds

\* What a header allows the scrape is a number of ticks.
LEMMA AllowedType ==
  ASSUME NEW h \in HeaderValues
  PROVE  AllowedByClient(h) \in Nat
  BY DeadlineAssumption DEF HeaderValues, AllowedByClient

\* The budget is a number of ticks, and leaves the margin.
LEMMA BudgetIsLess ==
  ASSUME NEW h \in HeaderValues
  PROVE  /\ Budget(h) \in Nat
         /\ Budget(h) <= Max({0, AllowedByClient(h) - Margin})
  <1> DEFINE d == AllowedByClient(h) - Margin
  <1>1. d \in Int
    BY AllowedType, DeadlineAssumption
  <1>2. Budget(h) = Max({0, WholeSeconds(d)})
    BY Zenon DEF Budget, getScrapeTimeout
  <1> HIDE DEF d
  <1>3. Max({0, d}) = IF d > 0 THEN d ELSE 0
    BY <1>1, MaxWithZero
  <1>4. Max({0, WholeSeconds(d)}) = IF WholeSeconds(d) > 0 THEN WholeSeconds(d) ELSE 0
    BY <1>1, MaxWithZero, WholeSecondsIsLess
  <1>5. Budget(h) \in Nat /\ Budget(h) <= Max({0, d})
    BY <1>1, <1>2, <1>3, <1>4, WholeSecondsIsLess
  <1> QED
    BY <1>5 DEF d

-----------------------------------------------------------------------------
(* The inductive invariant.                                                *)

\* The invariant holds before any request has arrived.
LEMMA InitIInv == Init => IInv
  BY DeadlineAssumption DEF Init, IInv, TypeOK, MutexInv, TimeInv, OrderInv, BusyInv, HeaderValues

\* Every step of a request and of the clock keeps it.
LEMMA IInvInductive == IInv /\ [Next]_vars => IInv'
  <1> SUFFICES ASSUME IInv, [Next]_vars
               PROVE  IInv'
    OBVIOUS
  <1>i. TypeOK /\ MutexInv /\ TimeInv /\ OrderInv /\ BusyInv
    BY DEF IInv
  <1>b. \A r \in Requests : Budget(header[r]) \in Nat
    BY <1>i, BudgetIsLess, Zenon DEF TypeOK
  <1>n. now \in Nat /\ \A r \in Requests : arrived[r] \in Nat /\ started[r] \in Nat /\ answered[r] \in Nat
    BY <1>i DEF TypeOK
  <1>1. ASSUME NEW q \in Requests, ServeHTTP(q)
        PROVE  IInv'
    <2> USE <1>1 DEF ServeHTTP
    <2>1. TypeOK'
      BY <1>i DEF TypeOK
    <2>2. request[q] = "idle" /\ request'[q] = "waiting" /\ arrived'[q] = now
      BY <1>i DEF TypeOK
    <2>3. \A r \in Requests \ {q} : request'[r] = request[r] /\ arrived'[r] = arrived[r] /\ header'[r] = header[r]
      BY <1>i DEF TypeOK
    <2> HIDE <1>1 DEF ServeHTTP
    <2>4. now' = now /\ mutex' = mutex /\ started' = started /\ answered' = answered
      BY <1>1 DEF ServeHTTP
    <2>5. MutexInv'
      BY <1>i, <2>2, <2>3, <2>4 DEF MutexInv
    <2>6. TimeInv'
      BY <1>i, <1>n, <2>2, <2>3, <2>4 DEF TimeInv
    <2>7. OrderInv'
      BY <1>i, <2>2, <2>3, <2>4 DEF OrderInv
    <2>8. \A s \in Requests, t \in Nat : Serves(s, t) => Serves(s, t)'
      BY <2>2, <2>3, <2>4 DEF Serves
    <2>9. BusyInv'
      BY <1>i, <1>n, <2>2, <2>3, <2>4, <2>8 DEF BusyInv
    <2> QED
      BY <2>1, <2>5, <2>6, <2>7, <2>9 DEF IInv
  <1>2. ASSUME NEW q \in Requests, ServeHTTPRejects(q)
        PROVE  IInv'
    <2>1. TypeOK'
      BY <1>i, <1>2 DEF TypeOK, ServeHTTPRejects
    <2>2. request[q] = "idle" /\ request'[q] = "rejected"
      BY <1>i, <1>2 DEF TypeOK, ServeHTTPRejects
    <2>3. \A r \in Requests \ {q} : request'[r] = request[r]
      BY <1>i, <1>2 DEF TypeOK, ServeHTTPRejects
    <2>4. UNCHANGED <<now, header, mutex, arrived, started, answered>>
      BY <1>2 DEF ServeHTTPRejects
    <2>5. MutexInv'
      BY <1>i, <2>2, <2>3, <2>4 DEF MutexInv
    <2>6. TimeInv'
      BY <1>i, <1>n, <2>2, <2>3, <2>4 DEF TimeInv
    <2>7. OrderInv'
      BY <1>i, <2>2, <2>3, <2>4 DEF OrderInv
    <2>8. \A s \in Requests, t \in Nat : Serves(s, t) => Serves(s, t)'
      BY <2>2, <2>3, <2>4 DEF Serves
    <2>9. BusyInv'
      BY <1>i, <1>n, <2>2, <2>3, <2>4, <2>8 DEF BusyInv
    <2> QED
      BY <2>1, <2>5, <2>6, <2>7, <2>9 DEF IInv
  <1>3. ASSUME NEW q \in Requests, Lock(q)
        PROVE  IInv'
    <2>1. TypeOK'
      BY <1>i, <1>3 DEF TypeOK, Lock
    <2>2. /\ request[q] = "waiting" /\ request'[q] = "collecting" /\ started'[q] = now
          /\ mutex = NoRequest /\ mutex' = q
      BY <1>i, <1>3 DEF TypeOK, Lock
    <2>3. \A r \in Requests \ {q} : request'[r] = request[r] /\ started'[r] = started[r]
      BY <1>i, <1>3 DEF TypeOK, Lock
    <2>4. UNCHANGED <<now, header, arrived, answered>>
      BY <1>3 DEF Lock
    <2>0. \A r \in Requests : request[r] # "collecting"
      BY <1>i, <2>2, DeadlineAssumption DEF MutexInv
    <2>5. MutexInv'
      BY <2>0, <2>2, <2>3 DEF MutexInv
    <2>6. TimeInv'
      BY <1>i, <1>n, <1>b, <2>2, <2>3, <2>4 DEF TimeInv
    <2>7. OrderInv'
      BY <1>i, <1>n, <2>0, <2>2, <2>3, <2>4 DEF OrderInv, TimeInv
    <2>8. \A s \in Requests, t \in Nat : Serves(s, t) => Serves(s, t)'
      BY <2>2, <2>3, <2>4 DEF Serves
    <2>9. BusyInv'
      BY <1>i, <1>n, <2>2, <2>3, <2>4, <2>8 DEF BusyInv
    <2> QED
      BY <2>1, <2>5, <2>6, <2>7, <2>9 DEF IInv
  <1>4. ASSUME NEW q \in Requests, Unlock(q)
        PROVE  IInv'
    <2>1. TypeOK'
      BY <1>i, <1>4 DEF TypeOK, Unlock
    <2>2. /\ request[q] = "collecting" /\ request'[q] = "answered" /\ answered'[q] = now
          /\ mutex' = NoRequest
      BY <1>i, <1>4 DEF TypeOK, Unlock
    <2>3. \A r \in Requests \ {q} : request'[r] = request[r] /\ answered'[r] = answered[r]
      BY <1>i, <1>4 DEF TypeOK, Unlock
    <2>4. UNCHANGED <<now, header, arrived, started>>
      BY <1>4 DEF Unlock
    <2>5. MutexInv'
      BY <1>i, <2>2, <2>3, DeadlineAssumption DEF MutexInv
    <2>6. TimeInv'
      BY <1>i, <1>n, <1>b, <2>2, <2>3, <2>4 DEF TimeInv
    <2>0. \A r \in Requests \ {q} : request[r] # "collecting"
      BY <1>i, <2>2 DEF MutexInv
    <2>7. OrderInv'
      BY <1>i, <1>n, <2>0, <2>2, <2>3, <2>4 DEF OrderInv, TimeInv
    <2>8. \A s \in Requests, t \in Nat : Serves(s, t) /\ t < now => Serves(s, t)'
      BY <1>n, <2>2, <2>3, <2>4 DEF Serves
    <2>9. BusyInv'
      BY <1>i, <1>n, <2>2, <2>3, <2>4, <2>8 DEF BusyInv, TimeInv
    <2> QED
      BY <2>1, <2>5, <2>6, <2>7, <2>9 DEF IInv
  <1>5. CASE Tick
    <2>1. TypeOK'
      BY <1>i, <1>5, DeadlineAssumption DEF TypeOK, Tick
    <2>2. /\ now' = now + 1
          /\ UNCHANGED <<request, header, mutex, arrived, started, answered>>
      BY <1>5 DEF Tick
    <2>3. \A r \in Requests : /\ request[r] = "collecting" => now < started[r] + Budget(header[r])
                              /\ request[r] = "waiting" => mutex # NoRequest
      BY <1>5, Zenon DEF Tick
    <2>5. MutexInv' /\ OrderInv'
      BY <1>i, <2>2 DEF MutexInv, OrderInv
    <2>6. TimeInv'
      BY <1>i, <1>n, <1>b, <2>2, <2>3 DEF TimeInv
    <2>8. \A s \in Requests, t \in Nat : Serves(s, t) => Serves(s, t)'
      BY <2>2 DEF Serves
    <2>7. ASSUME NEW r \in Requests, request[r] \in {"waiting", "collecting"}
          PROVE  \E s \in Requests : Serves(s, now)
      <3>1. mutex \in Requests /\ request[mutex] = "collecting"
        BY <1>i, <2>3, <2>7 DEF MutexInv, TypeOK
      <3> QED
        BY <1>i, <1>n, <3>1 DEF TimeInv, Serves
    <2>9. BusyInv'
      <3> SUFFICES ASSUME NEW r \in Requests
                   PROVE  /\ request[r] \in {"waiting", "collecting"} =>
                               \A t \in arrived[r]..now : \E s \in Requests : Serves(s, t)'
                          /\ request[r] = "answered" =>
                               \A t \in arrived[r]..(answered[r] - 1) : \E s \in Requests : Serves(s, t)'
        BY <1>n, <2>2 DEF BusyInv
      <3>1. \A t \in arrived[r]..now : t \in Nat /\ (t \in arrived[r]..(now - 1) \/ t = now)
        BY <1>n
      <3> QED
        BY <1>i, <1>n, <2>7, <2>8, <3>1 DEF BusyInv
    <2> QED
      BY <2>1, <2>5, <2>6, <2>9 DEF IInv
  <1>6. CASE UNCHANGED vars
    BY <1>i, <1>6 DEF IInv, TypeOK, MutexInv, TimeInv, OrderInv, BusyInv, Serves, vars
  <1> QED
    BY <1>1, <1>2, <1>3, <1>4, <1>5, <1>6 DEF Next, Done

\* The invariant holds in every behaviour.
LEMMA IInvAlways == Spec => []IInv
  BY InitIInv, IInvInductive, PTL DEF Spec

-----------------------------------------------------------------------------
(* Sums over sets of scrapes.                                              *)

INSTANCE FiniteSetTheorems

\* A set of naturals has a least element: induction on the size of a set is done
\* with it.
LEMMA LeastNatural ==
  ASSUME NEW T \in SUBSET Nat, T # {}
  PROVE  \E x \in T : \A y \in T : x <= y
  <1> DEFINE R == {ss \in Nat \X Nat : ss[1] < ss[2]}
  <1>1. IsWellFoundedOn(R, Nat)
    BY NatLessThanWellFounded DEF OpToRel
  <1>2. \A x, y \in T : y < x => <<y, x>> \in R
    OBVIOUS
  <1> HIDE DEF R
  <1>3. PICK x \in T : \A y \in T : ~(<<y, x>> \in R)
    BY <1>1, WFMin, Zenon
  <1>4. \A y \in T : ~(y < x)
    BY <1>2, <1>3, Zenon
  <1> QED
    BY <1>4

Pick(T) == CHOOSE x \in T : TRUE
Cost(s) == Budget(header[s])

\* One step of the recursion in MapThenSumSet.
SumStep(f, T) == IF T = {} THEN 0 ELSE Cost(Pick(T)) + f[T \ {Pick(T)}]

\* Removing the element that is picked makes a finite set smaller by one.
LEMMA PickSmaller ==
  ASSUME NEW S, IsFiniteSet(S), NEW T \in SUBSET S, T # {}
  PROVE  /\ Pick(T) \in T /\ T \ {Pick(T)} \in SUBSET S
         /\ Cardinality(T) \in Nat /\ Cardinality(T \ {Pick(T)}) \in Nat
         /\ Cardinality(T \ {Pick(T)}) = Cardinality(T) - 1
  <1>1. Pick(T) \in T
    BY Zenon DEF Pick
  <1>2. IsFiniteSet(T) /\ IsFiniteSet(T \ {Pick(T)})
    BY FS_Subset, FS_RemoveElement, Zenon
  <1>3. Cardinality(T \ {Pick(T)}) = Cardinality(T) - 1
    BY <1>1, <1>2, FS_RemoveElement
  <1> QED
    BY <1>1, <1>2, <1>3, FS_CardinalityType

\* The recursion has a solution, and it is a natural number everywhere.
LEMMA SumIsDefined ==
  ASSUME NEW S, IsFiniteSet(S), \A s \in S : Cost(s) \in Nat
  PROVE  \E f \in [SUBSET S -> Nat] : f = [T \in SUBSET S |-> SumStep(f, T)]
  <1> DEFINE Upto(n, f) == \A T \in SUBSET S : Cardinality(T) <= n => f[T] = SumStep(f, T)
  <1> DEFINE Bad == {n \in Nat : ~\E f \in [SUBSET S -> Nat] : Upto(n, f)}
  <1>f. \A T \in SUBSET S : IsFiniteSet(T) /\ Cardinality(T) \in Nat /\ Cardinality(T) <= Cardinality(S)
    BY FS_Subset, FS_CardinalityType
  <1>1. ASSUME NEW f \in [SUBSET S -> Nat], NEW T \in SUBSET S
        PROVE  SumStep(f, T) \in Nat
    <2>1. CASE T = {}
      BY <2>1 DEF SumStep
    <2>2. CASE T # {}
      <3>1. Cost(Pick(T)) \in Nat /\ f[T \ {Pick(T)}] \in Nat
        BY <2>2, PickSmaller, Zenon
      <3>2. SumStep(f, T) = Cost(Pick(T)) + f[T \ {Pick(T)}]
        BY <2>2, Zenon DEF SumStep
      <3> QED
        BY <3>1, <3>2
    <2> QED
      BY <2>1, <2>2
  <1>2. Bad = {}
    <2> SUFFICES ASSUME Bad # {}
                 PROVE  FALSE
      BY Zenon
    <2>1. PICK n \in Bad : \A m \in Bad : n <= m
      BY LeastNatural, Zenon
    <2>2. CASE n = 0
      <3> DEFINE z == [T \in SUBSET S |-> 0]
      <3>1. z \in [SUBSET S -> Nat]
        OBVIOUS
      <3>2. ASSUME NEW T \in SUBSET S, Cardinality(T) <= 0
            PROVE  z[T] = SumStep(z, T)
        <4>1. T = {}
          BY <1>f, <3>2, FS_EmptySet
        <4> QED
          BY <4>1, Zenon DEF SumStep
      <3> QED
        BY <2>1, <2>2, <3>1, <3>2, Zenon
    <2>3. CASE n # 0
      <3>1. n - 1 \in Nat /\ ~(n <= n - 1)
        BY <2>1, <2>3
      <3>2. PICK f \in [SUBSET S -> Nat] : Upto(n - 1, f)
        BY <2>1, <3>1, Zenon
      <3> DEFINE g == [T \in SUBSET S |-> SumStep(f, T)]
      <3>3. g \in [SUBSET S -> Nat]
        BY <1>1, Zenon
      <3>4. ASSUME NEW T \in SUBSET S, Cardinality(T) <= n
            PROVE  g[T] = SumStep(g, T)
        <4>1. CASE T = {}
          BY <4>1, Zenon DEF SumStep
        <4>2. CASE T # {}
          <5> DEFINE U == T \ {Pick(T)}
          <5>1. U \in SUBSET S /\ Cardinality(U) <= n - 1
            BY <3>1, <3>4, <4>2, PickSmaller
          <5>2. f[U] = SumStep(f, U)
            BY <3>2, <5>1, Zenon
          <5>3. g[U] = f[U]
            BY <5>1, <5>2, Zenon
          <5> QED
            BY <4>2, <5>3, Zenon DEF SumStep
        <4> QED
          BY <4>1, <4>2
      <3> QED
        BY <2>1, <3>3, <3>4, Zenon
    <2> QED
      BY <2>2, <2>3
  <1>3. Cardinality(S) \in Nat
    BY FS_CardinalityType
  <1>4. PICK f \in [SUBSET S -> Nat] : Upto(Cardinality(S), f)
    BY <1>2, <1>3, Zenon
  <1>5. \A T \in SUBSET S : f[T] = SumStep(f, T)
    BY <1>f, <1>4, Zenon
  <1>6. f = [T \in SUBSET S |-> SumStep(f, T)]
    BY <1>5, Zenon
  <1> QED
    BY <1>6, Zenon

\* Every solution of the recursion is a natural number everywhere.
LEMMA SumIsNatural ==
  ASSUME NEW S, IsFiniteSet(S), \A s \in S : Cost(s) \in Nat,
         NEW g, g = [T \in SUBSET S |-> SumStep(g, T)]
  PROVE  g \in [SUBSET S -> Nat]
  <1> DEFINE Bad == {n \in Nat : \E T \in SUBSET S : Cardinality(T) = n /\ g[T] \notin Nat}
  <1>1. \A T \in SUBSET S : g[T] = SumStep(g, T)
    BY Zenon
  <1>2. Bad = {}
    <2> SUFFICES ASSUME Bad # {}
                 PROVE  FALSE
      BY Zenon
    <2>1. PICK n \in Bad : \A m \in Bad : n <= m
      BY LeastNatural, Zenon
    <2>2. PICK T \in SUBSET S : Cardinality(T) = n /\ g[T] \notin Nat
      BY <2>1, Zenon
    <2>3. T # {}
      BY <1>1, <2>2 DEF SumStep
    <2>4. Pick(T) \in T /\ T \ {Pick(T)} \in SUBSET S
      BY <2>3, PickSmaller, Zenon
    <2>5. Cardinality(T \ {Pick(T)}) = n - 1 /\ Cardinality(T \ {Pick(T)}) \in Nat
      BY <2>2, <2>3, PickSmaller, Zenon
    <2>6. n - 1 \in Nat /\ ~(n <= n - 1)
      BY <2>1, <2>5
    <2>7. g[T \ {Pick(T)}] \in Nat
      BY <2>1, <2>4, <2>5, <2>6, Zenon
    <2>8. g[T] = Cost(Pick(T)) + g[T \ {Pick(T)}] /\ Cost(Pick(T)) \in Nat
      BY <1>1, <2>3, <2>4, Zenon DEF SumStep
    <2> QED
      BY <2>2, <2>7, <2>8
  <1>3. \A T \in SUBSET S : Cardinality(T) \in Nat
    BY FS_Subset, FS_CardinalityType, Zenon
  <1>4. \A T \in SUBSET S : g[T] \in Nat
    BY <1>2, <1>3, Zenon
  <1>5. \A T \in SUBSET S : SumStep(g, T) \in Nat
    BY <1>1, <1>4, Zenon
  <1>6. [T \in SUBSET S |-> SumStep(g, T)] \in [SUBSET S -> Nat]
    BY <1>5, Zenon
  <1> QED
    BY <1>6, Zenon

\* What MapThenSumSet computes.
LEMMA SumOfCosts ==
  ASSUME NEW S, IsFiniteSet(S), \A s \in S : Cost(s) \in Nat
  PROVE  \E f \in [SUBSET S -> Nat] :
           /\ \A T \in SUBSET S : f[T] = SumStep(f, T)
           /\ MapThenSumSet(LAMBDA s : Budget(header[s]), S) = f[S]
  <1> DEFINE Solves(f) == f = [T \in SUBSET S |-> SumStep(f, T)]
  <1> DEFINE g == CHOOSE f : Solves(f)
  <1>1. MapThenSumSet(LAMBDA s : Budget(header[s]), S) = g[S]
    BY Zenon DEF MapThenSumSet, MapThenFoldSet, SumStep, Pick, Cost
  <1>0. PICK h \in [SUBSET S -> Nat] : h = [T \in SUBSET S |-> SumStep(h, T)]
    BY SumIsDefined, Zenon
  <1>2. \E f : Solves(f)
    BY <1>0, Zenon
  <1> HIDE DEF Solves
  <1>3. Solves(g)
    BY <1>2, Zenon
  <1> HIDE DEF g
  <1>4. g = [T \in SUBSET S |-> SumStep(g, T)]
    BY <1>3, Zenon DEF Solves
  <1>5. g \in [SUBSET S -> Nat]
    BY <1>4, SumIsNatural, Zenon
  <1>6. \A T \in SUBSET S : g[T] = SumStep(g, T)
    BY <1>4, Zenon
  <1> QED
    BY <1>1, <1>5, <1>6, Zenon

\* Ticks that are all covered by the budgets of the scrapes in S, each from its
\* start, are no more than the sum of the budgets.
LEMMA CoveredByBudgets ==
  ASSUME NEW S, IsFiniteSet(S), \A s \in S : Cost(s) \in Nat /\ started[s] \in Nat,
         NEW a \in Nat, NEW b \in Nat, a <= b,
         \A t \in a..(b - 1) : \E s \in S : t \in started[s]..(started[s] + Cost(s) - 1)
  PROVE  b - a <= MapThenSumSet(LAMBDA s : Budget(header[s]), S)
  <1> DEFINE Of(s) == started[s]..(started[s] + Cost(s) - 1)
  <1> DEFINE Cov(T) == {t \in a..(b - 1) : \E s \in T : t \in Of(s)}
  <1>1. PICK f \in [SUBSET S -> Nat] :
           /\ \A T \in SUBSET S : f[T] = SumStep(f, T)
           /\ MapThenSumSet(LAMBDA s : Budget(header[s]), S) = f[S]
    BY SumOfCosts, Zenon
  <1>2. IsFiniteSet(a..(b - 1)) /\ Cardinality(a..(b - 1)) = b - a
    BY FS_Interval
  <1>3. \A T \in SUBSET S : IsFiniteSet(Cov(T)) /\ Cardinality(Cov(T)) \in Nat
    BY <1>2, FS_Subset, FS_CardinalityType, Zenon
  <1>4. ASSUME NEW s \in S
        PROVE  IsFiniteSet(Of(s)) /\ Cardinality(Of(s)) = Cost(s)
    <2> DEFINE i == started[s]  j == started[s] + Cost(s) - 1
    <2>1. i \in Int /\ j \in Int /\ (IF i > j THEN 0 ELSE j - i + 1) = Cost(s)
      OBVIOUS
    <2> HIDE DEF i, j
    <2>2. IsFiniteSet(i..j) /\ Cardinality(i..j) = Cost(s)
      BY <2>1, FS_Interval, Zenon
    <2> QED
      BY <2>2, Zenon DEF i, j
  <1>f. \A T \in SUBSET S : Cardinality(T) \in Nat
    BY FS_Subset, FS_CardinalityType, Zenon
  <1> DEFINE Bad == {n \in Nat : \E T \in SUBSET S : Cardinality(T) = n /\ ~(Cardinality(Cov(T)) <= f[T])}
  <1> HIDE DEF Of
  <1>5. Bad = {}
    <2> SUFFICES ASSUME Bad # {}
                 PROVE  FALSE
      BY Zenon
    <2>1. PICK n \in Bad : \A m \in Bad : n <= m
      BY LeastNatural, Zenon
    <2>2. PICK T \in SUBSET S : Cardinality(T) = n /\ ~(Cardinality(Cov(T)) <= f[T])
      BY <2>1, Zenon
    <2>3. CASE T = {}
      <3>1. Cov(T) = {} /\ f[T] = 0
        BY <1>1, <2>3, Zenon DEF SumStep
      <3>2. Cardinality(Cov(T)) = 0
        BY <3>1, FS_EmptySet, Zenon
      <3>3. ~(0 <= 0)
        BY <2>2, <3>1, <3>2, Zenon
      <3> QED
        BY <3>3
    <2>4. CASE T # {}
      <3> DEFINE x == Pick(T)  U == T \ {Pick(T)}
      <3>a. Pick(T) \in T /\ T \ {Pick(T)} \in SUBSET S
        BY <2>4, PickSmaller, Zenon
      <3>b. Cardinality(T \ {Pick(T)}) = n - 1 /\ Cardinality(T \ {Pick(T)}) \in Nat
        BY <2>2, <2>4, PickSmaller, Zenon
      <3>1. x \in T /\ U \in SUBSET S /\ Cardinality(U) = n - 1 /\ n - 1 \in Nat
        BY <3>a, <3>b, Zenon
      <3>2. f[T] = Cost(x) + f[U] /\ Cost(x) \in Nat /\ f[U] \in Nat
        BY <1>1, <2>4, <3>1, Zenon DEF SumStep
      <3>0. n \in Nat
        BY <2>1, Zenon
      <3>3. ~(n <= n - 1)
        BY <3>0
      <3>4. Cardinality(Cov(U)) <= f[U]
        BY <2>1, <3>1, <3>3, Zenon
      <3>5. Cov(T) \subseteq Cov(U) \cup Of(x)
        BY <3>1, Zenon
      <3> HIDE DEF x, U, Cov
      <3>6. IsFiniteSet(Cov(U) \cup Of(x)) /\ IsFiniteSet(Cov(U) \cap Of(x))
        BY <1>3, <1>4, <3>1, FS_Union, FS_Intersection, Zenon
      <3>7. Cardinality(Cov(U) \cup Of(x)) = Cardinality(Cov(U)) + Cardinality(Of(x)) - Cardinality(Cov(U) \cap Of(x))
        BY <1>3, <1>4, <3>1, FS_Union, Zenon
      <3>8. Cardinality(Cov(T)) <= Cardinality(Cov(U) \cup Of(x))
        BY <3>5, <3>6, FS_Subset, Zenon
      <3>9. Cardinality(Cov(U) \cap Of(x)) \in Nat
        BY <3>6, FS_CardinalityType, Zenon
      <3>10. Cardinality(Of(x)) = Cost(x) /\ Cardinality(Cov(U)) \in Nat /\ Cardinality(Cov(T)) \in Nat
        BY <1>3, <1>4, <3>1, Zenon
      <3> QED
        BY <2>2, <3>2, <3>4, <3>7, <3>8, <3>9, <3>10
    <2> QED
      BY <2>3, <2>4
  <1>6. Cov(S) = a..(b - 1)
    BY Zenon DEF Of
  <1> QED
    BY <1>1, <1>2, <1>5, <1>6, <1>f, Zenon

-----------------------------------------------------------------------------
(* The theorems.                                                           *)

\* Times stay within the clock, and the mutex is free or belongs to a scrape
\* (httphandler.go:94-118, handler.go:67-71).
THEOREM TypeCorrect == Spec => []TypeOK
  <1>1. IInv => TypeOK
    BY DEF IInv
  <1> QED
    BY IInvAlways, <1>1, PTL

\* A scrape that need not wait is answered within what the client allows, less
\* the margin, whatever the header says (httphandler.go:116-118).
THEOREM AnsweredInTime == Spec => []InTimeIfAlone
  <1>1. IInv => InTimeIfAlone
    <2> SUFFICES ASSUME IInv, NEW r \in Requests, request[r] = "answered", started[r] = arrived[r]
                 PROVE  answered[r] - arrived[r] <= Max({0, AllowedByClient(header[r]) - Margin})
      BY DEF InTimeIfAlone
    <2> DEFINE m == Max({0, AllowedByClient(header[r]) - Margin})
    <2>1. header[r] \in HeaderValues /\ arrived[r] \in Nat /\ answered[r] \in Nat
      BY DEF IInv, TypeOK
    <2>2. answered[r] <= arrived[r] + Budget(header[r])
      BY DEF IInv, TimeInv
    <2>3. Budget(header[r]) \in Nat /\ Budget(header[r]) <= m
      BY <2>1, BudgetIsLess, Zenon
    <2>4. m \in Int
      BY <2>1, AllowedType, MaxWithZero, DeadlineAssumption
    <2> HIDE DEF m
    <2>5. answered[r] - arrived[r] <= m
      BY <2>1, <2>2, <2>3, <2>4
    <2> QED
      BY <2>5 DEF m
  <1> QED
    BY IInvAlways, <1>1, PTL

\* However many scrapes queue for the mutex, one is answered no later than after
\* the budgets of those it waited for and its own (handler.go:68,
\* collect.go:120): between its arrival and its answer some scrape always holds
\* the mutex, and none longer than its budget.
THEOREM QueueingIsBounded == Spec => []LatenessIsBounded
  <1>1. IInv => LatenessIsBounded
    <2> SUFFICES ASSUME IInv, NEW r \in Requests, request[r] = "answered"
                 PROVE  LET before == {s \in Requests : /\ request[s] = "answered"
                                                        /\ answered[s] >= arrived[r]
                                                        /\ answered[s] <= answered[r]}
                        IN  answered[r] - arrived[r] <= MapThenSumSet(LAMBDA s : Budget(header[s]), before)
      BY Zenon DEF LatenessIsBounded
    <2> DEFINE before == {s \in Requests : /\ request[s] = "answered"
                                           /\ answered[s] >= arrived[r]
                                           /\ answered[s] <= answered[r]}
    <2>1. IsFiniteSet(before)
      BY DeadlineAssumption, FS_Subset, Zenon
    <2>2. \A s \in Requests : /\ Cost(s) \in Nat /\ started[s] \in Nat
                              /\ arrived[s] \in Nat /\ answered[s] \in Nat
      <3>1. \A s \in Requests : Cost(s) \in Nat
        BY BudgetIsLess, Zenon DEF Cost, IInv, TypeOK
      <3> QED
        BY <3>1 DEF IInv, TypeOK
    <2>3. arrived[r] <= started[r] /\ started[r] <= answered[r]
      BY DEF IInv, TimeInv
    <2>4. ASSUME NEW t \in arrived[r]..(answered[r] - 1)
          PROVE  \E s \in before : t \in started[s]..(started[s] + Cost(s) - 1)
      <3>1. PICK s \in Requests : Serves(s, t)
        BY <2>4 DEF IInv, BusyInv
      <3>t. t \in Nat /\ arrived[r] <= t /\ t < answered[r]
        BY <2>2
      <3>2. CASE started[r] <= t
        <4>1. r \in before
          BY <2>2, <2>3
        <4>2. answered[r] <= started[r] + Cost(r)
          BY DEF IInv, TimeInv, Cost
        <4>3. t \in started[r]..(started[r] + Cost(r) - 1)
          BY <2>2, <3>t, <3>2, <4>2
        <4> QED
          BY <4>1, <4>3, Zenon
      <3>3. CASE t < started[r]
        <4>1. s # r /\ started[s] <= t /\ request[s] \in {"collecting", "answered"}
          BY <2>2, <3>t, <3>1, <3>3, SMTT(30) DEF Serves
        <4>2. request[s] = "answered" /\ answered[s] <= started[r]
          BY <2>2, <2>3, <3>t, <3>3, <4>1, SMTT(30) DEF IInv, OrderInv
        <4>3. t < answered[s] /\ answered[s] <= started[s] + Cost(s)
          BY <3>1, <4>2 DEF Serves, IInv, TimeInv, Cost
        <4>4. s \in before
          BY <2>2, <2>3, <3>t, <4>2, <4>3
        <4>5. t \in started[s]..(started[s] + Cost(s) - 1)
          BY <2>2, <3>t, <4>1, <4>3
        <4> QED
          BY <4>4, <4>5, Zenon
      <3> QED
        BY <2>2, <3>2, <3>3, <3>t
    <2>5. \A s \in before : Cost(s) \in Nat /\ started[s] \in Nat
      BY <2>2, Zenon
    <2>6. arrived[r] \in Nat /\ answered[r] \in Nat /\ arrived[r] <= answered[r]
      BY <2>2, <2>3
    <2> HIDE DEF before
    <2>7. answered[r] - arrived[r] <= MapThenSumSet(LAMBDA s : Budget(header[s]), before)
      BY <2>1, <2>4, <2>5, <2>6, CoveredByBudgets, Zenon
    <2> QED
      BY <2>7, Zenon DEF before
  <1> QED
    BY IInvAlways, <1>1, PTL
=============================================================================
