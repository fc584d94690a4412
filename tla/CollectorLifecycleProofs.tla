---------------------- MODULE CollectorLifecycleProofs ----------------------
(***************************************************************************)
(* Proofs about CollectorLifecycle, for any table of collectors that       *)
(* satisfies ProgramsAssumption and TableAssumption, any sub-collectors    *)
(* enabled and any number of scrapes.                                      *)
(*                                                                         *)
(* What is said of a collector is written with operators over values (the  *)
(* program p, the parts en that are enabled, the errors be of Build, ...): *)
(* of the next state they say the same if the values are the same.         *)
(***************************************************************************)
EXTENDS CollectorLifecycle, TLAPS

-----------------------------------------------------------------------------
(* Positions.                                                              *)

\* A set of naturals that is not empty has a least element.  LeastNatural proves
\* it, after the lemmas that assume it: the library on well-founded relations comes
\* in only there, because it makes every proof after it slower.
WellOrdered == \A T \in SUBSET Nat : T # {} => \E x \in T : \A y \in T : x <= y

OnIn(en, b) == b.part = "" \/ b.part \in en

RunsIn(en, p, be, b) ==
  OnIn(en, b) /\ (p.ifBuilt => \A e \in be : p.build[e[1]].part # b.part)

\* A position is the end of the function or a step of a call that is on.
PosIn(en, f, q) ==
  /\ q \in Nat \X Nat /\ q[1] \in 1..(Len(f) + 1)
  /\ q[1] <= Len(f) => q[2] \in 1..Len(f[q[1]].steps) /\ OnIn(en, f[q[1]])

\* The calls between two positions are not made.
SkippedBetween(en, p, be, f, i, j) ==
  \A h \in 1..Len(f) : i < h /\ h < j => ~RunsIn(en, p, be, f[h])

\* From position q to the beginning of a later call, or to the end.
Leaves(en, p, be, f, q, r) ==
  /\ PosIn(en, f, r) /\ r[1] > q[1] /\ r[2] = 1
  /\ r[1] <= Len(f) => RunsIn(en, p, be, f[r[1]])

\* A position that is not the end is that of a step.
LEMMA PosIsOfStep ==
  ASSUME NEW en, NEW f, NEW q, IsFunction(f), PosIn(en, f, q)
  PROVE  /\ q[1] \in Nat /\ q[2] \in Nat /\ Len(f) \in Nat
         /\ AtEnd(f, q) <=> q[1] = Len(f) + 1
         /\ AtEnd(f, q) => \A i \in 1..Len(f) : i < q[1]
         /\ ~AtEnd(f, q) <=> q[1] <= Len(f)
         /\ q[1] <= Len(f) => /\ q[1] \in 1..Len(f) /\ Len(f[q[1]].steps) \in Nat
                              /\ q[2] \in 1..Len(f[q[1]].steps)
  BY DEF PosIn, AtEnd, IsFunction

LEMMA StepsBeforeAreSteps ==
  ASSUME NEW b, NEW n \in 1..Len(b.steps), Len(b.steps) \in Nat
  PROVE  StepsBefore(b, n) \subseteq StepsOf(b)
  BY DEF StepsBefore, StepsOf

LEMMA NoStepsBefore ==
  ASSUME NEW b
  PROVE  StepsBefore(b, 1) = {}
  BY DEF StepsBefore

\* IsOn and Runs as operators over values.
LEMMA RunsIsRunsIn ==
  ASSUME NEW b
  PROVE  (IsOn(b) <=> OnIn(enabled, b)) /\ (Runs(b) <=> RunsIn(enabled, P, berrs, b))
  BY Zenon DEF IsOn, OnIn, Runs, RunsIn, BuildFailed

\* FromBlock finds the first call from b on that is made.
LEMMA FromBlockSkips ==
  ASSUME WellOrdered, NEW f, IsFunction(f), NEW b \in 1..(Len(f) + 1)
  PROVE  LET r == FromBlock(f, b)
         IN  /\ PosIn(enabled, f, r) /\ r[1] >= b /\ r[2] = 1
             /\ r[1] <= Len(f) => RunsIn(enabled, P, berrs, f[r[1]])
             /\ \A i \in b..Len(f) : i < r[1] => ~RunsIn(enabled, P, berrs, f[i])
  <1> DEFINE on == {i \in b..Len(f) : Runs(f[i])}
             least == CHOOSE i \in on : \A j \in on : i <= j
             r == FromBlock(f, b)
  <1>0. Len(f) \in Nat /\ \A i \in 1..Len(f) : Len(f[i].steps) \in Nat \ {0}
    BY DEF IsFunction
  <1>1. CASE on = {}
    <2>1. r = <<Len(f) + 1, 1>>
      BY <1>1 DEF FromBlock
    <2>2. \A i \in b..Len(f) : ~RunsIn(enabled, P, berrs, f[i])
      BY <1>1, RunsIsRunsIn
    <2> HIDE DEF r, on
    <2>3. PosIn(enabled, f, r) /\ r[1] = Len(f) + 1 /\ r[2] = 1
      BY <1>0, <2>1 DEF PosIn
    <2> QED
      BY <1>0, <2>2, <2>3 DEF r
  <1>2. CASE on # {}
    <2>1. on \subseteq b..Len(f) /\ on \subseteq Nat
      BY <1>0
    <2>2. \E i \in on : \A j \in on : i <= j
      BY <1>2, <2>1, Zenon DEF WellOrdered
    <2>3. least \in on /\ \A j \in on : least <= j
      BY <2>2, Zenon
    <2>4. r = <<least, 1>>
      BY <1>2, Zenon DEF FromBlock
    <2>5. RunsIn(enabled, P, berrs, f[least])
      BY <2>3, RunsIsRunsIn
    <2>6. ASSUME NEW i \in b..Len(f), i < least
          PROVE  ~RunsIn(enabled, P, berrs, f[i])
      <3>1. i \notin on
        <4> HIDE DEF least, on
        <4> QED
          BY <1>0, <2>1, <2>3, <2>6
      <3> QED
        BY <3>1, RunsIsRunsIn
    <2>7. least \in b..Len(f)
      BY <2>1, <2>3, Zenon
    <2> HIDE DEF least, on, r
    <2>8. PosIn(enabled, f, r) /\ r[1] = least /\ r[2] = 1
      BY <1>0, <2>4, <2>5, <2>7 DEF PosIn, RunsIn
    <2>9. \A i \in b..Len(f) : i < r[1] => ~RunsIn(enabled, P, berrs, f[i])
      BY <2>6, <2>8
    <2>10. r[1] >= b /\ (r[1] <= Len(f) => RunsIn(enabled, P, berrs, f[r[1]]))
      BY <1>0, <2>5, <2>7, <2>8
    <2> QED
      BY <2>8, <2>9, <2>10, Zenon DEF r
  <1> QED
    BY <1>1, <1>2, Zenon

\* A step that goes on leads to the next step of the call, or leaves it.
LEMMA AdvanceCases ==
  ASSUME WellOrdered, NEW f, IsFunction(f), NEW q, PosIn(enabled, f, q), ~AtEnd(f, q)
  PROVE  LET r == Advance(f, q)
         IN  \/ r = <<q[1], q[2] + 1>> /\ q[2] < Len(f[q[1]].steps) /\ PosIn(enabled, f, r)
             \/ /\ q[2] = Len(f[q[1]].steps)
                /\ Leaves(enabled, P, berrs, f, q, r)
                /\ SkippedBetween(enabled, P, berrs, f, q[1], r[1])
  <1>1. /\ q[1] \in 1..Len(f) /\ q[2] \in 1..Len(f[q[1]].steps) /\ Len(f) \in Nat
        /\ Len(f[q[1]].steps) \in Nat /\ q[1] + 1 \in 1..(Len(f) + 1)
        /\ q \in Nat \X Nat /\ OnIn(enabled, f[q[1]])
    BY DEF PosIn, AtEnd, IsFunction
  <1>2. CASE q[2] < Len(f[q[1]].steps)
    <2>1. Advance(f, q) = <<q[1], q[2] + 1>>
      BY <1>2 DEF Advance
    <2> QED
      BY <1>1, <1>2, <2>1, SMTT(30) DEF PosIn
  <1>3. CASE ~(q[2] < Len(f[q[1]].steps))
    <2> DEFINE r == FromBlock(f, q[1] + 1)
    <2>1. Advance(f, q) = r
      BY <1>3 DEF Advance
    <2>2. /\ PosIn(enabled, f, r) /\ r[1] >= q[1] + 1 /\ r[2] = 1
          /\ r[1] <= Len(f) => RunsIn(enabled, P, berrs, f[r[1]])
          /\ \A i \in (q[1] + 1)..Len(f) : i < r[1] => ~RunsIn(enabled, P, berrs, f[i])
      BY <1>1, FromBlockSkips, Zenon
    <2> HIDE DEF r
    <2>3. r[1] \in Nat /\ r[1] > q[1] /\ q[2] = Len(f[q[1]].steps)
      BY <1>1, <1>3, <2>2, SMTT(30) DEF PosIn
    <2>4. SkippedBetween(enabled, P, berrs, f, q[1], r[1])
      BY <1>1, <2>2 DEF SkippedBetween
    <2> QED
      BY <2>1, <2>2, <2>3, <2>4, Zenon DEF Leaves
  <1> QED
    BY <1>2, <1>3, Zenon

\* An error leaves the call, and ends the function if it is returned.
LEMMA AbortCases ==
  ASSUME WellOrdered, NEW f, IsFunction(f), NEW q, PosIn(enabled, f, q), ~AtEnd(f, q)
  PROVE  LET r == Abort(f, q)
         IN  /\ Leaves(enabled, P, berrs, f, q, r)
             /\ IF f[q[1]].onErr = "return"
                  THEN r[1] = Len(f) + 1
                  ELSE SkippedBetween(enabled, P, berrs, f, q[1], r[1])
  <1>1. /\ q[1] \in 1..Len(f) /\ Len(f) \in Nat /\ q[1] + 1 \in 1..(Len(f) + 1)
    BY DEF PosIn, AtEnd, IsFunction
  <1>2. CASE f[q[1]].onErr = "return"
    <2>1. Abort(f, q) = <<Len(f) + 1, 1>>
      BY <1>2 DEF Abort
    <2> QED
      BY <1>1, <1>2, <2>1 DEF Leaves, PosIn
  <1>3. CASE f[q[1]].onErr # "return"
    <2> DEFINE r == FromBlock(f, q[1] + 1)
    <2>1. Abort(f, q) = r
      BY <1>3 DEF Abort
    <2>2. /\ PosIn(enabled, f, r) /\ r[1] >= q[1] + 1 /\ r[2] = 1
          /\ r[1] <= Len(f) => RunsIn(enabled, P, berrs, f[r[1]])
          /\ \A i \in (q[1] + 1)..Len(f) : i < r[1] => ~RunsIn(enabled, P, berrs, f[i])
      BY <1>1, FromBlockSkips, Zenon
    <2> HIDE DEF r
    <2>3. r[1] \in Nat /\ r[1] > q[1]
      BY <1>1, <2>2 DEF PosIn
    <2>4. SkippedBetween(enabled, P, berrs, f, q[1], r[1])
      BY <1>1, <2>2 DEF SkippedBetween
    <2> QED
      BY <1>3, <2>1, <2>2, <2>3, <2>4, Zenon DEF Leaves
  <1> QED
    BY <1>2, <1>3, Zenon

-----------------------------------------------------------------------------
(* What Build leaves behind.                                               *)

Passed(j, m, q) == j < q[1] \/ (j = q[1] /\ m < q[2])

\* Why a step that Build has passed was not taken: a call before it in the same
\* build function has failed, or a build function whose error was returned, or
\* one of the same sub-collector where that keeps the others from being called.
Skipped(p, be, j, m) ==
  \E e \in be :
    \/ e[1] = j /\ \E y \in StepsBefore(p.build[j], m) : y.op # "make"
    \/ e[1] < j /\ p.build[e[1]].onErr = "return"
    \/ p.ifBuilt /\ p.build[e[1]].part = p.build[j].part

\* What the steps that Build has passed make has been made, or they were skipped.
MadeIn(en, p, be, q, md) ==
  \A j \in 1..Len(p.build) : OnIn(en, p.build[j]) =>
    \A m \in 1..Len(p.build[j].steps) :
      p.build[j].steps[m].op = "make" /\ Passed(j, m, q)
        => p.build[j].steps[m].arg \subseteq md \/ Skipped(p, be, j, m)

\* The errors of Build are of build functions that it has left and that can fail
\* with them.  An error that is returned is the last one.
ErrsIn(p, be, q) ==
  /\ \A e \in be :
       /\ e[1] \in 1..Len(p.build) /\ e[1] < q[1]
       /\ e[2] \in {"tolerated", "error", "skipped"}
       /\ \E y \in StepsOf(p.build[e[1]]) : y.op # "make" /\ (y.op = "fail" => e[2] \in y.arg)
       /\ p.build[e[1]].onErr = "return" => q[1] = Len(p.build) + 1
  /\ \A e, d \in be : p.build[e[1]].onErr = "return" => d[1] <= e[1]

\* What a build function makes last is there only if it has not failed.
LastIn(p, be, q, md) ==
  \A g \in 1..Len(p.build) : \A r \in md :
    MadeLast(p, g, r) => g < q[1] /\ \A e \in be : e[1] # g

\* Build goes on from a step that makes md2 \ md.
LEMMA GoingOn ==
  ASSUME WellOrdered, IsFunction(P.build), PosIn(enabled, P.build, bpos), ~AtEnd(P.build, bpos),
         MadeIn(enabled, P, berrs, bpos, made), ErrsIn(P, berrs, bpos),
         LastIn(P, berrs, bpos, made), NEW md,
         IF BuildStep.op = "make" THEN md = made \cup BuildStep.arg ELSE md = made
  PROVE  LET r == Advance(P.build, bpos)
         IN  /\ PosIn(enabled, P.build, r) /\ MadeIn(enabled, P, berrs, r, md)
             /\ ErrsIn(P, berrs, r) /\ LastIn(P, berrs, r, md)
  <1> DEFINE f == P.build
             q == bpos
             r == Advance(f, q)
  <1>1. /\ q[1] \in 1..Len(f) /\ q[2] \in 1..Len(f[q[1]].steps) /\ Len(f) \in Nat
        /\ Len(f[q[1]].steps) \in Nat /\ q[1] \in Nat /\ q[2] \in Nat
    BY PosIsOfStep, Zenon
  <1>2. \/ r[1] = q[1] /\ r[2] = q[2] + 1 /\ q[2] < Len(f[q[1]].steps) /\ PosIn(enabled, f, r)
        \/ /\ q[2] = Len(f[q[1]].steps)
           /\ Leaves(enabled, P, berrs, f, q, r)
           /\ SkippedBetween(enabled, P, berrs, f, q[1], r[1])
    BY AdvanceCases, SMTT(30)
  <1>3. PosIn(enabled, f, r) /\ r[1] \in Nat /\ r[2] \in Nat /\ r[1] >= q[1]
    BY <1>1, <1>2 DEF Leaves, PosIn
  <1>4. BuildStep = f[q[1]].steps[q[2]]
    BY Zenon DEF BuildStep, StepAt
  <1>5. made \subseteq md
    OBVIOUS
  <1> HIDE DEF r
  <1>6. MadeIn(enabled, P, berrs, r, md)
    <2> SUFFICES ASSUME NEW j \in 1..Len(f), OnIn(enabled, f[j]),
                        NEW m \in 1..Len(f[j].steps), f[j].steps[m].op = "make",
                        Passed(j, m, r)
                 PROVE  f[j].steps[m].arg \subseteq md \/ Skipped(P, berrs, j, m)
      BY Zenon DEF MadeIn
    <2>0. Len(f[j].steps) \in Nat
      BY Zenon DEF IsFunction
    <2>1. CASE Passed(j, m, q)
      BY <1>5, <2>1, Zenon DEF MadeIn
    <2>2. CASE j = q[1] /\ m = q[2]
      BY <1>4, <2>2, Zenon
    <2>3. CASE ~Passed(j, m, q) /\ ~(j = q[1] /\ m = q[2])
      <3>1. j > q[1] /\ j < r[1]
        <4>1. j > q[1] \/ (j = q[1] /\ m > q[2])
          BY <1>1, <2>0, <2>3 DEF Passed
        <4>2. CASE r[1] = q[1] /\ r[2] = q[2] + 1
          BY <1>1, <2>0, <4>1, <4>2 DEF Passed
        <4>3. CASE q[2] = Len(f[q[1]].steps) /\ Leaves(enabled, P, berrs, f, q, r)
          BY <1>1, <1>3, <2>0, <4>1, <4>3 DEF Passed, Leaves
        <4> QED
          BY <1>2, <4>2, <4>3, Zenon
      <3>2. SkippedBetween(enabled, P, berrs, f, q[1], r[1])
        BY <1>1, <1>2, <1>3, <3>1
      <3>3. ~RunsIn(enabled, P, berrs, f[j])
        BY <3>1, <3>2, Zenon DEF SkippedBetween
      <3> QED
        BY <3>3, Zenon DEF RunsIn, Skipped
    <2> QED
      BY <2>1, <2>2, <2>3, Zenon
  <1>7. ErrsIn(P, berrs, r)
    <2>1. \A e \in berrs : e[1] < r[1] /\ f[e[1]].onErr # "return"
      BY <1>1, <1>3, SMTT(30) DEF ErrsIn
    <2> QED
      BY <2>1, Zenon DEF ErrsIn
  <1>8. LastIn(P, berrs, r, md)
    <2> SUFFICES ASSUME NEW g \in 1..Len(f), NEW x \in md, MadeLast(P, g, x)
                 PROVE  g < r[1] /\ \A e \in berrs : e[1] # g
      BY DEF LastIn
    <2>1. CASE x \in made
      BY <1>1, <1>3, <2>1 DEF LastIn
    <2>2. CASE x \notin made
      <3>1. Makes(P, q[1], q[2], x)
        BY <1>4, <2>2, Zenon DEF Makes
      <3>2. q[1] = g /\ q[2] = Len(f[g].steps)
        BY <1>1, <3>1, Zenon DEF MadeLast
      <3>3. g < r[1]
        BY <1>1, <1>2, <1>3, <3>2 DEF Leaves
      <3> QED
        BY <3>2, <3>3 DEF ErrsIn
    <2> QED
      BY <2>1, <2>2, Zenon
  <1> QED
    BY <1>3, <1>6, <1>7, <1>8, Zenon DEF r

\* Build goes on, or returns, after a step that has failed.
LEMMA Failing ==
  ASSUME WellOrdered, IsFunction(P.build), PosIn(enabled, P.build, bpos), ~AtEnd(P.build, bpos),
         MadeIn(enabled, P, berrs, bpos, made), ErrsIn(P, berrs, bpos),
         LastIn(P, berrs, bpos, made), NEW class \in {"tolerated", "error", "skipped"},
         BuildStep.op # "make", BuildStep.op = "fail" => class \in BuildStep.arg
  PROVE  LET r  == Abort(P.build, bpos)
             be == berrs \cup {<<bpos[1], class>>}
         IN  /\ PosIn(enabled, P.build, r) /\ MadeIn(enabled, P, be, r, made)
             /\ ErrsIn(P, be, r) /\ LastIn(P, be, r, made)
  <1> DEFINE f == P.build
             q == bpos
             r == Abort(f, q)
             new == <<q[1], class>>
             be == berrs \cup {new}
  <1>1. /\ q[1] \in 1..Len(f) /\ q[2] \in 1..Len(f[q[1]].steps) /\ Len(f) \in Nat
        /\ Len(f[q[1]].steps) \in Nat /\ q[1] \in Nat /\ q[2] \in Nat
    BY PosIsOfStep, Zenon
  <1>2. /\ Leaves(enabled, P, berrs, f, q, r)
        /\ IF f[q[1]].onErr = "return"
             THEN r[1] = Len(f) + 1
             ELSE SkippedBetween(enabled, P, berrs, f, q[1], r[1])
    BY AbortCases, Zenon
  <1>3. PosIn(enabled, f, r) /\ r[1] \in Nat /\ r[2] = 1 /\ r[1] > q[1]
    BY <1>2, Zenon DEF Leaves, PosIn
  <1>4. BuildStep = f[q[1]].steps[q[2]]
    BY Zenon DEF BuildStep, StepAt
  <1>5. new \in be /\ new[1] = q[1] /\ new[2] = class /\ \A e \in be : e \in berrs \/ e = new
    OBVIOUS
  <1>6. \A e \in berrs : e \in be
    OBVIOUS
  <1> HIDE DEF r, be, new
  <1>7. MadeIn(enabled, P, be, r, made)
    <2> SUFFICES ASSUME NEW j \in 1..Len(f), OnIn(enabled, f[j]),
                        NEW m \in 1..Len(f[j].steps), f[j].steps[m].op = "make",
                        Passed(j, m, r)
                 PROVE  f[j].steps[m].arg \subseteq made \/ Skipped(P, be, j, m)
      BY Zenon DEF MadeIn
    <2>0. Len(f[j].steps) \in Nat
      BY Zenon DEF IsFunction
    <2>1. CASE Passed(j, m, q)
      BY <1>6, <2>1, Zenon DEF MadeIn, Skipped
    <2>2. CASE j = q[1] /\ ~Passed(j, m, q)
      <3>0. m # q[2]
        BY <1>4, <2>2, Zenon
      <3>1. m > q[2]
        BY <1>1, <2>0, <2>2, <3>0 DEF Passed
      <3>2. q[2] \in 1..(m - 1)
        BY <1>1, <2>0, <3>1
      <3>3. BuildStep = f[j].steps[q[2]]
        BY <1>4, <2>2, Zenon
      <3>4. BuildStep \in StepsBefore(f[j], m)
        BY <3>2, <3>3, Zenon DEF StepsBefore
      <3> QED
        BY <1>5, <2>2, <3>4, Zenon DEF Skipped
    <2>3. CASE j > q[1] /\ f[q[1]].onErr = "return"
      BY <1>1, <1>5, <2>3, Zenon DEF Skipped
    <2>4. CASE j > q[1] /\ f[q[1]].onErr # "return"
      <3>1. j < r[1]
        BY <1>3, <2>0 DEF Passed
      <3>2. ~RunsIn(enabled, P, berrs, f[j])
        BY <1>2, <2>4, <3>1, Zenon DEF SkippedBetween
      <3> QED
        BY <1>6, <3>2, Zenon DEF RunsIn, Skipped
    <2>5. Passed(j, m, q) \/ j = q[1] \/ j > q[1]
      BY <1>1 DEF Passed
    <2> QED
      BY <2>1, <2>2, <2>3, <2>4, <2>5, Zenon
  <1>8. ErrsIn(P, be, r)
    <2>1. \A e \in berrs : e[1] \in Nat /\ e[1] < q[1] /\ f[e[1]].onErr # "return"
      BY <1>1, SMTT(30) DEF ErrsIn
    <2>2. ASSUME NEW e \in be
          PROVE  /\ e[1] \in 1..Len(f) /\ e[1] < r[1] /\ e[2] \in {"tolerated", "error", "skipped"}
                 /\ \E y \in StepsOf(f[e[1]]) : y.op # "make" /\ (y.op = "fail" => e[2] \in y.arg)
                 /\ f[e[1]].onErr = "return" => r[1] = Len(f) + 1
      <3>1. CASE e \in berrs
        BY <1>1, <1>3, <2>1, <3>1 DEF ErrsIn
      <3>2. CASE e = new
        <4>1. BuildStep \in StepsOf(f[q[1]])
          BY <1>1, <1>4, Zenon DEF StepsOf
        <4> QED
          BY <1>1, <1>2, <1>3, <1>5, <3>2, <4>1, Zenon
      <3> QED
        BY <1>5, <3>1, <3>2, Zenon
    <2>3. \A e, d \in be : f[e[1]].onErr = "return" => d[1] <= e[1]
      BY <1>1, <1>5, <2>1, SMTT(30)
    <2> QED
      BY <2>2, <2>3, Zenon DEF ErrsIn
  <1>9. LastIn(P, be, r, made)
    <2> SUFFICES ASSUME NEW g \in 1..Len(f), NEW x \in made, MadeLast(P, g, x)
                 PROVE  g < r[1] /\ \A e \in be : e[1] # g
      BY DEF LastIn
    <2>1. g < q[1] /\ \A e \in berrs : e[1] # g
      BY DEF LastIn
    <2> QED
      BY <1>1, <1>3, <1>5, <2>1
  <1> QED
    BY <1>3, <1>7, <1>8, <1>9, Zenon DEF r, be, new

-----------------------------------------------------------------------------
(* What a goroutine of Collect has done, at position q of its function f.  *)

GroupSteps == {"first", "each", "eachNamed", "emit"}

\* What the call has looked for or made is there, and so is what the calls of f
\* before it looked for, if f returns when it is not.
HeldIn(f, q, md) ==
  \A x \in StepsBefore(f[q[1]], q[2]) :
    (x.op = "have" => x.of \in md) /\ (x.op = "make" => x.arg \subseteq md)

GuardIn(en, p, be, f, q, md) ==
  \A h \in 1..Len(f) : h < q[1] /\ f[h].onErr = "return" /\ RunsIn(en, p, be, f[h]) =>
    \A x \in StepsFor(f[h], "have") : x.of \in md

ThreadIn(en, p, be, f, q, md) ==
  /\ PosIn(en, f, q)
  /\ q[1] <= Len(f) =>
       RunsIn(en, p, be, f[q[1]]) /\ HeldIn(f, q, md) /\ GuardIn(en, p, be, f, q, md)

\* What one call was there to send has been sent, or errors explain why not.
ShownIn(f, t, i, es, sn) ==
  \/ GroupsOf(f[i]) \subseteq sn
  \/ \E e \in es : e[1] = t /\ e[2] = i
  \/ \E e \in es : e[1] = t /\ e[2] < i /\ f[e[2]].onErr = "return"

\* Of a scrape that overlaps no other: the call finds the rows that it has read
\* (rd are the queries with rows), and without a panic every call before it is
\* explained and what the call should have sent so far has been sent.
QuietIn(en, p, be, f, t, q, rd, es, sn) ==
  /\ q[1] <= Len(f) =>
       \A x \in StepsBefore(f[q[1]], q[2]) : x.op = "read" => x.of \in rd
  /\ (\A e \in es : e[3] # "panic") =>
       /\ \A i \in 1..Len(f) : i < q[1] /\ RunsIn(en, p, be, f[i]) => ShownIn(f, t, i, es, sn)
       /\ q[1] <= Len(f) =>
            \A x \in StepsBefore(f[q[1]], q[2]) : x.op \in GroupSteps => x.of \in sn

\* From position q to the next step of the call, or to the next call.
NextIn(en, p, be, f, q, r) ==
  \/ r = <<q[1], q[2] + 1>> /\ q[2] < Len(f[q[1]].steps) /\ PosIn(en, f, r)
  \/ /\ q[2] = Len(f[q[1]].steps) /\ Leaves(en, p, be, f, q, r)
     /\ SkippedBetween(en, p, be, f, q[1], r[1])

\* From position q, with an error, to a later call or to the end.
AfterError(en, p, be, f, q, r) ==
  /\ Leaves(en, p, be, f, q, r)
  /\ IF f[q[1]].onErr = "return"
       THEN r[1] = Len(f) + 1
       ELSE SkippedBetween(en, p, be, f, q[1], r[1])

\* The steps before the next one, and those before the end of the call.
LEMMA StepsBeforeNext ==
  ASSUME NEW b, Len(b.steps) \in Nat, NEW n \in 1..Len(b.steps)
  PROVE  /\ \A x \in StepsBefore(b, n + 1) : x \in StepsBefore(b, n) \/ x = b.steps[n]
         /\ n = Len(b.steps) => \A x \in StepsOf(b) : x \in StepsBefore(b, n) \/ x = b.steps[n]
         /\ StepsBefore(b, 1) = {}
  <1>1. \A h \in 1..n : h \in 1..(n - 1) \/ h = n
    OBVIOUS
  <1>2. (n + 1) - 1 = n /\ 1..(1 - 1) = {}
    OBVIOUS
  <1> QED
    BY <1>1, <1>2 DEF StepsBefore, StepsOf

\* A goroutine that goes on holds what it held, and what its step has found.
LEMMA ThreadGoesOn ==
  ASSUME NEW en, NEW p, NEW be, NEW f, NEW q, NEW r, NEW md, NEW md2, IsFunction(f),
         ThreadIn(en, p, be, f, q, md), q[1] <= Len(f), NextIn(en, p, be, f, q, r),
         md \subseteq md2,
         LET x == f[q[1]].steps[q[2]]
         IN  (x.op = "have" => x.of \in md2) /\ (x.op = "make" => x.arg \subseteq md2)
  PROVE  ThreadIn(en, p, be, f, r, md2)
  <1> DEFINE b == f[q[1]]
             x == b.steps[q[2]]
  <1>1. /\ q[1] \in 1..Len(f) /\ q[1] \in Nat /\ q[2] \in 1..Len(b.steps) /\ Len(f) \in Nat
        /\ Len(b.steps) \in Nat
    BY PosIsOfStep, Zenon DEF ThreadIn
  <1>2. RunsIn(en, p, be, b) /\ HeldIn(f, q, md) /\ GuardIn(en, p, be, f, q, md)
    BY Zenon DEF ThreadIn
  <1>3. ASSUME NEW y, y \in StepsBefore(b, q[2]) \/ y = x
        PROVE  (y.op = "have" => y.of \in md2) /\ (y.op = "make" => y.arg \subseteq md2)
    <2>1. CASE y \in StepsBefore(b, q[2])
      BY <1>2, <2>1, Zenon DEF HeldIn
    <2>2. CASE y = x
      BY <2>2, Zenon
    <2> QED
      BY <1>3, <2>1, <2>2, Zenon
  <1>4. CASE r = <<q[1], q[2] + 1>> /\ q[2] < Len(b.steps) /\ PosIn(en, f, r)
    <2>1. r[1] = q[1] /\ r[2] = q[2] + 1
      BY <1>4, Zenon
    <2>2. HeldIn(f, r, md2)
      BY <1>1, <1>3, <2>1, StepsBeforeNext, Zenon DEF HeldIn
    <2>3. GuardIn(en, p, be, f, r, md2)
      BY <1>2, <2>1, Zenon DEF GuardIn
    <2> QED
      BY <1>2, <1>4, <2>1, <2>2, <2>3, Zenon DEF ThreadIn
  <1>5. CASE /\ q[2] = Len(b.steps) /\ Leaves(en, p, be, f, q, r)
             /\ SkippedBetween(en, p, be, f, q[1], r[1])
    <2>1. /\ PosIn(en, f, r) /\ r[2] = 1 /\ r[1] \in Nat
          /\ r[1] <= Len(f) => r[1] \in 1..Len(f) /\ RunsIn(en, p, be, f[r[1]])
      BY <1>1, <1>5 DEF Leaves, PosIn
    <2>2. r[1] <= Len(f) => HeldIn(f, r, md2)
      <3>1. SUFFICES ASSUME r[1] <= Len(f)
                     PROVE  StepsBefore(f[r[1]], 1) = {}
        BY <2>1, Zenon DEF HeldIn
      <3> QED
        BY NoStepsBefore, Zenon
    <2>3. GuardIn(en, p, be, f, r, md2)
      <3> SUFFICES ASSUME NEW h \in 1..Len(f), h < r[1], f[h].onErr = "return",
                          RunsIn(en, p, be, f[h]), NEW y \in StepsFor(f[h], "have")
                   PROVE  y.of \in md2
        BY Zenon DEF GuardIn
      <3>1. ~(q[1] < h)
        BY <1>5, Zenon DEF SkippedBetween
      <3>2. CASE h < q[1]
        BY <1>2, <3>2, Zenon DEF GuardIn
      <3>3. CASE h = q[1]
        <4>1. y \in StepsOf(b) /\ y.op = "have"
          BY <3>3, Zenon DEF StepsFor
        <4>2. y \in StepsBefore(b, q[2]) \/ y = x
          BY <1>1, <1>5, <4>1, StepsBeforeNext, Zenon
        <4> QED
          BY <1>3, <4>1, <4>2, Zenon
      <3> QED
        BY <1>1, <3>1, <3>2, <3>3
    <2> QED
      BY <2>1, <2>2, <2>3, Zenon DEF ThreadIn
  <1> QED
    BY <1>4, <1>5, Zenon DEF NextIn

\* After an error it is at the beginning of a call, or at the end.
LEMMA ThreadFails ==
  ASSUME NEW en, NEW p, NEW be, NEW f, NEW q, NEW r, NEW md, IsFunction(f),
         ThreadIn(en, p, be, f, q, md), q[1] <= Len(f), AfterError(en, p, be, f, q, r)
  PROVE  ThreadIn(en, p, be, f, r, md)
  <1>1. q[1] \in 1..Len(f) /\ q[1] \in Nat /\ Len(f) \in Nat
    BY PosIsOfStep, Zenon DEF ThreadIn
  <1>2. GuardIn(en, p, be, f, q, md)
    BY DEF ThreadIn
  <1>3. /\ PosIn(en, f, r) /\ r[2] = 1 /\ r[1] \in Nat
        /\ r[1] <= Len(f) => r[1] \in 1..Len(f) /\ RunsIn(en, p, be, f[r[1]])
    BY <1>1 DEF AfterError, Leaves, PosIn
  <1>4. r[1] <= Len(f) => HeldIn(f, r, md)
    <2>1. SUFFICES ASSUME r[1] <= Len(f)
                   PROVE  StepsBefore(f[r[1]], 1) = {}
      BY <1>3, Zenon DEF HeldIn
    <2> QED
      BY DEF StepsBefore
  <1>5. r[1] <= Len(f) => GuardIn(en, p, be, f, r, md)
    <2> SUFFICES ASSUME r[1] <= Len(f), NEW h \in 1..Len(f), h < r[1],
                        f[h].onErr = "return", RunsIn(en, p, be, f[h]),
                        NEW y \in StepsFor(f[h], "have")
                 PROVE  y.of \in md
      BY DEF GuardIn
    <2>1. f[q[1]].onErr # "return" /\ SkippedBetween(en, p, be, f, q[1], r[1])
      BY <1>1, <1>3, SMTT(30) DEF AfterError
    <2>2. h < q[1]
      BY <1>1, <2>1 DEF SkippedBetween
    <2> QED
      BY <1>2, <2>2, Zenon DEF GuardIn
  <1> QED
    BY <1>3, <1>4, <1>5, Zenon DEF ThreadIn

\* Without overlap, what a goroutine that goes on has read and sent stays explained.
LEMMA QuietGoesOn ==
  ASSUME NEW en, NEW p, NEW be, NEW f, NEW t, NEW q, NEW r, NEW rd, NEW rd2, NEW es,
         NEW sn, NEW sn2, IsFunction(f), PosIn(en, f, q), q[1] <= Len(f),
         QuietIn(en, p, be, f, t, q, rd, es, sn), NextIn(en, p, be, f, q, r),
         rd \subseteq rd2, sn \subseteq sn2,
         f[q[1]].steps[q[2]].op = "read" => f[q[1]].steps[q[2]].of \in rd2,
         f[q[1]].steps[q[2]].op \in GroupSteps => f[q[1]].steps[q[2]].of \in sn2
  PROVE  QuietIn(en, p, be, f, t, r, rd2, es, sn2)
  <1> DEFINE b == f[q[1]]
             x == b.steps[q[2]]
             calm == \A e \in es : e[3] # "panic"
  <1>1. /\ q[1] \in 1..Len(f) /\ q[1] \in Nat /\ q[2] \in 1..Len(b.steps) /\ Len(f) \in Nat
        /\ Len(b.steps) \in Nat
    BY PosIsOfStep, Zenon
  <1>2. ASSUME NEW y, y \in StepsBefore(b, q[2]) \/ y = x
        PROVE  /\ y.op = "read" => y.of \in rd2
               /\ calm /\ y.op \in GroupSteps => y.of \in sn2
    <2>1. CASE y \in StepsBefore(b, q[2])
      BY <2>1, Zenon DEF QuietIn
    <2>2. CASE y = x
      BY <2>2, Zenon
    <2> QED
      BY <1>2, <2>1, <2>2, Zenon
  <1>3. ASSUME calm, NEW i \in 1..Len(f), i < q[1], RunsIn(en, p, be, f[i])
        PROVE  ShownIn(f, t, i, es, sn2)
    <2>1. ShownIn(f, t, i, es, sn)
      BY <1>3, Zenon DEF QuietIn
    <2> QED
      BY <2>1, Zenon DEF ShownIn
  <1> HIDE DEF x
  <1>4. CASE r = <<q[1], q[2] + 1>> /\ q[2] < Len(b.steps)
    <2>1. r[1] = q[1] /\ r[2] = q[2] + 1
      BY <1>4, Zenon
    <2>2. \A y \in StepsBefore(f[r[1]], r[2]) : y \in StepsBefore(b, q[2]) \/ y = x
      BY <1>1, <2>1, StepsBeforeNext, Zenon DEF x
    <2> QED
      BY <1>2, <1>3, <2>1, <2>2, Zenon DEF QuietIn
  <1>5. CASE /\ q[2] = Len(b.steps) /\ Leaves(en, p, be, f, q, r)
             /\ SkippedBetween(en, p, be, f, q[1], r[1])
    <2>1. r[2] = 1 /\ StepsBefore(f[r[1]], r[2]) = {}
      BY <1>5, NoStepsBefore, Zenon DEF Leaves
    <2>2. ASSUME calm, NEW i \in 1..Len(f), i < r[1], RunsIn(en, p, be, f[i])
          PROVE  ShownIn(f, t, i, es, sn2)
      <3>1. ~(q[1] < i)
        BY <1>5, <2>2, Zenon DEF SkippedBetween
      <3>2. CASE i < q[1]
        BY <1>3, <2>2, <3>2, Zenon
      <3>3. CASE i = q[1]
        <4>1. \A y \in StepsOf(b) : y \in StepsBefore(b, q[2]) \/ y = x
          BY <1>1, <1>5, StepsBeforeNext, Zenon DEF x
        <4>2. \A y \in StepsOf(b) : y.op \in GroupSteps => y.of \in sn2
          BY <1>2, <2>2, <4>1, Zenon
        <4>3. GroupsOf(b) \subseteq sn2
          BY <4>2, Zenon DEF GroupsOf, GroupSteps
        <4> QED
          BY <3>3, <4>3, Zenon DEF ShownIn
      <3>4. i < q[1] \/ i = q[1]
        BY <1>1, <3>1
      <3> QED
        BY <3>2, <3>3, <3>4, Zenon
    <2> QED
      BY <2>1, <2>2, Zenon DEF QuietIn
  <1> QED
    BY <1>4, <1>5, Zenon DEF NextIn

\* The error of a call that fails explains it, and the calls after it if it is
\* returned.
LEMMA QuietFails ==
  ASSUME NEW en, NEW p, NEW be, NEW f, NEW t, NEW q, NEW r, NEW rd, NEW rd2, NEW es,
         NEW es2, NEW sn, NEW new, IsFunction(f), PosIn(en, f, q), q[1] <= Len(f),
         QuietIn(en, p, be, f, t, q, rd, es, sn), AfterError(en, p, be, f, q, r),
         es \subseteq es2, new \in es2, new[1] = t, new[2] = q[1]
  PROVE  QuietIn(en, p, be, f, t, r, rd2, es2, sn)
  <1>1. q[1] \in 1..Len(f) /\ q[1] \in Nat /\ Len(f) \in Nat
    BY DEF PosIn, IsFunction
  <1>2. r[2] = 1 /\ StepsBefore(f[r[1]], r[2]) = {}
    BY DEF AfterError, Leaves, StepsBefore
  <1>3. ASSUME \A e \in es2 : e[3] # "panic", NEW i \in 1..Len(f), i < r[1],
               RunsIn(en, p, be, f[i])
        PROVE  ShownIn(f, t, i, es2, sn)
    <2>1. CASE i < q[1]
      <3>1. \A e \in es : e[3] # "panic"
        BY <1>3, Zenon
      <3>2. ShownIn(f, t, i, es, sn)
        BY <1>3, <2>1, <3>1, Zenon DEF QuietIn
      <3> QED
        BY <3>2, Zenon DEF ShownIn
    <2>2. CASE i = q[1]
      BY <2>2, Zenon DEF ShownIn
    <2>3. CASE q[1] < i
      <3>1. f[q[1]].onErr = "return"
        BY <1>3, <2>3, Zenon DEF AfterError, SkippedBetween
      <3>2. new[2] < i /\ f[new[2]].onErr = "return"
        BY <2>3, <3>1, Zenon
      <3> QED
        BY <3>2, Zenon DEF ShownIn
    <2>4. i < q[1] \/ i = q[1] \/ q[1] < i
      BY <1>1
    <2> QED
      BY <2>1, <2>2, <2>3, <2>4, Zenon
  <1> QED
    BY <1>2, <1>3, Zenon DEF QuietIn

-----------------------------------------------------------------------------
(* The inductive invariant.                                                *)

TypesInv ==
  /\ coll \in DOMAIN Programs /\ enabled \subseteq PartsOf(P)
  /\ phase \in {"build", "serve", "exit", "closed", "crashed"}
  /\ query \in [Queries -> {"nil", "dead", "live", "closed"}]
  /\ rows \in [Queries -> BOOLEAN]
  /\ st \in [Scrapes -> {"idle", "wait", "run", "done", "over"}]
  /\ result \in [Scrapes -> {"none", "success", "failed", "timeout"}]
  /\ pos \in [Scrapes -> {<<>>} \cup [Threads -> Nat \X Nat]]
  /\ DOMAIN errs = Scrapes /\ DOMAIN sent = Scrapes
  /\ overlapped \subseteq Scrapes

BuildInv ==
  /\ PosIn(enabled, P.build, bpos)
  /\ MadeIn(enabled, P, berrs, bpos, made)
  /\ ErrsIn(P, berrs, bpos)
  /\ LastIn(P, berrs, bpos, made)
  /\ phase \notin {"build", "crashed"} => bpos[1] = Len(P.build) + 1
  /\ phase \notin {"build", "exit", "crashed"} => Tolerated

\* A query has been opened by a build function that is on, and Close has closed it.
OpenedIn(en, p, q) ==
  \E j \in 1..Len(p.build) :
    OnIn(en, p.build[j]) /\ \E x \in StepsFor(p.build[j], "open") : x.of = q

QueryInv ==
  /\ \A q \in DOMAIN query : query[q] \in {"dead", "live"} => OpenedIn(enabled, P, q)
  /\ CloseReleases

Filled == {q \in DOMAIN rows : rows[q]}

\* The causes of a panic.
Cause(k) ==
  \/ berrs # {}
  \/ k \in overlapped /\ HasStep("first")
  \/ HasStep("dedup")
  \/ coll = "dns" /\ "metrics" \notin enabled

ErrorsInv ==
  \A k \in Scrapes :
    /\ \A e \in errs[k] : e[3] = "logged" => F(e[1])[e[2]].onErr # "return"
    /\ Panicked(k) => Cause(k)

ResultInv ==
  \A k \in Scrapes :
    /\ phase = "build" => st[k] = "idle"
    /\ st[k] \in {"idle", "wait", "run"} => result[k] \in {"none", "timeout"}
    /\ st[k] = "done" /\ result[k] = "success" => Verdict(errs[k]) = "success"

\* Two scrapes that run are recorded as overlapping.
OverlapInv ==
  \A j, k \in Scrapes : st[j] = "run" /\ st[k] = "run" /\ j # k => j \in overlapped

ThreadInv(k, t) ==
  /\ ThreadIn(enabled, P, berrs, F(t), pos[k][t], made)
  /\ k \notin overlapped =>
       QuietIn(enabled, P, berrs, F(t), t, pos[k][t], Filled, errs[k], sent[k])
  /\ st[k] = "done" => Finished(k, t)

ScrapeInv ==
  \A k \in Scrapes : st[k] \in {"run", "done"} =>
    pos[k] \in [Threads -> Nat \X Nat] /\ \A t \in Threads : ThreadInv(k, t)

IInv == /\ TypesInv /\ BuildInv /\ QueryInv /\ ErrorsInv /\ ResultInv /\ OverlapInv
        /\ ScrapeInv

-----------------------------------------------------------------------------
(* What depends on the collector alone.                                    *)

\* The functions of the collector are functions.
LEMMA FunctionsOfP ==
  ASSUME coll \in DOMAIN Programs
  PROVE  IsFunction(P.build) /\ \A t \in Threads : IsFunction(F(t))
  BY ProgramsAssumption DEF P, F, Threads

LEMMA SameProgram ==
  ASSUME UNCHANGED coll
  PROVE  /\ P' = P /\ Queries' = Queries /\ Threads' = Threads /\ \A u : F(u)' = F(u)
         /\ \A op : HasStep(op)' <=> HasStep(op)
  <1>1. P' = P
    BY DEF P
  <1>2. Queries' = Queries /\ Threads' = Threads /\ \A u : F(u)' = F(u)
    BY <1>1 DEF Queries, Threads, F
  <1>3. \A op : HasStep(op)' <=> HasStep(op)
    BY <1>1 DEF HasStep, Threads, F
  <1> QED
    BY <1>1, <1>2, <1>3

\* The invariant holds when Build starts.
LEMMA InitIInv == WellOrdered /\ Init => IInv
  <1> SUFFICES ASSUME WellOrdered, Init
               PROVE  IInv
    OBVIOUS
  <1>1. coll \in DOMAIN Programs /\ berrs = {} /\ made = {} /\ phase = "build"
        /\ bpos = FromBlock(P.build, 1) /\ IsFunction(P.build)
    BY FunctionsOfP DEF Init
  <1>2. 1 \in 1..(Len(P.build) + 1)
    BY <1>1 DEF IsFunction
  <1>3. /\ PosIn(enabled, P.build, bpos) /\ bpos[2] = 1
        /\ \A i \in 1..Len(P.build) : i < bpos[1] => ~RunsIn(enabled, P, berrs, P.build[i])
    BY <1>1, <1>2, FromBlockSkips, Zenon
  <1>4. TypesInv
    <2>1. enabled \subseteq PartsOf(P)
      BY ProgramsAssumption, Zenon DEF Init, P
    <2> QED
      BY <2>1 DEF Init, TypesInv
  <1>5. MadeIn(enabled, P, berrs, bpos, made)
    <2> SUFFICES ASSUME NEW j \in 1..Len(P.build), OnIn(enabled, P.build[j]),
                        NEW m \in 1..Len(P.build[j].steps), Passed(j, m, bpos)
                 PROVE  FALSE
      BY Zenon DEF MadeIn
    <2>1. Len(P.build[j].steps) \in Nat
      BY <1>1, Zenon DEF IsFunction
    <2>2. j < bpos[1]
      BY <1>3, <2>1 DEF Passed
    <2>3. RunsIn(enabled, P, berrs, P.build[j])
      BY <1>1 DEF RunsIn
    <2> QED
      BY <1>3, <2>2, <2>3, Zenon
  <1>6. BuildInv
    BY <1>1, <1>3, <1>5, Zenon DEF BuildInv, ErrsIn, LastIn
  <1>7. QueryInv
    BY DEF Init, QueryInv, CloseReleases
  <1>8. ErrorsInv /\ ResultInv /\ OverlapInv /\ ScrapeInv
    BY DEF Init, ErrorsInv, ResultInv, OverlapInv, ScrapeInv, Panicked
  <1> QED
    BY <1>4, <1>6, <1>7, <1>8 DEF IInv

-----------------------------------------------------------------------------
(* Steps of Build.                                                         *)

\* No scrape has begun while Build runs.
LEMMA BuildFrame ==
  ASSUME IInv, phase = "build", phase' \in {"build", "serve", "exit", "crashed"},
         UNCHANGED <<coll, enabled, rows, scrapeVars>>, berrs \subseteq berrs',
         query' \in [Queries -> {"nil", "dead", "live", "closed"}]
  PROVE  TypesInv' /\ ErrorsInv' /\ ResultInv' /\ OverlapInv' /\ ScrapeInv'
  <1>1. /\ P' = P /\ Queries' = Queries /\ Threads' = Threads /\ \A u : F(u)' = F(u)
        /\ \A op : HasStep(op)' <=> HasStep(op)
    BY SameProgram
  <1>2. UNCHANGED <<coll, enabled, rows, st, result, pos, errs, sent, overlapped>>
    BY DEF scrapeVars
  <1>3. TypesInv /\ ErrorsInv /\ ResultInv /\ OverlapInv
    BY DEF IInv
  <1>4. TypesInv'
    BY <1>1, <1>2, <1>3, Zenon DEF TypesInv
  <1>5. ErrorsInv'
    <2> SUFFICES ASSUME NEW k \in Scrapes
                 PROVE  /\ \A e \in errs[k] : e[3] = "logged" => F(e[1])[e[2]].onErr # "return"
                        /\ Panicked(k) => Cause(k)'
      BY <1>1, <1>2, Zenon DEF ErrorsInv, Panicked
    <2>1. Cause(k) => Cause(k)'
      <3>1. HasStep("first")' <=> HasStep("first")
        BY <1>1
      <3>2. HasStep("dedup")' <=> HasStep("dedup")
        BY <1>1
      <3> QED
        BY <1>1, <1>2, <3>1, <3>2, Zenon DEF Cause
    <2> QED
      BY <1>3, <2>1, Zenon DEF ErrorsInv
  <1>6. \A k \in Scrapes : st'[k] = "idle"
    BY <1>2, <1>3, Zenon DEF ResultInv
  <1>7. ResultInv' /\ OverlapInv' /\ ScrapeInv'
    BY <1>2, <1>3, <1>6, Zenon DEF ResultInv, OverlapInv, ScrapeInv
  <1> QED
    BY <1>4, <1>5, <1>7

\* The step that Build is at.
LEMMA BuildStepOf ==
  ASSUME IInv, Building
  PROVE  /\ phase = "build" /\ IsFunction(P.build) /\ ~AtEnd(P.build, bpos)
         /\ bpos[1] \in 1..Len(P.build) /\ OnIn(enabled, P.build[bpos[1]])
         /\ BuildStep \in StepsOf(P.build[bpos[1]])
         /\ BuildStep.op = "fail" => BuildStep.arg \subseteq {"tolerated", "error", "skipped", "panic"}
  <1>1. phase = "build" /\ IsFunction(P.build) /\ ~AtEnd(P.build, bpos)
        /\ coll \in DOMAIN Programs
    BY FunctionsOfP DEF IInv, TypesInv, Building
  <1>2. /\ bpos[1] \in 1..Len(P.build) /\ OnIn(enabled, P.build[bpos[1]])
        /\ bpos[2] \in 1..Len(P.build[bpos[1]].steps)
    BY <1>1 DEF IInv, BuildInv, PosIn, AtEnd, IsFunction
  <1>3. BuildStep \in StepsOf(P.build[bpos[1]])
    BY <1>2, Zenon DEF BuildStep, StepAt, StepsOf
  <1>4. BuildStep.op = "fail" => BuildStep.arg \subseteq {"tolerated", "error", "skipped", "panic"}
    BY <1>1, <1>2, <1>3, ProgramsAssumption, Zenon DEF P
  <1> QED
    BY <1>1, <1>2, <1>3, <1>4, Zenon

\* Build goes on or fails, and keeps its part of the invariant.
LEMMA BuildAdvances ==
  ASSUME WellOrdered, IInv, Building, UNCHANGED <<coll, enabled, phase>>,
         IF BuildStep.op = "make" THEN made' = made \cup BuildStep.arg ELSE made' = made,
         \/ BuildGoesOn
         \/ /\ BuildStep.op # "make"
            /\ \E class \in {"tolerated", "error", "skipped"} :
                 /\ BuildStep.op = "fail" => class \in BuildStep.arg
                 /\ BuildFails(class)
  PROVE  BuildInv' /\ berrs \subseteq berrs'
  <1>1. IsFunction(P.build) /\ ~AtEnd(P.build, bpos) /\ phase = "build"
    BY BuildStepOf, Zenon
  <1>2. PosIn(enabled, P.build, bpos) /\ MadeIn(enabled, P, berrs, bpos, made)
        /\ ErrsIn(P, berrs, bpos) /\ LastIn(P, berrs, bpos, made)
    BY DEF IInv, BuildInv
  <1>3. P' = P
    BY SameProgram
  <1>4. /\ PosIn(enabled, P.build, bpos') /\ MadeIn(enabled, P, berrs', bpos', made')
        /\ ErrsIn(P, berrs', bpos') /\ LastIn(P, berrs', bpos', made') /\ berrs \subseteq berrs'
    <2>1. CASE BuildGoesOn
      <3>1. bpos' = Advance(P.build, bpos) /\ berrs' = berrs
        BY <2>1 DEF BuildGoesOn
      <3> QED
        BY <1>1, <1>2, <3>1, GoingOn, Zenon
    <2>2. CASE /\ BuildStep.op # "make"
               /\ \E class \in {"tolerated", "error", "skipped"} :
                    /\ BuildStep.op = "fail" => class \in BuildStep.arg
                    /\ BuildFails(class)
      <3>1. PICK class \in {"tolerated", "error", "skipped"} :
                 /\ BuildStep.op = "fail" => class \in BuildStep.arg
                 /\ bpos' = Abort(P.build, bpos) /\ berrs' = berrs \cup {<<bpos[1], class>>}
        BY <2>2, Zenon DEF BuildFails
      <3>2. made' = made
        BY <2>2
      <3> QED
        BY <1>1, <1>2, <2>2, <3>1, <3>2, Failing, Zenon
    <2> QED
      BY <2>1, <2>2, Zenon
  <1> QED
    BY <1>1, <1>3, <1>4, Zenon DEF BuildInv

\* Build keeps the invariant.
LEMMA BuildKeepsIInv ==
  ASSUME WellOrdered, IInv, MakeResource \/ NewCollector \/ BuildCall \/ BuildReturns
                           \/ BuildPanics
  PROVE  IInv'
  <1>0. query \in [Queries -> {"nil", "dead", "live", "closed"}]
    BY DEF IInv, TypesInv
  <1>1. CASE MakeResource
    <2>1. /\ Building /\ BuildStep.op = "make" /\ made' = made \cup BuildStep.arg
          /\ BuildGoesOn /\ UNCHANGED <<coll, enabled, phase, query, rows, scrapeVars>>
      BY <1>1 DEF MakeResource
    <2>2. BuildInv' /\ berrs \subseteq berrs'
      BY <2>1, BuildAdvances, Zenon
    <2>3. phase = "build"
      BY <2>1 DEF Building
    <2>4. TypesInv' /\ ErrorsInv' /\ ResultInv' /\ OverlapInv' /\ ScrapeInv'
      BY <1>0, <2>1, <2>2, <2>3, BuildFrame, Zenon
    <2>5. QueryInv'
      <3>1. P' = P
        BY <2>1, SameProgram, SMTT(30)
      <3> QED
        BY <2>1, <2>3, <3>1, Zenon DEF IInv, QueryInv, CloseReleases
    <2> QED
      BY <2>2, <2>4, <2>5 DEF IInv
  <1>2. CASE NewCollector
    <2>1. /\ Building /\ BuildStep.op = "open"
          /\ UNCHANGED <<coll, enabled, phase, made, rows, scrapeVars>>
          /\ \/ BuildGoesOn
             \/ \E class \in {"tolerated", "error", "skipped"} : BuildFails(class)
          /\ \/ query' = query
             \/ \E left \in {"dead", "live"} : query' = [query EXCEPT ![BuildStep.of] = left]
      BY <1>2, Zenon DEF NewCollector
    <2>2. BuildInv' /\ berrs \subseteq berrs'
      BY <2>1, BuildAdvances, Zenon
    <2>3. phase = "build"
      BY <2>1 DEF Building
    <2>4. query' \in [Queries -> {"nil", "dead", "live", "closed"}]
      BY <1>0, <2>1
    <2>5. TypesInv' /\ ErrorsInv' /\ ResultInv' /\ OverlapInv' /\ ScrapeInv'
      BY <2>1, <2>2, <2>3, <2>4, BuildFrame, Zenon
    <2>6. QueryInv'
      <3>1. P' = P
        BY <2>1, SameProgram, Zenon
      <3>2. OpenedIn(enabled, P, BuildStep.of)
        BY <2>1, BuildStepOf, Zenon DEF OpenedIn, StepsFor
      <3>3. \A q \in DOMAIN query : query[q] \in {"dead", "live"} => OpenedIn(enabled, P, q)
        BY DEF IInv, QueryInv
      <3>4. \A q \in DOMAIN query' : query'[q] \in {"dead", "live"} => OpenedIn(enabled, P, q)
        BY <1>0, <2>1, <3>2, <3>3, Zenon
      <3> QED
        BY <2>1, <2>3, <3>1, <3>4, Zenon DEF QueryInv, CloseReleases
    <2> QED
      BY <2>2, <2>5, <2>6 DEF IInv
  <1>3. CASE BuildCall
    <2>1. /\ Building /\ BuildStep.op = "fail"
          /\ UNCHANGED <<coll, enabled, phase, made, query, rows, scrapeVars>>
          /\ \/ BuildGoesOn
             \/ \E class \in BuildStep.arg \ {"panic"} : BuildFails(class)
      BY <1>3 DEF BuildCall
    <2>2. BuildStep.arg \ {"panic"} \subseteq {"tolerated", "error", "skipped"}
      BY <2>1, BuildStepOf, Zenon
    <2>3. BuildInv' /\ berrs \subseteq berrs'
      BY <2>1, <2>2, BuildAdvances, Zenon
    <2>4. phase = "build"
      BY <2>1 DEF Building
    <2>5. TypesInv' /\ ErrorsInv' /\ ResultInv' /\ OverlapInv' /\ ScrapeInv'
      BY <1>0, <2>1, <2>3, <2>4, BuildFrame, Zenon
    <2>6. QueryInv'
      <3>1. P' = P
        BY <2>1, SameProgram
      <3> QED
        BY <2>1, <2>4, <3>1, Zenon DEF IInv, QueryInv, CloseReleases
    <2> QED
      BY <2>3, <2>5, <2>6 DEF IInv
  <1>4. CASE BuildReturns
    <2>1. /\ phase = "build" /\ AtEnd(P.build, bpos)
          /\ phase' \in {"serve", "exit"} /\ (phase' = "serve" => Tolerated)
          /\ UNCHANGED <<coll, enabled, made, query, bpos, berrs, rows, scrapeVars>>
      BY <1>4 DEF BuildReturns, buildVars
    <2>2. P' = P
      BY <2>1, SameProgram
    <2>3. BuildInv'
      <3>1. bpos[1] = Len(P.build) + 1
        BY <2>1, FunctionsOfP, PosIsOfStep, Zenon DEF IInv, TypesInv, BuildInv
      <3>2. Tolerated' <=> Tolerated
        BY <2>1 DEF Tolerated
      <3> QED
        BY <2>1, <2>2, <3>1, <3>2, Zenon DEF IInv, BuildInv
    <2>4. TypesInv' /\ ErrorsInv' /\ ResultInv' /\ OverlapInv' /\ ScrapeInv'
      BY <1>0, <2>1, BuildFrame, Zenon
    <2>5. QueryInv'
      BY <2>1, <2>2, Zenon DEF IInv, QueryInv, CloseReleases
    <2> QED
      BY <2>3, <2>4, <2>5 DEF IInv
  <1>5. CASE BuildPanics
    <2>1. /\ phase = "build" /\ phase' = "crashed"
          /\ UNCHANGED <<coll, enabled, made, query, bpos, berrs, rows, scrapeVars>>
      BY <1>5, Zenon DEF BuildPanics, Building, buildVars
    <2>2. P' = P
      BY <2>1, SameProgram
    <2>3. BuildInv'
      BY <2>1, <2>2, Zenon DEF IInv, BuildInv
    <2>4. TypesInv' /\ ErrorsInv' /\ ResultInv' /\ OverlapInv' /\ ScrapeInv'
      BY <1>0, <2>1, BuildFrame, Zenon
    <2>5. QueryInv'
      BY <2>1, <2>2, Zenon DEF IInv, QueryInv, CloseReleases
    <2> QED
      BY <2>3, <2>4, <2>5 DEF IInv
  <1> QED
    BY <1>1, <1>2, <1>3, <1>4, <1>5

-----------------------------------------------------------------------------
(* What a step of Collect finds.                                           *)

\* Of the tables.
LEMMA TablesOfP ==
  ASSUME coll \in DOMAIN Programs
  PROVE  /\ \A t \in Threads : \A i \in 1..Len(F(t)) : LoggedErrorsGoOn(F(t)[i])
         /\ RowsAreRead(P) /\ ClosesItsQueries(coll, P) /\ UsesAreMade(coll, P)
         /\ CloseUsesAreMade(P) /\ PanicsAreRecovered(coll, P)
  BY TableAssumption, Zenon DEF P, F, Threads

\* A step that is surely made has not been skipped, if Collect has got to a step
\* that has found md.
LEMMA SurelyMadeIsMade ==
  ASSUME NEW en, NEW p, NEW be, NEW bp, NEW md, NEW f, NEW i, NEW n,
         IsFunction(p.build), NEW j \in 1..Len(p.build), NEW m,
         ErrsIn(p, be, bp), LastIn(p, be, bp, md), RunsIn(en, p, be, f[i]),
         Checked(f, i, n) \subseteq md, SurelyMade(p, j, m, f, i, n),
         (\A e \in be : e[2] = "skipped") \/ \E e \in be : e[2] = "tolerated"
  PROVE  ~Skipped(p, be, j, m)
  <1> SUFFICES ASSUME NEW e \in be,
                      \/ e[1] = j /\ \E y \in StepsBefore(p.build[j], m) : y.op # "make"
                      \/ e[1] < j /\ p.build[e[1]].onErr = "return"
                      \/ p.ifBuilt /\ p.build[e[1]].part = p.build[j].part
               PROVE  FALSE
    BY Zenon DEF Skipped
  <1>1. e[1] \in 1..Len(p.build) /\ Len(p.build) \in Nat
    BY Zenon DEF ErrsIn, IsFunction
  <1>2. ASSUME p.ifBuilt, p.build[e[1]].part = p.build[j].part
        PROVE  FALSE
    BY <1>2, Zenon DEF SurelyMade, RunsIn
  <1>3. ASSUME e[1] = j, ~p.ifBuilt, \E y \in StepsBefore(p.build[j], m) : y.op # "make"
        PROVE  FALSE
    BY <1>3, Zenon DEF SurelyMade
  <1>4. ASSUME e[1] < j, p.build[e[1]].onErr = "return"
        PROVE  FALSE
    <2>1. e[1] \in 1..(j - 1)
      BY <1>1, <1>4
    <2>2. FailureIsSeen(p, e[1], f, i, n)
      BY <1>4, <2>1, Zenon DEF SurelyMade
    <2>3. ~(\A y \in StepsOf(p.build[e[1]]) : y.op = "make")
      BY Zenon DEF ErrsIn
    <2>4. ASSUME NEW r \in Checked(f, i, n), MadeLast(p, e[1], r)
          PROVE  FALSE
      BY <1>1, <2>4, Zenon DEF LastIn
    <2>5. ASSUME e[1] = 1, \A y \in StepsOf(p.build[1]) :
                             y.op = "make" \/ (y.op = "fail" /\ y.arg = {"error"})
          PROVE  FALSE
      <3>0. e[2] # "skipped"
        BY <2>5, Zenon DEF ErrsIn
      <3>1. PICK d \in be : d[2] = "tolerated"
        BY <3>0, Zenon
      <3>2. d[1] <= e[1] /\ d[1] \in 1..Len(p.build)
        BY <1>4, Zenon DEF ErrsIn
      <3>3. d[1] = 1
        BY <1>1, <2>5, <3>2
      <3>4. \E y \in StepsOf(p.build[1]) : y.op # "make" /\ (y.op = "fail" => d[2] \in y.arg)
        BY <3>3, Zenon DEF ErrsIn
      <3> QED
        BY <2>5, <3>1, <3>4, Zenon
    <2> QED
      BY <2>2, <2>3, <2>4, <2>5, Zenon DEF FailureIsSeen
  <1> QED
    BY <1>2, <1>3, <1>4, Zenon

\* What a goroutine at position q has found made.
LEMMA CheckedIsMade ==
  ASSUME NEW en, NEW p, NEW be, NEW f, NEW q, NEW md, IsFunction(f),
         ThreadIn(en, p, be, f, q, md), q[1] <= Len(f)
  PROVE  Checked(f, q[1], q[2]) \subseteq md
  <1> DEFINE i == q[1]
  <1>1. RunsIn(en, p, be, f[i]) /\ HeldIn(f, q, md) /\ GuardIn(en, p, be, f, q, md)
    BY DEF ThreadIn
  <1>2. i \in 1..Len(f) /\ Len(f) \in Nat
    BY PosIsOfStep, Zenon DEF ThreadIn
  <1> SUFFICES ASSUME NEW r \in Checked(f, i, q[2])
               PROVE  r \in md
    OBVIOUS
  <1>3. \/ \E y \in StepsBefore(f[i], q[2]) : y.op = "have" /\ r = y.of
        \/ \E h \in 1..(i - 1) : /\ f[h].part = f[i].part /\ f[h].onErr = "return"
                                 /\ \E y \in StepsFor(f[h], "have") : r = y.of
    BY Zenon DEF Checked
  <1>4. CASE \E y \in StepsBefore(f[i], q[2]) : y.op = "have" /\ r = y.of
    BY <1>1, <1>4, Zenon DEF HeldIn
  <1>5. CASE \E h \in 1..(i - 1) : /\ f[h].part = f[i].part /\ f[h].onErr = "return"
                                   /\ \E y \in StepsFor(f[h], "have") : r = y.of
    <2>1. PICK h \in 1..(i - 1) : /\ f[h].part = f[i].part /\ f[h].onErr = "return"
                                  /\ \E y \in StepsFor(f[h], "have") : r = y.of
      BY <1>5, Zenon
    <2>2. RunsIn(en, p, be, f[h])
      BY <1>1, <2>1, Zenon DEF RunsIn, OnIn
    <2>3. h \in 1..Len(f) /\ h < i
      BY <1>2
    <2> QED
      BY <1>1, <2>1, <2>2, <2>3, Zenon DEF GuardIn
  <1> QED
    BY <1>3, <1>4, <1>5, Zenon

\* What is said of a goroutine stays true while others make, read, send and fail.
LEMMA ThreadIsKept ==
  ASSUME NEW en, NEW p, NEW be, NEW f, NEW q, NEW md, NEW md2,
         ThreadIn(en, p, be, f, q, md), md \subseteq md2
  PROVE  ThreadIn(en, p, be, f, q, md2)
  <1>1. q[1] <= Len(f) => HeldIn(f, q, md2)
    BY Zenon DEF ThreadIn, HeldIn
  <1>2. q[1] <= Len(f) => GuardIn(en, p, be, f, q, md2)
    BY Zenon DEF ThreadIn, GuardIn
  <1> QED
    BY <1>1, <1>2, Zenon DEF ThreadIn

LEMMA QuietIsKept ==
  ASSUME NEW f, NEW q, NEW j, NEW u, sent[j] \subseteq sent'[j],
         QuietIn(enabled, P, berrs, f, u, q, Filled, errs[j], sent[j]),
         errs[j] \subseteq errs'[j] \/ \E e \in errs'[j] : e[3] = "panic",
         q[1] <= Len(f) => \A x \in StepsBefore(f[q[1]], q[2]) :
                             x.op = "read" /\ x.of \in Filled => x.of \in Filled'
  PROVE  QuietIn(enabled, P, berrs, f, u, q, Filled', errs'[j], sent'[j])
  <1>1. q[1] <= Len(f) =>
          \A x \in StepsBefore(f[q[1]], q[2]) : x.op = "read" => x.of \in Filled'
    BY Zenon DEF QuietIn
  <1>2. ASSUME \A e \in errs'[j] : e[3] # "panic"
        PROVE  errs[j] \subseteq errs'[j] /\ \A e \in errs[j] : e[3] # "panic"
    BY <1>2, Zenon
  <1>3. ASSUME \A e \in errs'[j] : e[3] # "panic", NEW i \in 1..Len(f), i < q[1],
               RunsIn(enabled, P, berrs, f[i])
        PROVE  ShownIn(f, u, i, errs'[j], sent'[j])
    <2>1. ShownIn(f, u, i, errs[j], sent[j])
      BY <1>2, <1>3, Zenon DEF QuietIn
    <2> QED
      BY <1>2, <1>3, <2>1, Zenon DEF ShownIn
  <1>4. ASSUME \A e \in errs'[j] : e[3] # "panic", q[1] <= Len(f),
               NEW x \in StepsBefore(f[q[1]], q[2]), x.op \in GroupSteps
        PROVE  x.of \in sent'[j]
    BY <1>2, <1>4, Zenon DEF QuietIn
  <1> QED
    BY <1>1, <1>3, <1>4, Zenon DEF QuietIn

\* What a step of Collect uses has been made, unless Build has failed in a
\* collector without goroutines, or dns runs without metrics.
LEMMA UsedIsMade ==
  ASSUME IInv, phase = "serve", NEW t \in Threads, NEW q,
         ThreadIn(enabled, P, berrs, F(t), q, made), q[1] <= Len(F(t)),
         F(t)[q[1]].steps[q[2]].op \in Uses, F(t)[q[1]].steps[q[2]].of \notin made
  PROVE  /\ \/ berrs # {} /\ ~InGoroutine(P, F(t)[q[1]])
            \/ coll = "dns" /\ "metrics" \notin enabled
         /\ F(t)[q[1]].steps[q[2]].op = "send" => berrs # {}
  <1> DEFINE f == F(t)
             b == f[q[1]]
             x == b.steps[q[2]]
             Finds(j, m) ==
               /\ Makes(P, j, m, x.of)
               /\ \/ P.build[j].part \in {"", b.part}
                  \/ coll = "dns" /\ P.build[j].part = "metrics" /\ x.op # "send"
               /\ InGoroutine(P, b) => SurelyMade(P, j, m, f, q[1], q[2])
  <1>a. /\ coll \in DOMAIN Programs /\ IsFunction(P.build) /\ IsFunction(f)
        /\ UsesAreMade(coll, P) /\ F(t) = P.threads[t] /\ t \in 1..Len(P.threads)
    BY FunctionsOfP, TablesOfP, Zenon DEF IInv, TypesInv, F, Threads
  <1>b. /\ MadeIn(enabled, P, berrs, bpos, made) /\ ErrsIn(P, berrs, bpos)
        /\ LastIn(P, berrs, bpos, made) /\ bpos[1] = Len(P.build) + 1
        /\ PosIn(enabled, P.build, bpos)
        /\ (\A e \in berrs : e[2] = "skipped") \/ \E e \in berrs : e[2] = "tolerated"
    BY Zenon DEF IInv, BuildInv, Tolerated
  <1>1. RunsIn(enabled, P, berrs, b) /\ HeldIn(f, q, made)
    BY Zenon DEF ThreadIn
  <1>2. q[1] \in 1..Len(f) /\ q[2] \in 1..Len(b.steps) /\ Len(P.build) \in Nat
    BY <1>a, PosIsOfStep, Zenon DEF ThreadIn, IsFunction
  <1>3. ~\E y \in StepsBefore(b, q[2]) : y.op = "make" /\ x.of \in y.arg
    BY <1>1, Zenon DEF HeldIn
  <1>4. \E j \in 1..Len(P.build) : \E m \in 1..Len(P.build[j].steps) : Finds(j, m)
    <2>1. UseIsMade(coll, P, t, q[1], q[2])
      BY <1>2, <1>a, Zenon DEF UsesAreMade, F
    <2> QED
      BY <1>3, <2>1, Zenon DEF UseIsMade, F
  <1> HIDE DEF Finds
  <1>5. PICK j \in 1..Len(P.build) : \E m \in 1..Len(P.build[j].steps) : Finds(j, m)
    BY <1>4, Zenon
  <1>6. PICK m \in 1..Len(P.build[j].steps) : Finds(j, m)
    BY <1>5, Zenon
  <1>7. Makes(P, j, m, x.of) /\ (InGoroutine(P, b) => SurelyMade(P, j, m, f, q[1], q[2]))
    BY <1>6, Zenon DEF Finds
  <1> HIDE DEF f, b, x
  <1>8. CASE ~OnIn(enabled, P.build[j])
    <2>1. P.build[j].part # "" /\ P.build[j].part # b.part /\ P.build[j].part \notin enabled
      BY <1>1, <1>8, Zenon DEF OnIn, RunsIn
    <2>2. coll = "dns" /\ "metrics" \notin enabled /\ x.op # "send"
      BY <1>6, <2>1, Zenon DEF Finds
    <2> QED
      BY <2>2, Zenon DEF x, b, f
  <1>9. CASE OnIn(enabled, P.build[j])
    <2>1. Passed(j, m, bpos)
      BY <1>a, <1>b, PosIsOfStep, Zenon DEF Passed
    <2>2. Skipped(P, berrs, j, m)
      <3>1. x.of \notin made
        BY Zenon DEF x, b, f
      <3>2. ~(P.build[j].steps[m].arg \subseteq made) /\ P.build[j].steps[m].op = "make"
        BY <1>7, <3>1, Zenon DEF Makes
      <3> QED
        BY <1>9, <1>b, <2>1, <3>2, Zenon DEF MadeIn
    <2>3. berrs # {}
      BY <2>2, Zenon DEF Skipped
    <2>4. Checked(f, q[1], q[2]) \subseteq made
      BY <1>a, CheckedIsMade, Zenon DEF f
    <2>5. ~SurelyMade(P, j, m, f, q[1], q[2])
      BY <1>1, <1>a, <1>b, <2>2, <2>4, SurelyMadeIsMade, Zenon DEF b
    <2> QED
      BY <1>7, <2>3, <2>5, Zenon DEF b, f
  <1> QED
    BY <1>8, <1>9, Zenon

\* In a scrape that overlaps no other, rows that metrics are taken from are there.
LEMMA RowsAreThere ==
  ASSUME coll \in DOMAIN Programs, NEW t \in Threads, NEW q, NEW es, NEW sn,
         PosIn(enabled, F(t), q), q[1] <= Len(F(t)),
         QuietIn(enabled, P, berrs, F(t), t, q, Filled, es, sn),
         F(t)[q[1]].steps[q[2]].op \in RowSteps
  PROVE  \A z \in F(t)[q[1]].steps[q[2]].arg : rows[z]
  <1> DEFINE b == F(t)[q[1]]
  <1>1. q[1] \in 1..Len(F(t)) /\ q[2] \in 1..Len(b.steps)
    BY FunctionsOfP, PosIsOfStep, Zenon
  <1>2. ReadsBefore(b)
    <2>1. RowsAreRead(P)
      BY TablesOfP, Zenon
    <2> QED
      BY <1>1, <2>1, Zenon DEF RowsAreRead, F, Threads
  <1>3. \A y \in StepsBefore(b, q[2]) : y.op = "read" => y.of \in Filled
    BY Zenon DEF QuietIn
  <1> HIDE DEF b
  <1>4. b.steps[q[2]].op \in RowSteps
    BY Zenon DEF b
  <1>5. \A z \in b.steps[q[2]].arg : z \in Filled
    BY <1>1, <1>2, <1>3, <1>4, Zenon DEF ReadsBefore
  <1>6. \A z \in b.steps[q[2]].arg : rows[z]
    BY <1>5, Zenon DEF Filled
  <1> QED
    BY <1>6, Zenon DEF b

\* Where goroutine t of scrape k is.
LEMMA ThreadAt ==
  ASSUME IInv, NEW k \in Scrapes, NEW t \in Threads, st[k] = "run", ~Finished(k, t)
  PROVE  /\ IsFunction(F(t)) /\ pos[k][t][1] \in 1..Len(F(t)) /\ pos[k][t][1] <= Len(F(t))
         /\ pos[k][t][2] \in 1..Len(F(t)[pos[k][t][1]].steps)
         /\ PosIn(enabled, F(t), pos[k][t]) /\ ~AtEnd(F(t), pos[k][t])
         /\ Here(k, t) = F(t)[pos[k][t][1]].steps[pos[k][t][2]]
         /\ Here(k, t) \in StepsOf(F(t)[pos[k][t][1]])
         /\ ThreadIn(enabled, P, berrs, F(t), pos[k][t], made)
         /\ k \notin overlapped =>
              QuietIn(enabled, P, berrs, F(t), t, pos[k][t], Filled, errs[k], sent[k])
         /\ coll \in DOMAIN Programs
  <1>1. ThreadInv(k, t)
    BY DEF IInv, ScrapeInv
  <1>2. coll \in DOMAIN Programs /\ IsFunction(F(t))
    BY FunctionsOfP, Zenon DEF IInv, TypesInv
  <1>3. /\ ThreadIn(enabled, P, berrs, F(t), pos[k][t], made)
        /\ PosIn(enabled, F(t), pos[k][t]) /\ ~AtEnd(F(t), pos[k][t])
        /\ k \notin overlapped =>
             QuietIn(enabled, P, berrs, F(t), t, pos[k][t], Filled, errs[k], sent[k])
    BY <1>1, Zenon DEF ThreadInv, ThreadIn, Finished
  <1>4. /\ pos[k][t][1] \in 1..Len(F(t)) /\ pos[k][t][1] <= Len(F(t))
        /\ pos[k][t][2] \in 1..Len(F(t)[pos[k][t][1]].steps)
    BY <1>2, <1>3, PosIsOfStep, Zenon
  <1>5. /\ Here(k, t) = F(t)[pos[k][t][1]].steps[pos[k][t][2]]
        /\ Here(k, t) \in StepsOf(F(t)[pos[k][t][1]])
    BY <1>4, Zenon DEF Here, StepAt, StepsOf
  <1> QED
    BY <1>2, <1>3, <1>4, <1>5, Zenon

LEMMA NeededIsMade ==
  ASSUME IInv, NEW k \in Scrapes, NEW t \in Threads, st[k] = "run", ~Finished(k, t),
         phase = "serve", Here(k, t).op \in Uses, Here(k, t).of \notin made
  PROVE  /\ ~InGoroutine(P, F(t)[pos[k][t][1]])
         /\ berrs # {} \/ (coll = "dns" /\ "metrics" \notin enabled)
         /\ Here(k, t).op = "send" => berrs # {}
  <1>1. /\ ThreadIn(enabled, P, berrs, F(t), pos[k][t], made) /\ pos[k][t][1] <= Len(F(t))
        /\ Here(k, t) = F(t)[pos[k][t][1]].steps[pos[k][t][2]]
        /\ coll \in DOMAIN Programs /\ pos[k][t][1] \in 1..Len(F(t))
    BY ThreadAt, Zenon
  <1>2. coll = "dns" => ~InGoroutine(P, F(t)[pos[k][t][1]])
    BY <1>1, TablesOfP, Zenon DEF PanicsAreRecovered, F, Threads
  <1> QED
    BY <1>1, <1>2, UsedIsMade, Zenon

LEMMA NeededRowsAreThere ==
  ASSUME IInv, NEW k \in Scrapes, NEW t \in Threads, st[k] = "run", ~Finished(k, t),
         k \notin overlapped, Here(k, t).op \in RowSteps, NEW q \in Here(k, t).arg
  PROVE  rows[q]
  <1>1. /\ PosIn(enabled, F(t), pos[k][t]) /\ pos[k][t][1] <= Len(F(t))
        /\ Here(k, t) = F(t)[pos[k][t][1]].steps[pos[k][t][2]] /\ coll \in DOMAIN Programs
        /\ QuietIn(enabled, P, berrs, F(t), t, pos[k][t], Filled, errs[k], sent[k])
    BY ThreadAt, Zenon
  <1> QED
    BY <1>1, RowsAreThere, Zenon

\* Rows are read from a query of the collector, by one goroutine.
LEMMA ReadersOf ==
  ASSUME coll \in DOMAIN Programs, NEW t \in Threads, NEW i \in 1..Len(F(t)),
         NEW x \in StepsFor(F(t)[i], "read")
  PROVE  x.of \in Queries /\ OnlyReader(P, t, x.of)
  <1>1. OnlyReader(P, t, x.of)
    <2>1. RowsAreRead(P)
      BY TablesOfP
    <2> QED
      BY <2>1, Zenon DEF RowsAreRead, Threads, F
  <1>2. PICK j \in 1..Len(P.build) : \E y \in StepsFor(P.build[j], "open") : y.of = x.of
    BY <1>1, Zenon DEF OnlyReader
  <1>3. PICK y \in StepsFor(P.build[j], "open") : y.of = x.of
    BY <1>2
  <1>4. P.build[j] \in BlocksOf(P)
    BY Zenon DEF BlocksOf
  <1>5. y \in UNION {StepsOf(b) : b \in BlocksOf(P)} /\ y.op = "open"
    BY <1>4 DEF StepsFor
  <1> QED
    BY <1>1, <1>3, <1>5 DEF Queries

-----------------------------------------------------------------------------
(* A step of Collect goes on, fails or panics.                             *)

WentOn(k, t) ==
  /\ pos' = [pos EXCEPT ![k][t] = Advance(F(t), @)] /\ UNCHANGED <<phase, errs>>
  /\ sent' = sent \/ sent' = [sent EXCEPT ![k] = @ \cup {Here(k, t).of}]
  /\ IF Here(k, t).op = "make" THEN made' = made \cup Here(k, t).arg ELSE made' = made
  /\ IF Here(k, t).op = "read" THEN rows' = [rows EXCEPT ![Here(k, t).of] = TRUE]
                               ELSE rows' = rows
  /\ Here(k, t).op = "have" => Here(k, t).of \in made
  /\ Here(k, t).op \in GroupSteps /\ k \notin overlapped => Here(k, t).of \in sent'[k]

Failed(k, t) ==
  /\ pos' = [pos EXCEPT ![k][t] = Abort(F(t), @)] /\ UNCHANGED <<phase, sent, made>>
  /\ \E c : /\ c # "panic" /\ (c = "logged" => F(t)[pos[k][t][1]].onErr # "return")
            /\ errs' = [errs EXCEPT ![k] = @ \cup {<<t, pos[k][t][1], c>>}]
  /\ \/ rows' = rows
     \/ Here(k, t).op = "read" /\ \E r \in BOOLEAN : rows' = [rows EXCEPT ![Here(k, t).of] = r]

HasPanicked(k, t) ==
  /\ Panics(k, t) /\ UNCHANGED <<made, rows>> /\ Cause(k)
  /\ InGoroutine(P, F(t)[pos[k][t][1]]) => k \in overlapped /\ HasStep("first")

\* The class of an error that Collect reports.
LEMMA FailsIsFailed ==
  ASSUME NEW k, NEW t, NEW class \in {"nodata", "error", "logged"}, Fails(k, t, class),
         class = "logged" => F(t)[pos[k][t][1]].onErr # "return", UNCHANGED made,
         \/ rows' = rows
         \/ /\ Here(k, t).op = "read"
            /\ \E r \in BOOLEAN : rows' = [rows EXCEPT ![Here(k, t).of] = r]
  PROVE  Failed(k, t)
  <1> DEFINE onErr == F(t)[pos[k][t][1]].onErr
             c == ClassFor(onErr, class)
  <1>1. c # "panic" /\ (c = "logged" => onErr # "return")
    BY Zenon DEF ClassFor
  <1>2. /\ pos' = [pos EXCEPT ![k][t] = Abort(F(t), @)] /\ UNCHANGED <<phase, sent>>
        /\ errs' = [errs EXCEPT ![k] = @ \cup {<<t, pos[k][t][1], c>>}]
    BY Zenon DEF Fails
  <1> HIDE DEF c
  <1> QED
    BY <1>1, <1>2, Zenon DEF Failed

LEMMA ContinuesIsWentOn ==
  ASSUME NEW k, NEW t, Continues(k, t),
         IF Here(k, t).op = "make" THEN made' = made \cup Here(k, t).arg ELSE made' = made,
         IF Here(k, t).op = "read" THEN rows' = [rows EXCEPT ![Here(k, t).of] = TRUE]
                                   ELSE rows' = rows,
         Here(k, t).op = "have" => Here(k, t).of \in made,
         Here(k, t).op \in GroupSteps => k \in overlapped
  PROVE  WentOn(k, t)
  BY Zenon DEF Continues, GoesOn, WentOn

LEMMA SendsCases ==
  ASSUME IInv, NEW k \in Scrapes, NEW t \in Threads, phase = "serve", st[k] = "run",
         ~Finished(k, t), Here(k, t).op \in GroupSteps, Sends(k, t, Here(k, t).of),
         UNCHANGED <<made, rows>>
  PROVE  WentOn(k, t) \/ HasPanicked(k, t)
  <1>1. CASE Here(k, t).of \in made
    <2>1. /\ sent' = [sent EXCEPT ![k] = @ \cup {Here(k, t).of}]
          /\ GoesOn(k, t) /\ UNCHANGED <<phase, errs>>
      BY <1>1, Zenon DEF Sends
    <2>2. Here(k, t).of \in sent'[k]
      BY <2>1, Zenon DEF IInv, TypesInv
    <2> QED
      BY <2>1, <2>2, Zenon DEF WentOn, GoesOn, GroupSteps
  <1>2. CASE Here(k, t).of \notin made
    <2>1. Panics(k, t)
      BY <1>2, Zenon DEF Sends
    <2>2. Here(k, t).op \in Uses
      BY DEF GroupSteps, Uses
    <2>3. Cause(k) /\ ~InGoroutine(P, F(t)[pos[k][t][1]])
      BY <1>2, <2>2, NeededIsMade, Zenon DEF Cause
    <2> QED
      BY <2>1, <2>3 DEF HasPanicked
  <1> QED
    BY <1>1, <1>2

\* Every step of Collect does one of the three.
LEMMA CollectStepCases ==
  ASSUME IInv, NEW k \in Scrapes, NEW t \in Threads, CollectStep(k, t)
  PROVE  /\ phase = "serve" /\ st[k] = "run" /\ ~Finished(k, t) /\ UNCHANGED collectFrame
         /\ WentOn(k, t) \/ Failed(k, t) \/ HasPanicked(k, t)
  <1> DEFINE x == Here(k, t)
  <1>1. CASE ReadRows(k, t)
    <2>1. /\ phase = "serve" /\ st[k] = "run" /\ ~Finished(k, t) /\ x.op = "read"
          /\ UNCHANGED collectFrame /\ made' = made
      BY <1>1, Zenon DEF ReadRows, At
    <2>2. \/ rows' = [rows EXCEPT ![x.of] = TRUE] /\ Continues(k, t)
          \/ \E class \in {"nodata", "error"} :
               /\ Fails(k, t, class)
               /\ \/ rows' = rows
                  \/ \E r \in BOOLEAN : rows' = [rows EXCEPT ![x.of] = r]
      BY <1>1, Zenon DEF ReadRows
    <2>3. CASE rows' = [rows EXCEPT ![x.of] = TRUE] /\ Continues(k, t)
      BY <2>1, <2>3, ContinuesIsWentOn, Zenon DEF GroupSteps
    <2>4. CASE \E class \in {"nodata", "error"} :
                 /\ Fails(k, t, class)
                 /\ \/ rows' = rows
                    \/ \E r \in BOOLEAN : rows' = [rows EXCEPT ![x.of] = r]
      BY <2>1, <2>4, FailsIsFailed, Zenon
    <2> QED
      BY <2>1, <2>2, <2>3, <2>4, Zenon
  <1>2. CASE CheckRows(k, t)
    <2>1. /\ phase = "serve" /\ st[k] = "run" /\ ~Finished(k, t) /\ x.op = "nonempty"
          /\ UNCHANGED collectFrame /\ made' = made /\ rows' = rows
          /\ Continues(k, t) \/ Fails(k, t, "error")
      BY <1>2, Zenon DEF CheckRows, At
    <2>2. Continues(k, t) => WentOn(k, t)
      BY <2>1, ContinuesIsWentOn, Zenon DEF GroupSteps
    <2>3. Fails(k, t, "error") => Failed(k, t)
      BY <2>1, FailsIsFailed, Zenon
    <2> QED
      BY <2>1, <2>2, <2>3
  <1>3. CASE SendFirstRow(k, t)
    <2>1. /\ phase = "serve" /\ st[k] = "run" /\ ~Finished(k, t) /\ x.op = "first"
          /\ UNCHANGED collectFrame /\ made' = made /\ rows' = rows
      BY <1>3, Zenon DEF SendFirstRow, At
    <2>2. PICK q \in x.arg : IF rows[q] THEN Sends(k, t, x.of) ELSE Panics(k, t)
      BY <1>3 DEF SendFirstRow
    <2>3. CASE rows[q]
      BY <2>1, <2>2, <2>3, SendsCases, Zenon DEF GroupSteps
    <2>4. CASE ~rows[q]
      <3>1. k \in overlapped
        BY <2>1, <2>4, NeededRowsAreThere DEF RowSteps
      <3>2. HasStep("first")
        <4>1. x \in StepsOf(F(t)[pos[k][t][1]]) /\ pos[k][t][1] \in 1..Len(F(t))
          BY <2>1, ThreadAt, Zenon
        <4> QED
          BY <2>1, <4>1, Zenon DEF HasStep
      <3> QED
        BY <2>1, <2>2, <2>4, <3>1, <3>2, SMTT(30) DEF HasPanicked, Cause
    <2> QED
      BY <2>1, <2>3, <2>4, Zenon
  <1>4. CASE SendEachRow(k, t)
    <2>1. /\ phase = "serve" /\ st[k] = "run" /\ ~Finished(k, t) /\ x.op \in {"each", "eachNamed"}
          /\ UNCHANGED collectFrame /\ made' = made /\ rows' = rows
      BY <1>4, Zenon DEF SendEachRow, At
    <2>2. PICK q \in x.arg : \/ rows[q] /\ Sends(k, t, x.of)
                             \/ ~rows[q] /\ Continues(k, t)
                             \/ Fails(k, t, "error")
      BY <1>4, Zenon DEF SendEachRow
    <2>3. Sends(k, t, x.of) => WentOn(k, t) \/ HasPanicked(k, t)
      BY <2>1, SendsCases, Zenon DEF GroupSteps
    <2>4. ~rows[q] => k \in overlapped
      BY <2>1, NeededRowsAreThere DEF RowSteps
    <2>5. ~rows[q] /\ Continues(k, t) => WentOn(k, t)
      BY <2>1, <2>4, ContinuesIsWentOn, Zenon
    <2>6. Fails(k, t, "error") => Failed(k, t)
      BY <2>1, FailsIsFailed, Zenon
    <2> QED
      BY <2>1, <2>2, <2>3, <2>5, <2>6, Zenon
  <1>5. CASE SendValues(k, t)
    <2>1. /\ phase = "serve" /\ st[k] = "run" /\ ~Finished(k, t) /\ x.op = "emit"
          /\ UNCHANGED collectFrame /\ made' = made /\ rows' = rows /\ Sends(k, t, x.of)
      BY <1>5 DEF SendValues, At
    <2> QED
      BY <2>1, SendsCases, Zenon DEF GroupSteps
  <1>6. CASE QueryMI(k, t)
    <2>1. /\ phase = "serve" /\ st[k] = "run" /\ ~Finished(k, t) /\ x.op = "query"
          /\ UNCHANGED collectFrame /\ made' = made /\ rows' = rows
          /\ Continues(k, t) \/ Fails(k, t, "error")
      BY <1>6 DEF QueryMI, At
    <2>2. Continues(k, t) => WentOn(k, t)
      BY <2>1, ContinuesIsWentOn, Zenon DEF GroupSteps
    <2>3. Fails(k, t, "error") => Failed(k, t)
      BY <2>1, FailsIsFailed, Zenon
    <2> QED
      BY <2>1, <2>2, <2>3, SMTT(30)
  <1>7. CASE CollectCall(k, t)
    <2>1. /\ phase = "serve" /\ st[k] = "run" /\ ~Finished(k, t) /\ x.op = "fail"
          /\ UNCHANGED collectFrame /\ made' = made /\ rows' = rows
          /\ Continues(k, t) \/ \E class \in x.arg : Fails(k, t, class)
      BY <1>7, Zenon DEF CollectCall, At
    <2>2. Continues(k, t) => WentOn(k, t)
      BY <2>1, ContinuesIsWentOn, Zenon DEF GroupSteps
    <2>3. ASSUME NEW class \in x.arg, Fails(k, t, class)
          PROVE  Failed(k, t)
      <3>1. /\ x \in StepsOf(F(t)[pos[k][t][1]]) /\ pos[k][t][1] \in 1..Len(F(t))
            /\ coll \in DOMAIN Programs
        BY <2>1, ThreadAt, Zenon
      <3>2. LoggedErrorsGoOn(F(t)[pos[k][t][1]])
        BY <3>1, TablesOfP, Zenon
      <3>3. /\ class \in {"nodata", "error", "logged"}
            /\ class = "logged" => F(t)[pos[k][t][1]].onErr # "return"
        BY <2>1, <3>1, <3>2, Zenon DEF LoggedErrorsGoOn, StepsFor
      <3> QED
        BY <2>1, <2>3, <3>3, FailsIsFailed, Zenon
    <2> QED
      BY <2>1, <2>2, <2>3, Zenon
  <1>8. CASE UseResource(k, t)
    <2>1. /\ phase = "serve" /\ st[k] = "run" /\ ~Finished(k, t) /\ x.op = "use"
          /\ UNCHANGED collectFrame /\ made' = made /\ rows' = rows
          /\ IF x.of \in made THEN Continues(k, t) ELSE Panics(k, t)
      BY <1>8, Zenon DEF UseResource, At
    <2>2. Continues(k, t) => WentOn(k, t)
      BY <2>1, ContinuesIsWentOn, Zenon DEF GroupSteps
    <2>3. x.of \notin made => Cause(k) /\ ~InGoroutine(P, F(t)[pos[k][t][1]])
      BY <2>1, NeededIsMade, Zenon DEF Uses, Cause
    <2> QED
      BY <2>1, <2>2, <2>3 DEF HasPanicked
  <1>9. CASE CheckResource(k, t)
    <2>1. /\ phase = "serve" /\ st[k] = "run" /\ ~Finished(k, t) /\ x.op = "have"
          /\ UNCHANGED collectFrame /\ made' = made /\ rows' = rows
          /\ IF x.of \in made THEN Continues(k, t) ELSE Fails(k, t, "nodata")
      BY <1>9, Zenon DEF CheckResource, At
    <2>2. Continues(k, t) /\ x.of \in made => WentOn(k, t)
      BY <2>1, ContinuesIsWentOn, Zenon DEF GroupSteps
    <2>3. Fails(k, t, "nodata") => Failed(k, t)
      BY <2>1, FailsIsFailed, Zenon
    <2> QED
      BY <2>1, <2>2, <2>3
  <1>10. CASE SendWork(k, t)
    <2>1. /\ phase = "serve" /\ st[k] = "run" /\ ~Finished(k, t) /\ x.op = "send"
          /\ UNCHANGED collectFrame /\ made' = made /\ rows' = rows /\ Continues(k, t)
      BY <1>10 DEF SendWork, At
    <2> QED
      BY <2>1, ContinuesIsWentOn, Zenon DEF GroupSteps
  <1>11. CASE DedupNames(k, t)
    <2>1. /\ phase = "serve" /\ st[k] = "run" /\ ~Finished(k, t) /\ x.op = "dedup"
          /\ UNCHANGED collectFrame /\ made' = made /\ rows' = rows
          /\ Continues(k, t) \/ Panics(k, t)
      BY <1>11, Zenon DEF DedupNames, At
    <2>2. Continues(k, t) => WentOn(k, t)
      BY <2>1, ContinuesIsWentOn, Zenon DEF GroupSteps
    <2>3. HasStep("dedup") /\ ~InGoroutine(P, F(t)[pos[k][t][1]])
      <3>1. /\ x \in StepsOf(F(t)[pos[k][t][1]]) /\ pos[k][t][1] \in 1..Len(F(t))
            /\ coll \in DOMAIN Programs
        BY <2>1, ThreadAt, Zenon
      <3>2. HasStep("dedup")
        BY <2>1, <3>1, Zenon DEF HasStep
      <3>3. StepsFor(F(t)[pos[k][t][1]], "dedup") # {}
        BY <2>1, <3>1, Zenon DEF StepsFor
      <3>4. ~InGoroutine(P, F(t)[pos[k][t][1]])
        BY <3>1, <3>3, TablesOfP, Zenon DEF PanicsAreRecovered, F, Threads
      <3> QED
        BY <3>2, <3>4
    <2> QED
      BY <2>1, <2>2, <2>3 DEF HasPanicked, Cause
  <1>12. CASE MakeDescs(k, t)
    <2>1. /\ phase = "serve" /\ st[k] = "run" /\ ~Finished(k, t) /\ x.op = "make"
          /\ UNCHANGED collectFrame /\ made' = made \cup x.arg /\ rows' = rows
          /\ Continues(k, t)
      BY <1>12 DEF MakeDescs, At
    <2> QED
      BY <2>1, ContinuesIsWentOn, Zenon DEF GroupSteps
  <1> QED
    BY <1>1, <1>2, <1>3, <1>4, <1>5, <1>6, <1>7, <1>8, <1>9, <1>10, <1>11, <1>12, Zenon
       DEF CollectStep

-----------------------------------------------------------------------------
(* Collect keeps the invariant.                                            *)

\* After Build its part of the invariant stays true: nothing that a build
\* function makes last is made by Collect.
LEMMA BuiltStaysBuilt ==
  ASSUME IInv, phase = "serve", phase' \in {"serve", "crashed", "closed"},
         UNCHANGED <<coll, enabled, bpos, berrs>>, made \subseteq made',
         \A r \in made' \ made : \A g \in 1..Len(P.build) : ~MadeLast(P, g, r)
  PROVE  BuildInv'
  <1>1. /\ PosIn(enabled, P.build, bpos) /\ MadeIn(enabled, P, berrs, bpos, made)
        /\ ErrsIn(P, berrs, bpos) /\ LastIn(P, berrs, bpos, made)
        /\ bpos[1] = Len(P.build) + 1 /\ Tolerated
    BY Zenon DEF IInv, BuildInv
  <1>2. P' = P
    BY SameProgram
  <1>3. MadeIn(enabled, P, berrs, bpos, made')
    BY <1>1, Zenon DEF MadeIn
  <1>4. LastIn(P, berrs, bpos, made')
    BY <1>1, Zenon DEF LastIn
  <1>5. Tolerated'
    BY <1>1 DEF Tolerated
  <1> QED
    BY <1>1, <1>2, <1>3, <1>4, <1>5, Zenon DEF BuildInv

LEMMA SameCause ==
  ASSUME UNCHANGED <<coll, enabled, berrs, overlapped>>, NEW k
  PROVE  Cause(k)' <=> Cause(k)
  <1>1. P' = P /\ (HasStep("first")' <=> HasStep("first"))
        /\ (HasStep("dedup")' <=> HasStep("dedup"))
    BY SameProgram
  <1> QED
    BY <1>1 DEF Cause

\* What no step of Collect disturbs.
LEMMA CollectFrame ==
  ASSUME IInv, NEW k \in Scrapes, st[k] = "run", phase = "serve",
         phase' \in {"serve", "crashed"}, UNCHANGED collectFrame,
         pos' \in [Scrapes -> {<<>>} \cup [Threads -> Nat \X Nat]],
         DOMAIN errs' = Scrapes, DOMAIN sent' = Scrapes,
         \A j \in Scrapes : j # k => errs'[j] = errs[j], rows' \in [Queries -> BOOLEAN]
  PROVE  TypesInv' /\ QueryInv' /\ ResultInv' /\ OverlapInv'
  <1>1. UNCHANGED <<coll, enabled, query, bpos, berrs, st, result, overlapped>>
    BY DEF collectFrame
  <1>2. P' = P /\ Queries' = Queries /\ Threads' = Threads
    BY <1>1, SameProgram, Zenon
  <1>3. TypesInv'
    BY <1>1, <1>2, Zenon DEF IInv, TypesInv
  <1>4. QueryInv'
    BY <1>1, <1>2, Zenon DEF IInv, QueryInv, CloseReleases
  <1>5. ResultInv'
    <2> SUFFICES ASSUME NEW j \in Scrapes
                 PROVE  /\ st[j] \in {"idle", "wait", "run"} => result[j] \in {"none", "timeout"}
                        /\ st[j] = "done" /\ result[j] = "success" =>
                             Verdict(errs'[j]) = "success"
      BY <1>1, Zenon DEF ResultInv
    <2> QED
      BY Zenon DEF IInv, ResultInv
  <1>6. OverlapInv'
    BY <1>1, Zenon DEF IInv, OverlapInv
  <1> QED
    BY <1>3, <1>4, <1>5, <1>6, SMTT(30)

\* Goroutine t of scrape k goes to position r.
LEMMA Moved ==
  ASSUME IInv, NEW k \in Scrapes, NEW t \in Threads, st[k] = "run", NEW r \in Nat \X Nat,
         pos' = [pos EXCEPT ![k][t] = r]
  PROVE  /\ pos' \in [Scrapes -> {<<>>} \cup [Threads -> Nat \X Nat]]
         /\ pos'[k] \in [Threads -> Nat \X Nat] /\ pos'[k][t] = r
         /\ \A u \in Threads : u # t => pos'[k][u] = pos[k][u]
         /\ \A j \in Scrapes : j # k => pos'[j] = pos[j]
  <1>1. pos \in [Scrapes -> {<<>>} \cup [Threads -> Nat \X Nat]]
        /\ pos[k] \in [Threads -> Nat \X Nat]
    BY Zenon DEF IInv, TypesInv, ScrapeInv
  <1> QED
    BY <1>1, Zenon

\* The rows that change are those of the query that the step reads.
LEMMA OtherRowsAreKept ==
  ASSUME IInv, NEW z, NEW y, rows' \in [Queries -> BOOLEAN], z \in Filled, z # y,
         rows' = rows \/ \E r \in BOOLEAN : rows' = [rows EXCEPT ![y] = r]
  PROVE  z \in Filled'
  <1>1. rows \in [Queries -> BOOLEAN]
    BY Zenon DEF IInv, TypesInv
  <1>2. z \in Queries /\ rows[z]
    BY <1>1 DEF Filled
  <1>3. rows'[z]
    BY <1>1, <1>2
  <1> QED
    BY <1>2, <1>3 DEF Filled

\* A step of goroutine t changes the rows of a query only by reading it.
RowsOfRead(k, t) ==
  \/ rows' = rows
  \/ /\ Here(k, t).op = "read"
     /\ \E r \in BOOLEAN : rows' = [rows EXCEPT ![Here(k, t).of] = r]

\* What is said of the other goroutines of the scrape, and of those of others.
LEMMA OtherThreads ==
  ASSUME IInv, NEW k \in Scrapes, NEW t \in Threads, st[k] = "run", ~Finished(k, t),
         UNCHANGED <<coll, enabled, berrs, st, overlapped>>, made \subseteq made',
         rows' \in [Queries -> BOOLEAN], RowsOfRead(k, t),
         NEW j \in Scrapes, NEW u \in Threads, j # k \/ u # t, st[j] \in {"run", "done"},
         pos'[j][u] = pos[j][u], sent[j] \subseteq sent'[j],
         errs[j] \subseteq errs'[j] \/ \E e \in errs'[j] : e[3] = "panic"
  PROVE  ThreadInv(j, u)'
  <1> DEFINE f == F(u)
             q == pos[j][u]
  <1>1. P' = P /\ F(u)' = F(u) /\ coll \in DOMAIN Programs /\ IsFunction(f)
    BY SameProgram, FunctionsOfP, Zenon DEF IInv, TypesInv
  <1>2. /\ ThreadIn(enabled, P, berrs, f, q, made)
        /\ j \notin overlapped =>
             QuietIn(enabled, P, berrs, f, u, q, Filled, errs[j], sent[j])
        /\ st[j] = "done" => AtEnd(f, q)
    BY Zenon DEF IInv, ScrapeInv, ThreadInv, Finished
  <1>3. ThreadIn(enabled, P, berrs, f, q, made')
    BY <1>2, ThreadIsKept, Zenon
  <1>4. ASSUME j \notin overlapped
        PROVE  QuietIn(enabled, P, berrs, f, u, q, Filled', errs'[j], sent'[j])
    <2>1. ASSUME q[1] <= Len(f), NEW x \in StepsBefore(f[q[1]], q[2]), x.op = "read",
                 x.of \in Filled
          PROVE  x.of \in Filled'
      <3>1. /\ q[1] \in 1..Len(f) /\ q[2] \in 1..Len(f[q[1]].steps) /\ ~AtEnd(f, q)
            /\ Len(f[q[1]].steps) \in Nat
        BY <1>1, <1>2, <2>1, PosIsOfStep, Zenon DEF ThreadIn
      <3>2. st[j] = "run" /\ j = k /\ u # t
        BY <1>2, <1>4, <3>1, Zenon DEF IInv, OverlapInv
      <3>3. x \in StepsOf(f[q[1]])
        BY <2>1, <3>1, StepsBeforeAreSteps, Zenon
      <3>4. CASE rows' = rows
        BY <2>1, <3>4, Zenon DEF Filled
      <3>5. CASE Here(k, t).op = "read"
        <4>1. /\ Here(k, t) \in StepsFor(F(t)[pos[k][t][1]], "read")
              /\ pos[k][t][1] \in 1..Len(F(t))
          BY <3>5, ThreadAt, Zenon DEF StepsFor
        <4>2. OnlyReader(P, t, Here(k, t).of)
          BY <1>1, <4>1, ReadersOf, Zenon
        <4>3. x \in StepsFor(f[q[1]], "read")
          BY <2>1, <3>3, Zenon DEF StepsFor
        <4>4. x.of # Here(k, t).of
          BY <3>1, <3>2, <4>2, <4>3, Zenon DEF OnlyReader, F, Threads
        <4> QED
          BY <2>1, <4>4, OtherRowsAreKept, Zenon DEF RowsOfRead
      <3> QED
        BY <3>4, <3>5, Zenon DEF RowsOfRead
    <2>2. QuietIn(enabled, P, berrs, f, u, q, Filled, errs[j], sent[j])
      BY <1>2, <1>4, Zenon
    <2> HIDE DEF f, q
    <2>3. q[1] <= Len(f) => \A x \in StepsBefore(f[q[1]], q[2]) :
                              x.op = "read" /\ x.of \in Filled => x.of \in Filled'
      BY <2>1, Zenon
    <2> QED
      BY <2>2, <2>3, QuietIsKept, Zenon
  <1>5. Finished(j, u)' <=> AtEnd(f, q)
    BY <1>1, Zenon DEF Finished
  <1> QED
    BY <1>1, <1>2, <1>3, <1>4, <1>5, Zenon DEF ThreadInv

\* A step that goes on.
LEMMA GoingOnKeepsIInv ==
  ASSUME WellOrdered, IInv, NEW k \in Scrapes, NEW t \in Threads, phase = "serve", st[k] = "run",
         ~Finished(k, t), UNCHANGED collectFrame, WentOn(k, t)
  PROVE  IInv'
  <1> DEFINE f == F(t)
             q == pos[k][t]
             x == Here(k, t)
             r == Advance(f, q)
  <1>0. IsFunction(f) /\ PosIn(enabled, f, q) /\ ~AtEnd(f, q) /\ q[1] <= Len(f)
    BY ThreadAt, Zenon
  <1>1. /\ q[1] \in 1..Len(f) /\ x = f[q[1]].steps[q[2]] /\ x \in StepsOf(f[q[1]])
        /\ ThreadIn(enabled, P, berrs, f, q, made) /\ coll \in DOMAIN Programs
        /\ k \notin overlapped =>
             QuietIn(enabled, P, berrs, f, t, q, Filled, errs[k], sent[k])
    BY ThreadAt, Zenon
  <1>2. /\ pos' = [pos EXCEPT ![k][t] = r] /\ phase' = phase /\ errs' = errs
        /\ sent' = sent \/ sent' = [sent EXCEPT ![k] = @ \cup {x.of}]
        /\ IF x.op = "make" THEN made' = made \cup x.arg ELSE made' = made
        /\ IF x.op = "read" THEN rows' = [rows EXCEPT ![x.of] = TRUE] ELSE rows' = rows
        /\ x.op = "have" => x.of \in made
        /\ x.op \in GroupSteps /\ k \notin overlapped => x.of \in sent'[k]
    BY Zenon DEF WentOn
  <1>3. NextIn(enabled, P, berrs, f, q, r)
    BY <1>0, AdvanceCases, Zenon DEF NextIn
  <1>4. r \in Nat \X Nat
    BY <1>3, Zenon DEF NextIn, Leaves, PosIn
  <1> HIDE DEF r, x
  <1>5. /\ pos' \in [Scrapes -> {<<>>} \cup [Threads -> Nat \X Nat]]
        /\ pos'[k] \in [Threads -> Nat \X Nat] /\ pos'[k][t] = r
        /\ \A u \in Threads : u # t => pos'[k][u] = pos[k][u]
        /\ \A j \in Scrapes : j # k => pos'[j] = pos[j]
    BY <1>2, <1>4, Moved, Zenon
  <1>6. UNCHANGED <<coll, enabled, query, bpos, berrs, st, result, overlapped>>
    BY DEF collectFrame
  <1>7. DOMAIN errs = Scrapes /\ DOMAIN sent = Scrapes /\ rows \in [Queries -> BOOLEAN]
    BY Zenon DEF IInv, TypesInv
  <1>8. /\ DOMAIN sent' = Scrapes /\ rows' \in [Queries -> BOOLEAN] /\ made \subseteq made'
        /\ \A j \in Scrapes : sent[j] \subseteq sent'[j]
    BY <1>2, <1>7, Zenon
  <1>9. x.op = "read" => x.of \in Queries
    BY <1>1, ReadersOf, Zenon DEF StepsFor
  <1>10. Filled \subseteq Filled' /\ (x.op = "read" => x.of \in Filled')
    BY <1>2, <1>7, <1>9, Zenon DEF Filled
  <1>11. TypesInv' /\ QueryInv' /\ ResultInv' /\ OverlapInv'
    BY <1>2, <1>5, <1>7, <1>8, CollectFrame, Zenon
  <1>12. BuildInv'
    <2>1. ASSUME NEW z \in made' \ made, NEW g \in 1..Len(P.build), MadeLast(P, g, z)
          PROVE  FALSE
      <3>1. x.op = "make" /\ z \in x.arg
        BY <1>2, <2>1, Zenon
      <3>2. x \in StepsFor(f[q[1]], "make")
        BY <1>1, <3>1, Zenon DEF StepsFor
      <3> HIDE DEF q
      <3> QED
        BY <1>1, <2>1, <3>1, <3>2, Zenon DEF MadeLast, F, Threads
    <2> QED
      BY <1>2, <1>6, <1>8, <2>1, BuiltStaysBuilt, Zenon
  <1>13. ErrorsInv'
    <2>1. \A j : Cause(j)' <=> Cause(j)
      BY <1>6, SameCause
    <2>2. \A u : F(u)' = F(u)
      BY <1>6, SameProgram
    <2> QED
      BY <1>2, <2>1, <2>2, Zenon DEF IInv, ErrorsInv, Panicked
  <1>14. ThreadInv(k, t)'
    <2>1. P' = P /\ F(t)' = F(t)
      BY <1>6, SameProgram
    <2>2. ThreadIn(enabled, P, berrs, f, r, made')
      <3>1. LET y == f[q[1]].steps[q[2]]
            IN  (y.op = "have" => y.of \in made') /\ (y.op = "make" => y.arg \subseteq made')
        BY <1>1, <1>2, <1>8, Zenon
      <3>2. ThreadIn(enabled, P, berrs, f, q, made)
        BY <1>1, Zenon
      <3> HIDE DEF f, q
      <3> QED
        BY <1>0, <1>3, <1>8, <3>1, <3>2, ThreadGoesOn, Zenon
    <2>3. ASSUME k \notin overlapped
          PROVE  QuietIn(enabled, P, berrs, f, t, r, Filled', errs[k], sent'[k])
      <3>1. QuietIn(enabled, P, berrs, f, t, q, Filled, errs[k], sent[k])
        BY <1>1, <2>3, Zenon
      <3>2. /\ f[q[1]].steps[q[2]].op = "read" => f[q[1]].steps[q[2]].of \in Filled'
            /\ f[q[1]].steps[q[2]].op \in GroupSteps => f[q[1]].steps[q[2]].of \in sent'[k]
        BY <1>1, <1>2, <1>10, <2>3, Zenon
      <3>3. sent[k] \subseteq sent'[k] /\ Filled \subseteq Filled'
        BY <1>8, <1>10
      <3> HIDE DEF f, q
      <3> QED
        BY <1>0, <1>3, <3>1, <3>2, <3>3, QuietGoesOn, Zenon
    <2> QED
      BY <1>2, <1>5, <1>6, <2>1, <2>2, <2>3, Zenon DEF ThreadInv
  <1>15. ASSUME NEW j \in Scrapes, NEW u \in Threads, j # k \/ u # t, st[j] \in {"run", "done"}
         PROVE  ThreadInv(j, u)'
    <2>1. pos'[j][u] = pos[j][u]
      BY <1>5, <1>15, Zenon
    <2>2. RowsOfRead(k, t)
      BY <1>2, Zenon DEF x, RowsOfRead
    <2>3. /\ UNCHANGED <<coll, enabled, berrs, st, overlapped>> /\ made \subseteq made'
          /\ rows' \in [Queries -> BOOLEAN] /\ sent[j] \subseteq sent'[j]
          /\ errs[j] \subseteq errs'[j] \/ \E e \in errs'[j] : e[3] = "panic"
      BY <1>2, <1>6, <1>8, Zenon
    <2> QED
      BY <1>15, <2>1, <2>2, <2>3, OtherThreads, Zenon
  <1>16. ScrapeInv'
    <2>1. Threads' = Threads
      BY <1>6, SameProgram, SMTT(30)
    <2> QED
      BY <1>5, <1>6, <1>14, <1>15, <2>1, Zenon DEF IInv, ScrapeInv
  <1> QED
    BY <1>11, <1>12, <1>13, <1>16 DEF IInv

\* A step that fails.
LEMMA FailureKeepsIInv ==
  ASSUME WellOrdered, IInv, NEW k \in Scrapes, NEW t \in Threads, phase = "serve", st[k] = "run",
         ~Finished(k, t), UNCHANGED collectFrame, Failed(k, t)
  PROVE  IInv'
  <1> DEFINE f == F(t)
             q == pos[k][t]
             x == Here(k, t)
             r == Abort(f, q)
  <1>1. /\ IsFunction(f) /\ PosIn(enabled, f, q) /\ ~AtEnd(f, q) /\ q[1] <= Len(f)
        /\ ThreadIn(enabled, P, berrs, f, q, made) /\ coll \in DOMAIN Programs
        /\ k \notin overlapped =>
             QuietIn(enabled, P, berrs, f, t, q, Filled, errs[k], sent[k])
    BY ThreadAt, Zenon
  <1>2. /\ pos' = [pos EXCEPT ![k][t] = r] /\ phase' = phase /\ sent' = sent /\ made' = made
        /\ rows' = rows \/ (x.op = "read" /\ \E b \in BOOLEAN : rows' = [rows EXCEPT ![x.of] = b])
    BY Zenon DEF Failed
  <1>3. PICK c : /\ c # "panic" /\ (c = "logged" => f[q[1]].onErr # "return")
                 /\ errs' = [errs EXCEPT ![k] = @ \cup {<<t, q[1], c>>}]
    BY Zenon DEF Failed
  <1>4. AfterError(enabled, P, berrs, f, q, r)
    BY <1>1, AbortCases, Zenon DEF AfterError
  <1>5. r \in Nat \X Nat
    BY <1>4, Zenon DEF AfterError, Leaves, PosIn
  <1> HIDE DEF r
  <1>6. /\ pos' \in [Scrapes -> {<<>>} \cup [Threads -> Nat \X Nat]]
        /\ pos'[k] \in [Threads -> Nat \X Nat] /\ pos'[k][t] = r
        /\ \A u \in Threads : u # t => pos'[k][u] = pos[k][u]
        /\ \A j \in Scrapes : j # k => pos'[j] = pos[j]
    BY <1>2, <1>5, Moved, Zenon
  <1>7. UNCHANGED <<coll, enabled, query, bpos, berrs, st, result, overlapped>>
    BY DEF collectFrame
  <1>8. DOMAIN errs = Scrapes /\ DOMAIN sent = Scrapes /\ rows \in [Queries -> BOOLEAN]
    BY Zenon DEF IInv, TypesInv
  <1>9. /\ DOMAIN errs' = Scrapes /\ rows' \in [Queries -> BOOLEAN]
        /\ errs'[k] = errs[k] \cup {<<t, q[1], c>>}
        /\ \A j \in Scrapes : j # k => errs'[j] = errs[j]
    BY <1>2, <1>3, <1>8, Zenon
  <1>10. TypesInv' /\ QueryInv' /\ ResultInv' /\ OverlapInv'
    BY <1>2, <1>6, <1>8, <1>9, CollectFrame, Zenon
  <1>11. BuildInv'
    BY <1>2, <1>7, BuiltStaysBuilt, Zenon
  <1>12. ErrorsInv'
    <2>1. \A j : Cause(j)' <=> Cause(j)
      BY <1>7, SameCause
    <2>2. \A u : F(u)' = F(u)
      BY <1>7, SameProgram
    <2> SUFFICES ASSUME NEW j \in Scrapes
                 PROVE  /\ \A e \in errs'[j] : e[3] = "logged" => F(e[1])[e[2]].onErr # "return"
                        /\ (\E e \in errs'[j] : e[3] = "panic") => Cause(j)
      BY <2>1, <2>2, Zenon DEF ErrorsInv, Panicked
    <2>3. /\ \A e \in errs[j] : e[3] = "logged" => F(e[1])[e[2]].onErr # "return"
          /\ (\E e \in errs[j] : e[3] = "panic") => Cause(j)
      BY Zenon DEF IInv, ErrorsInv, Panicked
    <2>4. CASE j # k
      BY <1>9, <2>3, <2>4, Zenon
    <2>5. CASE j = k
      <3>1. ASSUME NEW e \in errs'[k]
            PROVE  e \in errs[k] \/ (e[1] = t /\ e[2] = q[1] /\ e[3] = c)
        BY <1>9
      <3> HIDE DEF q, f
      <3> QED
        BY <1>3, <2>3, <2>5, <3>1, Zenon DEF f
    <2> QED
      BY <2>4, <2>5, Zenon
  <1>13. ThreadInv(k, t)'
    <2>1. P' = P /\ F(t)' = F(t)
      BY <1>7, SameProgram
    <2>2. ThreadIn(enabled, P, berrs, f, r, made)
      BY <1>1, <1>4, ThreadFails, Zenon
    <2>3. k \notin overlapped => QuietIn(enabled, P, berrs, f, t, r, Filled', errs'[k], sent[k])
      <3> DEFINE new == <<t, q[1], c>>
      <3>1. errs[k] \subseteq errs'[k] /\ new \in errs'[k] /\ new[1] = t /\ new[2] = q[1]
        BY <1>9, Zenon
      <3> HIDE DEF new
      <3> QED
        BY <1>1, <1>4, <3>1, QuietFails, Zenon
    <2> QED
      BY <1>2, <1>6, <1>7, <2>1, <2>2, <2>3, Zenon DEF ThreadInv
  <1>14. ASSUME NEW j \in Scrapes, NEW u \in Threads, j # k \/ u # t, st[j] \in {"run", "done"}
         PROVE  ThreadInv(j, u)'
    <2>1. pos'[j][u] = pos[j][u]
      BY <1>6, <1>14, Zenon
    <2>2. errs[j] \subseteq errs'[j] \/ \E e \in errs'[j] : e[3] = "panic"
      BY <1>9, Zenon
    <2>3. /\ UNCHANGED <<coll, enabled, berrs, st, overlapped>> /\ made \subseteq made'
          /\ rows' \in [Queries -> BOOLEAN] /\ sent[j] \subseteq sent'[j]
      BY <1>2, <1>7, <1>9, Zenon
    <2>4. RowsOfRead(k, t)
      BY <1>2, Zenon DEF RowsOfRead
    <2> QED
      BY <1>14, <2>1, <2>2, <2>3, <2>4, OtherThreads, Zenon
  <1>15. ScrapeInv'
    <2>1. Threads' = Threads
      BY <1>7, SameProgram
    <2> QED
      BY <1>6, <1>7, <1>13, <1>14, <2>1, Zenon DEF IInv, ScrapeInv
  <1> QED
    BY <1>10, <1>11, <1>12, <1>15 DEF IInv

\* A step that panics.
LEMMA PanicKeepsIInv ==
  ASSUME IInv, NEW k \in Scrapes, NEW t \in Threads, phase = "serve", st[k] = "run",
         ~Finished(k, t), UNCHANGED collectFrame, HasPanicked(k, t)
  PROVE  IInv'
  <1> DEFINE f == F(t)
             r == End(t)
             new == <<t, pos[k][t][1], "panic">>
  <1>1. IsFunction(f) /\ coll \in DOMAIN Programs
    BY ThreadAt, Zenon
  <1>2. /\ pos' = [pos EXCEPT ![k][t] = r] /\ errs' = [errs EXCEPT ![k] = {new}]
        /\ phase' \in {"serve", "crashed"} /\ UNCHANGED <<sent, made, rows>> /\ Cause(k)
    BY Zenon DEF HasPanicked, Panics
  <1>3. r \in Nat \X Nat /\ PosIn(enabled, f, r) /\ r[1] > Len(f) /\ ~(r[1] <= Len(f))
    BY <1>1 DEF End, PosIn, IsFunction
  <1>4. new[3] = "panic"
    OBVIOUS
  <1> HIDE DEF r, new
  <1>5. /\ pos' \in [Scrapes -> {<<>>} \cup [Threads -> Nat \X Nat]]
        /\ pos'[k] \in [Threads -> Nat \X Nat] /\ pos'[k][t] = r
        /\ \A u \in Threads : u # t => pos'[k][u] = pos[k][u]
        /\ \A j \in Scrapes : j # k => pos'[j] = pos[j]
    BY <1>2, <1>3, Moved, Zenon
  <1>6. UNCHANGED <<coll, enabled, query, bpos, berrs, st, result, overlapped>>
    BY DEF collectFrame
  <1>7. DOMAIN errs = Scrapes /\ DOMAIN sent = Scrapes /\ rows \in [Queries -> BOOLEAN]
    BY Zenon DEF IInv, TypesInv
  <1>8. DOMAIN errs' = Scrapes /\ errs'[k] = {new} /\ \A j \in Scrapes : j # k => errs'[j] = errs[j]
    BY <1>2, <1>7, Zenon
  <1>9. TypesInv' /\ QueryInv' /\ ResultInv' /\ OverlapInv'
    BY <1>2, <1>5, <1>7, <1>8, CollectFrame, Zenon
  <1>10. BuildInv'
    BY <1>2, <1>6, BuiltStaysBuilt, Zenon
  <1>11. ErrorsInv'
    <2>1. \A j : Cause(j)' <=> Cause(j)
      BY <1>6, SameCause
    <2>2. \A u : F(u)' = F(u)
      BY <1>6, SameProgram
    <2> QED
      BY <1>2, <1>4, <1>8, <2>1, <2>2, ZenonT(30) DEF IInv, ErrorsInv, Panicked
  <1>12. ThreadInv(k, t)'
    <2>1. P' = P /\ F(t)' = F(t)
      BY <1>6, SameProgram
    <2>2. ThreadIn(enabled, P, berrs, f, r, made)
      BY <1>3 DEF ThreadIn
    <2>3. QuietIn(enabled, P, berrs, f, t, r, Filled', errs'[k], sent[k])
      BY <1>3, <1>4, <1>8, Zenon DEF QuietIn
    <2> QED
      BY <1>2, <1>5, <1>6, <2>1, <2>2, <2>3, Zenon DEF ThreadInv
  <1>13. ASSUME NEW j \in Scrapes, NEW u \in Threads, j # k \/ u # t, st[j] \in {"run", "done"}
         PROVE  ThreadInv(j, u)'
    <2>1. pos'[j][u] = pos[j][u]
      BY <1>5, <1>13, Zenon
    <2>2. errs[j] \subseteq errs'[j] \/ \E e \in errs'[j] : e[3] = "panic"
      BY <1>4, <1>8
    <2> QED
      BY <1>2, <1>6, <1>7, <1>13, <2>1, <2>2, OtherThreads, Zenon DEF RowsOfRead
  <1>14. ScrapeInv'
    <2>1. Threads' = Threads
      BY <1>6, SameProgram
    <2> QED
      BY <1>5, <1>6, <1>12, <1>13, <2>1, Zenon DEF IInv, ScrapeInv
  <1> QED
    BY <1>9, <1>10, <1>11, <1>14, SMTT(30) DEF IInv

-----------------------------------------------------------------------------
(* Scrapes begin, time out and return; Close.                              *)

LEMMA ThreadFrame ==
  ASSUME NEW j, NEW u, ThreadInv(j, u), UNCHANGED <<coll, enabled, berrs, made, rows>>,
         pos'[j][u] = pos[j][u], errs'[j] = errs[j], sent'[j] = sent[j],
         j \in overlapped => j \in overlapped',
         st'[j] = "done" => st[j] = "done" \/ Finished(j, u)
  PROVE  ThreadInv(j, u)'
  <1>1. P' = P /\ F(u)' = F(u) /\ Filled' = Filled
    BY SameProgram, Zenon DEF Filled
  <1>2. Finished(j, u)' <=> Finished(j, u)
    BY <1>1, Zenon DEF Finished
  <1> QED
    BY <1>1, <1>2, Zenon DEF ThreadInv

LEMMA ServeFrame ==
  ASSUME IInv, phase = "serve", UNCHANGED <<coll, enabled, phase, made, query, bpos, berrs>>
  PROVE  BuildInv' /\ QueryInv'
  <1>1. BuildInv'
    BY BuiltStaysBuilt
  <1>2. P' = P
    BY SameProgram
  <1>3. QueryInv'
    BY <1>2 DEF IInv, QueryInv, CloseReleases
  <1> QED
    BY <1>1, <1>3

LEMMA BeginKeepsIInv ==
  ASSUME IInv, NEW k \in Scrapes, BeginScrape(k)
  PROVE  IInv'
  <1>1. /\ phase = "serve" /\ st[k] = "idle"
        /\ st' = [j \in Scrapes |-> IF j = k THEN "wait"
                                    ELSE IF st[j] = "done" THEN "over" ELSE st[j]]
        /\ errs' = [j \in Scrapes |-> IF st[j] = "done" THEN {} ELSE errs[j]]
        /\ sent' = [j \in Scrapes |-> IF st[j] = "done" THEN {} ELSE sent[j]]
        /\ overlapped' = {j \in overlapped : st[j] # "done"}
        /\ UNCHANGED <<coll, enabled, phase, made, query, bpos, berrs, rows, result, pos>>
    BY Zenon DEF BeginScrape, buildVars
  <1>2. P' = P /\ Queries' = Queries /\ Threads' = Threads /\ \A u : F(u)' = F(u)
    BY <1>1, SameProgram, Zenon
  <1>3. TypesInv
    BY DEF IInv
  <1>4. TypesInv'
    BY <1>1, <1>2, <1>3, Zenon DEF TypesInv
  <1>5. BuildInv' /\ QueryInv'
    BY <1>1, ServeFrame, Zenon
  <1>6. ErrorsInv'
    <2> SUFFICES ASSUME NEW j \in Scrapes, st[j] # "done"
                 PROVE  /\ \A e \in errs[j] : e[3] = "logged" => F(e[1])[e[2]].onErr # "return"
                        /\ Panicked(j) => Cause(j)'
      BY <1>1, <1>2, Zenon DEF ErrorsInv, Panicked
    <2>1. (HasStep("first")' <=> HasStep("first")) /\ (HasStep("dedup")' <=> HasStep("dedup"))
      BY <1>1, SameProgram, Zenon
    <2>2. Cause(j) => Cause(j)'
      BY <1>1, <1>2, <2>1, Zenon DEF Cause
    <2> QED
      BY <2>2, Zenon DEF IInv, ErrorsInv
  <1>7. ResultInv'
    BY <1>1, Zenon DEF IInv, ResultInv
  <1>8. OverlapInv'
    BY <1>1, Zenon DEF IInv, OverlapInv
  <1>9. ScrapeInv'
    <2>1. ASSUME NEW j \in Scrapes, st'[j] \in {"run", "done"}
          PROVE  /\ st[j] = "run" /\ errs'[j] = errs[j] /\ sent'[j] = sent[j] /\ st'[j] = "run"
                 /\ (j \in overlapped => j \in overlapped') /\ pos'[j] = pos[j]
      BY <1>1, <1>3, <2>1, Zenon DEF TypesInv
    <2>2. ASSUME NEW j \in Scrapes, st'[j] \in {"run", "done"}, NEW u \in Threads
          PROVE  ThreadInv(j, u)'
      <3>1. /\ st[j] = "run" /\ errs'[j] = errs[j] /\ sent'[j] = sent[j] /\ st'[j] = "run"
            /\ (j \in overlapped => j \in overlapped') /\ pos'[j] = pos[j]
        BY <2>1, <2>2, SMTT(30)
      <3>2. ThreadInv(j, u)
        BY <3>1 DEF IInv, ScrapeInv
      <3> QED
        BY <1>1, <3>1, <3>2, ThreadFrame, Zenon
    <2> QED
      BY <1>2, <2>1, <2>2, Zenon DEF IInv, ScrapeInv
  <1> QED
    BY <1>4, <1>5, <1>6, <1>7, <1>8, <1>9, SMTT(30) DEF IInv

\* The first positions of the goroutines.
LEMMA StartPositions ==
  ASSUME WellOrdered, coll \in DOMAIN Programs, NEW t \in Threads, NEW md, NEW rd, NEW es, NEW sn
  PROVE  LET r == FromBlock(F(t), 1)
         IN  /\ r \in Nat \X Nat /\ ThreadIn(enabled, P, berrs, F(t), r, md)
             /\ QuietIn(enabled, P, berrs, F(t), t, r, rd, es, sn)
  <1> DEFINE f == F(t)
             r == FromBlock(f, 1)
  <1>1. IsFunction(f) /\ Len(f) \in Nat
    BY FunctionsOfP, Zenon DEF IsFunction
  <1>2. /\ PosIn(enabled, f, r) /\ r[2] = 1
        /\ r[1] <= Len(f) => RunsIn(enabled, P, berrs, f[r[1]])
        /\ \A i \in 1..Len(f) : i < r[1] => ~RunsIn(enabled, P, berrs, f[i])
    <2>1. 1 \in 1..(Len(f) + 1)
      BY <1>1
    <2> QED
      BY <1>1, <2>1, FromBlockSkips, Zenon
  <1> HIDE DEF f, r
  <1>3. r \in Nat \X Nat /\ StepsBefore(f[r[1]], r[2]) = {}
    BY <1>2, NoStepsBefore, Zenon DEF PosIn
  <1>4. ThreadIn(enabled, P, berrs, f, r, md)
    BY <1>2, <1>3, Zenon DEF ThreadIn, HeldIn, GuardIn
  <1>5. QuietIn(enabled, P, berrs, f, t, r, rd, es, sn)
    BY <1>2, <1>3, Zenon DEF QuietIn
  <1> QED
    BY <1>3, <1>4, <1>5, Zenon DEF f, r

LEMMA EnterKeepsIInv ==
  ASSUME WellOrdered, IInv, NEW k \in Scrapes, EnterCollect(k)
  PROVE  IInv'
  <1> DEFINE start == [t \in Threads |-> FromBlock(F(t), 1)]
  <1>1. /\ phase = "serve" /\ st[k] = "wait" /\ st' = [st EXCEPT ![k] = "run"]
        /\ pos' = [pos EXCEPT ![k] = start]
        /\ overlapped' = IF Running = {} THEN overlapped
                                         ELSE overlapped \cup Running \cup {k}
        /\ UNCHANGED <<coll, enabled, phase, made, query, bpos, berrs, rows, result, errs, sent>>
    BY Zenon DEF EnterCollect, buildVars
  <1>2. P' = P /\ Queries' = Queries /\ Threads' = Threads /\ \A u : F(u)' = F(u)
    BY <1>1, SameProgram, Zenon
  <1>3. TypesInv
    BY DEF IInv
  <1>4. start \in [Threads -> Nat \X Nat]
    BY <1>3, StartPositions, Zenon DEF TypesInv
  <1>5. \A t \in Threads : start[t] = FromBlock(F(t), 1)
    OBVIOUS
  <1> HIDE DEF start
  <1>6. overlapped \subseteq overlapped' /\ overlapped' \subseteq Scrapes
    BY <1>1, <1>3, Zenon DEF Running, TypesInv
  <1>7. TypesInv'
    BY <1>1, <1>2, <1>3, <1>4, <1>6, Zenon DEF TypesInv
  <1>8. BuildInv' /\ QueryInv'
    BY <1>1, ServeFrame
  <1>9. ErrorsInv'
    <2> SUFFICES ASSUME NEW j \in Scrapes
                 PROVE  /\ \A e \in errs[j] : e[3] = "logged" => F(e[1])[e[2]].onErr # "return"
                        /\ Panicked(j) => Cause(j)'
      BY <1>1, <1>2, Zenon DEF ErrorsInv, Panicked
    <2>1. (HasStep("first")' <=> HasStep("first")) /\ (HasStep("dedup")' <=> HasStep("dedup"))
      BY <1>1, SameProgram, Zenon
    <2>2. Cause(j) => Cause(j)'
      BY <1>1, <1>2, <1>6, <2>1, Zenon DEF Cause
    <2> QED
      BY <2>2, Zenon DEF IInv, ErrorsInv
  <1>10. ResultInv'
    BY <1>1, <1>3, Zenon DEF IInv, ResultInv, TypesInv
  <1>11. OverlapInv'
    <2> SUFFICES ASSUME NEW i \in Scrapes, NEW j \in Scrapes, st'[i] = "run",
                        st'[j] = "run", i # j
                 PROVE  i \in overlapped'
      BY DEF OverlapInv
    <2>1. CASE i # k /\ j # k
      BY <1>1, <1>3, <1>6, <2>1, Zenon DEF IInv, OverlapInv, TypesInv
    <2>2. CASE i = k \/ j = k
      <3>1. (i = k /\ j \in Running) \/ (j = k /\ i \in Running)
        BY <1>1, <1>3, <2>2, Zenon DEF Running, TypesInv
      <3> QED
        BY <1>1, <3>1
    <2> QED
      BY <2>1, <2>2, SMTT(30)
  <1>12. ScrapeInv'
    <2>1. ASSUME NEW t \in Threads
          PROVE  ThreadInv(k, t)'
      <3>1. pos'[k][t] = FromBlock(F(t), 1) /\ st'[k] # "done"
        BY <1>1, <1>3, <1>5, Zenon DEF TypesInv
      <3>2. /\ ThreadIn(enabled, P, berrs, F(t), pos'[k][t], made)
            /\ QuietIn(enabled, P, berrs, F(t), t, pos'[k][t], Filled', errs[k], sent[k])
        BY <1>3, <3>1, StartPositions, Zenon DEF TypesInv
      <3> QED
        BY <1>1, <1>2, <3>1, <3>2, Zenon DEF ThreadInv
    <2>2. pos'[k] \in [Threads -> Nat \X Nat]
      BY <1>1, <1>3, <1>4, Zenon DEF TypesInv
    <2>3. ASSUME NEW j \in Scrapes, j # k, st'[j] \in {"run", "done"}
          PROVE  pos'[j] \in [Threads -> Nat \X Nat] /\ \A u \in Threads : ThreadInv(j, u)'
      <3>1. st'[j] = st[j] /\ pos'[j] = pos[j]
        BY <1>1, <1>3, <2>3, Zenon DEF TypesInv
      <3>2. pos[j] \in [Threads -> Nat \X Nat] /\ \A u \in Threads : ThreadInv(j, u)
        BY <2>3, <3>1 DEF IInv, ScrapeInv
      <3>3. ASSUME NEW u \in Threads
            PROVE  ThreadInv(j, u)'
        BY <1>1, <1>6, <3>1, <3>2, ThreadFrame, Zenon
      <3> QED
        BY <3>1, <3>2, <3>3, SMTT(30)
    <2> QED
      BY <1>2, <2>1, <2>2, <2>3, SMTT(30) DEF ScrapeInv
  <1> QED
    BY <1>7, <1>8, <1>9, <1>10, <1>11, <1>12, SMTT(30) DEF IInv

LEMMA TimeoutKeepsIInv ==
  ASSUME IInv, NEW k \in Scrapes, Timeout(k)
  PROVE  IInv'
  <1>1. /\ phase = "serve" /\ st[k] \in {"wait", "run"}
        /\ result' = [result EXCEPT ![k] = "timeout"]
        /\ UNCHANGED <<coll, enabled, phase, made, query, bpos, berrs, rows, st, pos, errs,
                       sent, overlapped>>
    BY DEF Timeout, buildVars
  <1>2. P' = P /\ Queries' = Queries /\ Threads' = Threads /\ \A u : F(u)' = F(u)
    BY <1>1, SameProgram
  <1>3. TypesInv'
    BY <1>1, <1>2, Zenon DEF IInv, TypesInv
  <1>4. BuildInv' /\ QueryInv'
    BY <1>1, ServeFrame
  <1>5. ErrorsInv'
    <2>1. \A j : Cause(j)' <=> Cause(j)
      BY <1>1, SameCause
    <2> QED
      BY <1>1, <1>2, <2>1, Zenon DEF IInv, ErrorsInv, Panicked
  <1>6. ResultInv' /\ OverlapInv'
    BY <1>1, Zenon DEF IInv, TypesInv, ResultInv, OverlapInv
  <1>7. ScrapeInv'
    <2>1. ASSUME NEW j \in Scrapes, st[j] \in {"run", "done"}, NEW u \in Threads
          PROVE  ThreadInv(j, u)'
      <3>1. ThreadInv(j, u)
        BY <2>1, SMTT(30) DEF IInv, ScrapeInv
      <3> QED
        BY <1>1, <3>1, ThreadFrame, Zenon
    <2> QED
      BY <1>1, <1>2, <2>1, Zenon DEF IInv, ScrapeInv
  <1> QED
    BY <1>3, <1>4, <1>5, <1>6, <1>7, SMTT(30) DEF IInv

LEMMA ReturnKeepsIInv ==
  ASSUME IInv, NEW k \in Scrapes, CollectReturns(k)
  PROVE  IInv'
  <1>1. /\ phase = "serve" /\ st[k] = "run" /\ \A t \in Threads : Finished(k, t)
        /\ st' = [st EXCEPT ![k] = "done"]
        /\ result' = [result EXCEPT ![k] = IF @ = "timeout" THEN @ ELSE Verdict(errs[k])]
        /\ UNCHANGED <<coll, enabled, phase, made, query, bpos, berrs, rows, pos, errs, sent,
                       overlapped>>
    BY Zenon DEF CollectReturns, buildVars
  <1>2. P' = P /\ Queries' = Queries /\ Threads' = Threads /\ \A u : F(u)' = F(u)
    BY <1>1, SameProgram, Zenon
  <1>3. TypesInv /\ Verdict(errs[k]) \in {"success", "failed"}
    BY DEF IInv, Verdict
  <1>4. TypesInv'
    BY <1>1, <1>2, <1>3, Zenon DEF TypesInv
  <1>5. BuildInv' /\ QueryInv'
    BY <1>1, ServeFrame
  <1>6. ErrorsInv'
    <2>1. \A j : Cause(j)' <=> Cause(j)
      BY <1>1, SameCause
    <2> QED
      BY <1>1, <1>2, <2>1, Zenon DEF IInv, ErrorsInv, Panicked
  <1>7. ResultInv'
    BY <1>1, <1>3, Zenon DEF IInv, TypesInv, ResultInv
  <1>8. OverlapInv'
    BY <1>1, <1>3, Zenon DEF IInv, TypesInv, OverlapInv
  <1>9. ScrapeInv'
    <2>1. ASSUME NEW j \in Scrapes, st'[j] \in {"run", "done"}
          PROVE  /\ st[j] \in {"run", "done"}
                 /\ st'[j] = "done" => st[j] = "done" \/ \A u \in Threads : Finished(j, u)
      BY <1>1, <1>3, <2>1, Zenon DEF TypesInv
    <2>2. ASSUME NEW j \in Scrapes, st'[j] \in {"run", "done"}, NEW u \in Threads
          PROVE  ThreadInv(j, u)'
      <3>1. ThreadInv(j, u)
        BY <2>1, <2>2, SMTT(30) DEF IInv, ScrapeInv
      <3> QED
        BY <1>1, <2>1, <2>2, <3>1, ThreadFrame, ZenonT(30)
    <2> QED
      BY <1>1, <1>2, <2>1, <2>2, Zenon DEF IInv, ScrapeInv
  <1> QED
    BY <1>4, <1>5, <1>6, <1>7, <1>8, <1>9 DEF IInv

LEMMA CloseKeepsIInv ==
  ASSUME IInv, Close
  PROVE  IInv'
  <1>1. /\ phase = "serve" /\ phase' \in {"closed", "crashed"}
        /\ UNCHANGED <<coll, enabled, made, bpos, berrs, rows, st, result, pos, errs, sent,
                       overlapped>>
    BY Zenon DEF Close, scrapeVars
  <1>2. P' = P /\ Queries' = Queries /\ Threads' = Threads /\ \A u : F(u)' = F(u)
    BY <1>1, SameProgram
  <1>3. PICK n \in 0..Len(P.close) :
          /\ phase' = "closed" /\ n < Len(P.close) => P.close[n + 1].op = "fail"
          /\ LET closed == {P.close[i].of : i \in {j \in 1..n :
                              /\ P.close[j].op = "close"
                              /\ P.close[j].arg \subseteq enabled}}
             IN  query' = [q \in DOMAIN query |->
                    IF q \in closed /\ query[q] # "nil" THEN "closed" ELSE query[q]]
    BY Zenon DEF Close
  <1> DEFINE closed == {P.close[i].of : i \in {j \in 1..n :
                          /\ P.close[j].op = "close"
                          /\ P.close[j].arg \subseteq enabled}}
  <1>4. query' = [q \in DOMAIN query |->
                    IF q \in closed /\ query[q] # "nil" THEN "closed" ELSE query[q]]
    BY <1>3, Zenon
  <1>5. ASSUME NEW j \in 1..Len(P.build), OnIn(enabled, P.build[j]),
               NEW x \in StepsFor(P.build[j], "open"), <<coll, x.of>> \notin KeptOpen,
               phase' = "closed"
        PROVE  x.of \in closed
    <2>1. ClosesItsQueries(coll, P)
      BY TablesOfP, Zenon DEF IInv, TypesInv
    <2>2. n < Len(P.close) => P.close[n + 1].op = "fail"
      BY <1>3, <1>5
    <2>3. PICK i \in 1..n : /\ P.close[i].op = "close" /\ P.close[i].of = x.of
                            /\ P.close[i].arg \subseteq {P.build[j].part} \ {""}
      BY <1>5, <2>1, <2>2, Zenon DEF ClosesItsQueries
    <2>4. P.close[i].arg \subseteq enabled
      BY <1>5, <2>3, Zenon DEF OnIn
    <2> QED
      BY <2>3, <2>4, Zenon
  <1> HIDE DEF closed
  <1>6. query \in [Queries -> {"nil", "dead", "live", "closed"}] /\ DOMAIN query' = DOMAIN query
    BY <1>4 DEF IInv, TypesInv
  <1>7. \A q \in DOMAIN query : query'[q] \in {"dead", "live"} =>
          query[q] \in {"dead", "live"} /\ q \notin closed
    BY <1>4
  <1>8. query' \in [Queries -> {"nil", "dead", "live", "closed"}]
    BY <1>4, <1>6
  <1>9. TypesInv'
    BY <1>1, <1>2, <1>8, Zenon DEF IInv, TypesInv
  <1>10. BuildInv'
    BY <1>1, BuiltStaysBuilt
  <1>11. QueryInv'
    <2>1. \A q \in DOMAIN query : query[q] \in {"dead", "live"} => OpenedIn(enabled, P, q)
      BY DEF IInv, QueryInv
    <2>2. ASSUME NEW q \in DOMAIN query', query'[q] \in {"dead", "live"}
          PROVE  OpenedIn(enabled, P, q) /\ (phase' = "closed" => <<coll, q>> \in KeptOpen)
      <3>1. OpenedIn(enabled, P, q) /\ q \notin closed
        BY <1>6, <1>7, <2>1, <2>2, SMTT(30)
      <3> QED
        BY <1>5, <3>1, Zenon DEF OpenedIn
    <2> QED
      BY <1>1, <1>2, <2>2, Zenon DEF QueryInv, CloseReleases
  <1>12. ErrorsInv'
    <2>1. \A j : Cause(j)' <=> Cause(j)
      BY <1>1, SameCause
    <2> QED
      BY <1>1, <1>2, <2>1, Zenon DEF IInv, ErrorsInv, Panicked
  <1>13. ResultInv' /\ OverlapInv'
    BY <1>1, Zenon DEF IInv, ResultInv, OverlapInv
  <1>14. ScrapeInv'
    <2>1. ASSUME NEW j \in Scrapes, st[j] \in {"run", "done"}, NEW u \in Threads
          PROVE  ThreadInv(j, u)'
      <3>1. ThreadInv(j, u)
        BY <2>1 DEF IInv, ScrapeInv
      <3> QED
        BY <1>1, <3>1, ThreadFrame, SMTT(30)
    <2> QED
      BY <1>1, <1>2, <2>1, Zenon DEF IInv, ScrapeInv
  <1> QED
    BY <1>9, <1>10, <1>11, <1>12, <1>13, <1>14, SMTT(30) DEF IInv

LEMMA StutterKeepsIInv ==
  ASSUME IInv, UNCHANGED vars
  PROVE  IInv'
  <1>1. UNCHANGED <<coll, enabled, phase, made, query, bpos, berrs, rows, st, result, pos, errs,
                    sent, overlapped>>
    BY SMTT(30) DEF vars, buildVars, scrapeVars
  <1>2. P' = P /\ Queries' = Queries /\ Threads' = Threads /\ \A u : F(u)' = F(u)
    BY <1>1, SameProgram
  <1>3. TypesInv'
    BY <1>1, <1>2, Zenon DEF IInv, TypesInv
  <1>4. BuildInv'
    <2>1. Tolerated' <=> Tolerated
      BY <1>1 DEF Tolerated
    <2> QED
      BY <1>1, <1>2, <2>1, Zenon DEF IInv, BuildInv
  <1>5. QueryInv'
    BY <1>1, <1>2, Zenon DEF IInv, QueryInv, CloseReleases
  <1>6. ErrorsInv'
    <2>1. \A j : Cause(j)' <=> Cause(j)
      BY <1>1, SameCause
    <2> QED
      BY <1>1, <1>2, <2>1, Zenon DEF IInv, ErrorsInv, Panicked
  <1>7. ResultInv' /\ OverlapInv'
    BY <1>1, Zenon DEF IInv, ResultInv, OverlapInv
  <1>8. ScrapeInv'
    <2>1. ASSUME NEW j \in Scrapes, st[j] \in {"run", "done"}, NEW u \in Threads
          PROVE  ThreadInv(j, u)'
      <3>1. ThreadInv(j, u)
        BY <2>1 DEF IInv, ScrapeInv
      <3> QED
        BY <1>1, <3>1, ThreadFrame, SMTT(30)
    <2> QED
      BY <1>1, <1>2, <2>1, ZenonT(30) DEF IInv, ScrapeInv
  <1> QED
    BY <1>3, <1>4, <1>5, <1>6, <1>7, <1>8, SMTT(30) DEF IInv

\* Every step keeps the invariant.
LEMMA IInvInductive == WellOrdered /\ IInv /\ [Next]_vars => IInv'
  <1> SUFFICES ASSUME WellOrdered, IInv, [Next]_vars
               PROVE  IInv'
    OBVIOUS
  <1>1. ASSUME NEW k \in Scrapes, NEW t \in Threads, CollectStep(k, t)
        PROVE  IInv'
    BY <1>1, CollectStepCases, GoingOnKeepsIInv, FailureKeepsIInv, PanicKeepsIInv, Zenon
  <1>2. ASSUME Next
        PROVE  IInv'
    BY <1>1, <1>2, BuildKeepsIInv, CloseKeepsIInv, BeginKeepsIInv, EnterKeepsIInv,
       TimeoutKeepsIInv, ReturnKeepsIInv, Zenon DEF Next
  <1> QED
    BY <1>2, StutterKeepsIInv, SMTT(30)

-----------------------------------------------------------------------------
INSTANCE WellFoundedInduction

\* The library's fact on well-founded relations, for the order of the naturals.
LEMMA LeastNatural == WellOrdered
  <1> SUFFICES ASSUME NEW T \in SUBSET Nat, T # {}
               PROVE  \E x \in T : \A y \in T : x <= y
    BY DEF WellOrdered
  <1> DEFINE R == {ss \in Nat \X Nat : ss[1] < ss[2]}
  <1>1. IsWellFoundedOn(R, Nat)
    BY NatLessThanWellFounded DEF OpToRel
  <1>2. \A x, y \in T : y < x => <<y, x>> \in R
    OBVIOUS
  <1> HIDE DEF R
  <1>3. PICK x \in T : \A y \in T : ~(<<y, x>> \in R)
    BY <1>1, WFMin, Zenon
  <1>4. \A y \in T : ~(y < x)
    BY <1>2, <1>3, Zenon
  <1> QED
    BY <1>4, SMTT(30)

LEMMA IInvAlways == Spec => []IInv
  BY LeastNatural, InitIInv, IInvInductive, PTL DEF Spec

-----------------------------------------------------------------------------
\* Every variable keeps its type, and every goroutine is at a step of its function
\* or at its end, for any table of collectors.
THEOREM TypeCorrect == Spec => []TypeOK
  <1>1. IInv => TypeOK
    <2> SUFFICES ASSUME IInv
                 PROVE  TypeOK
      OBVIOUS
    <2>1. AtEnd(P.build, bpos) \/ bpos[2] \in 1..Len(P.build[bpos[1]].steps)
      BY FunctionsOfP, PosIsOfStep, Zenon DEF IInv, TypesInv, BuildInv
    <2>2. \A e \in berrs : e[1] \in 1..Len(P.build) /\ e[2] \in {"tolerated", "error", "skipped"}
      BY Zenon DEF IInv, BuildInv, ErrsIn
    <2>3. ASSUME NEW k \in Scrapes, st[k] \in {"run", "done"}, NEW t \in Threads
          PROVE  Finished(k, t) \/ pos[k][t][2] \in 1..Len(F(t)[pos[k][t][1]].steps)
      <3>1. PosIn(enabled, F(t), pos[k][t]) /\ IsFunction(F(t))
        BY <2>3, FunctionsOfP, Zenon DEF IInv, TypesInv, ScrapeInv, ThreadInv, ThreadIn
      <3> QED
        BY <3>1, PosIsOfStep, Zenon DEF Finished
    <2> QED
      BY <2>1, <2>2, <2>3, Zenon DEF IInv, TypesInv, TypeOK
  <1> QED
    BY <1>1, IInvAlways, PTL

\* What the process dies of.
DeathInv ==
  phase = "crashed" =>
    \/ ~AtEnd(P.build, bpos)
    \/ \E k \in Scrapes : Panicked(k) /\ k \in overlapped /\ HasStep("first")
    \/ berrs # {} /\ \A k \in Scrapes : st[k] \in {"idle", "done", "over"}

\* After a Build without error, Close finds what it uses.
LEMMA CloseFindsItsUses ==
  ASSUME IInv, phase = "serve", NEW i \in 1..Len(P.close), Unmade(P.close[i])
  PROVE  berrs # {}
  <1>1. P.close[i].op = "use" /\ P.close[i].of \notin made
    BY DEF Unmade
  <1>2. coll \in DOMAIN Programs /\ CloseUsesAreMade(P)
    BY TablesOfP, Zenon DEF IInv, TypesInv
  <1>3. PICK j \in 1..Len(P.build) : \E m \in 1..Len(P.build[j].steps) :
          P.build[j].part = "" /\ Makes(P, j, m, P.close[i].of)
    BY <1>1, <1>2, Zenon DEF CloseUsesAreMade
  <1>4. PICK m \in 1..Len(P.build[j].steps) :
          P.build[j].part = "" /\ Makes(P, j, m, P.close[i].of)
    BY <1>3, Zenon
  <1>5. Passed(j, m, bpos) /\ MadeIn(enabled, P, berrs, bpos, made)
    BY FunctionsOfP, PosIsOfStep, Zenon DEF IInv, TypesInv, BuildInv, Passed
  <1>6. Skipped(P, berrs, j, m)
    BY <1>1, <1>4, <1>5, Zenon DEF MadeIn, Makes, OnIn
  <1> QED
    BY <1>6, Zenon DEF Skipped

\* Only Build, a goroutine that Collect has started and Close bring it about.
LEMMA DeathInvInductive == IInv /\ DeathInv /\ [Next]_vars => DeathInv'
  <1> SUFFICES ASSUME IInv, DeathInv, [Next]_vars, phase' = "crashed"
               PROVE  DeathInv'
    BY Zenon DEF DeathInv
  <1>1. CASE UNCHANGED vars
    <2>1. UNCHANGED <<coll, phase, bpos, berrs, st, errs, overlapped>>
      BY <1>1, SMTT(30) DEF vars, buildVars, scrapeVars
    <2>2. P' = P /\ (HasStep("first")' <=> HasStep("first"))
      BY <2>1, SameProgram
    <2> QED
      BY <2>1, <2>2, Zenon DEF DeathInv, Panicked, AtEnd
  <1>2. CASE BuildPanics
    <2>1. ~AtEnd(P.build, bpos) /\ UNCHANGED <<coll, bpos>>
      BY <1>2, Zenon DEF BuildPanics, Building, buildVars
    <2>2. P' = P
      BY <2>1, SameProgram
    <2> QED
      BY <2>1, <2>2, Zenon DEF DeathInv, AtEnd
  <1>3. ASSUME NEW k \in Scrapes, NEW t \in Threads, CollectStep(k, t)
        PROVE  DeathInv'
    <2>1. phase = "serve" /\ UNCHANGED collectFrame /\ HasPanicked(k, t)
      BY <1>3, CollectStepCases, Zenon DEF WentOn, Failed
    <2>2. /\ errs' = [errs EXCEPT ![k] = {<<t, pos[k][t][1], "panic">>}]
          /\ k \in overlapped /\ HasStep("first")
      BY <2>1, Zenon DEF HasPanicked, Panics
    <2>3. UNCHANGED <<coll, overlapped>>
      BY <2>1 DEF collectFrame
    <2>4. HasStep("first")'
      BY <2>2, <2>3, SameProgram
    <2>5. Panicked(k)'
      <3>1. errs'[k] = {<<t, pos[k][t][1], "panic">>}
        BY <2>2, Zenon DEF IInv, TypesInv
      <3> QED
        BY <3>1 DEF Panicked
    <2> QED
      BY <2>2, <2>3, <2>4, <2>5, Zenon DEF DeathInv
  <1>4. CASE Close
    <2>1. /\ phase = "serve" /\ \A k \in Scrapes : st[k] \in {"idle", "done", "over"}
          /\ UNCHANGED <<berrs, st>>
      BY <1>4, Zenon DEF Close, scrapeVars
    <2>2. PICK n \in 0..Len(P.close) : n < Len(P.close) /\ Unmade(P.close[n + 1])
      BY <1>4, Zenon DEF Close
    <2>3. n + 1 \in 1..Len(P.close)
      BY <2>2
    <2>4. berrs # {}
      BY <2>1, <2>2, <2>3, CloseFindsItsUses
    <2> QED
      BY <2>1, <2>4, Zenon DEF DeathInv
  <1>5. CASE \/ MakeResource \/ NewCollector \/ BuildCall \/ BuildReturns
            \/ \E k \in Scrapes : \/ BeginScrape(k) \/ EnterCollect(k) \/ Timeout(k)
                                  \/ CollectReturns(k)
    BY <1>5, Zenon DEF MakeResource, NewCollector, BuildCall, BuildReturns, Building,
                       BeginScrape, EnterCollect, Timeout, CollectReturns
  <1> QED
    BY <1>1, <1>2, <1>3, <1>4, <1>5, Zenon DEF Next

LEMMA DeathInvAlways == Spec => [](IInv /\ DeathInv)
  <1>1. Init => DeathInv
    BY DEF Init, DeathInv
  <1>2. IInv /\ DeathInv /\ [Next]_vars => DeathInv'
    BY DeathInvInductive
  <1> QED
    BY <1>1, <1>2, IInvAlways, PTL DEF Spec

\* A panic of Collect, which collectCollector recovers in its own goroutine only
\* (collect.go:125-135), has one of the known causes, the process dies only of an
\* overlap, in Build or in a Close after a failed Build, and no goroutine sends on a
\* channel that Build should have made unless Build has failed.  This holds for any
\* table of collectors in which what a step uses is made before, any sub-collectors
\* and any number of scrapes that time out and overlap.
THEOREM PanicsAreCaused == Spec => []PanicHasCause
  <1>1. IInv /\ DeathInv => PanicHasCause
    <2> SUFFICES ASSUME IInv, DeathInv, NEW k \in Scrapes
                 PROVE  /\ Panicked(k) => Cause(k)
                        /\ \A t \in Threads :
                             At(k, t, "send") /\ Here(k, t).of \notin made => berrs # {}
      BY SMTT(30) DEF PanicHasCause, Cause, DeathInv
    <2>1. Panicked(k) => Cause(k)
      BY SMTT(30) DEF IInv, ErrorsInv
    <2>2. ASSUME NEW t \in Threads, At(k, t, "send"), Here(k, t).of \notin made
          PROVE  berrs # {}
      <3>1. /\ phase = "serve" /\ st[k] = "run" /\ ~Finished(k, t)
            /\ Here(k, t).op = "send" /\ Here(k, t).op \in Uses
        BY <2>2 DEF At, Uses
      <3> QED
        BY <2>2, <3>1, NeededIsMade, SMTT(30)
    <2> QED
      BY <2>1, <2>2, SMTT(30)
  <1> QED
    BY <1>1, DeathInvAlways, PTL

\* What every call of a scrape that is done was there to send.
LEMMA DoneIsShown ==
  ASSUME IInv, NEW k \in Scrapes, st[k] = "done", ~Panicked(k), k \notin overlapped,
         NEW t \in Threads, NEW i \in 1..Len(F(t)), Runs(F(t)[i])
  PROVE  ShownIn(F(t), t, i, errs[k], sent[k])
  <1> DEFINE f == F(t)
             q == pos[k][t]
  <1>1. /\ QuietIn(enabled, P, berrs, f, t, q, Filled, errs[k], sent[k])
        /\ ThreadIn(enabled, P, berrs, f, q, made) /\ AtEnd(f, q)
    BY Zenon DEF IInv, ScrapeInv, ThreadInv, Finished
  <1>2. i < q[1]
    BY <1>1, FunctionsOfP, PosIsOfStep, Zenon DEF IInv, TypesInv, ThreadIn
  <1>3. RunsIn(enabled, P, berrs, F(t)[i])
    BY RunsIsRunsIn, Zenon
  <1>4. \A e \in errs[k] : e[3] # "panic"
    BY SMTT(30) DEF Panicked
  <1> QED
    BY <1>1, <1>2, <1>3, <1>4, Zenon DEF QuietIn

\* Every group of metrics that a Collect without panic and without overlap has not
\* sent is explained by an error of its call, or by one that made the function
\* return before it: where Collect joins the errors of its sub-collectors, the
\* failure of one hides no other.
THEOREM NothingIsMissing == Spec => []MissingIsExplained
  <1>1. IInv => MissingIsExplained
    <2> SUFFICES ASSUME IInv, NEW k \in Scrapes, st[k] = "done", ~Panicked(k),
                        k \notin overlapped, NEW t \in Threads, NEW i \in 1..Len(F(t)),
                        IsOn(F(t)[i]), ~(P.ifBuilt /\ BuildFailed(F(t)[i]))
                 PROVE  ShownIn(F(t), t, i, errs[k], sent[k])
      BY ZenonT(30) DEF MissingIsExplained, ShownIn
    <2>1. Runs(F(t)[i])
      BY Zenon DEF Runs
    <2> QED
      BY <2>1, DoneIsShown, SMTT(30)
  <1> QED
    BY <1>1, IInvAlways, PTL

\* A collector that reports success, without overlap and without pdh.ErrNoData, has
\* sent every group of metrics it runs for, except those whose error it only logs:
\* the verdict of collectCollector (collect.go:207-222) loses no other failure.
THEOREM SuccessIsComplete == Spec => []SuccessMeansComplete
  <1>1. IInv => SuccessMeansComplete
    <2> SUFFICES ASSUME IInv, NEW k \in Scrapes, st[k] = "done", result[k] = "success",
                        k \notin overlapped, \A e \in errs[k] : e[3] # "nodata",
                        NEW t \in Threads, NEW i \in 1..Len(F(t)), Runs(F(t)[i])
                 PROVE  \/ GroupsOf(F(t)[i]) \subseteq sent[k]
                        \/ \E e \in errs[k] : e[1] = t /\ e[2] = i /\ e[3] = "logged"
      BY SMTT(30) DEF SuccessMeansComplete
    <2>1. Verdict(errs[k]) = "success"
      BY DEF IInv, ResultInv
    <2>2. \A e \in errs[k] : e[3] = "logged"
      BY <2>1, SMTT(30) DEF Verdict
    <2>3. ~Panicked(k)
      BY <2>2, SMTT(30) DEF Panicked
    <2>4. ShownIn(F(t), t, i, errs[k], sent[k])
      BY <2>3, DoneIsShown, SMTT(30)
    <2>5. \A e \in errs[k] : F(e[1])[e[2]].onErr # "return"
      BY <2>2, Zenon DEF IInv, ErrorsInv
    <2> QED
      BY <2>2, <2>4, <2>5, Zenon DEF ShownIn
  <1> QED
    BY <1>1, IInvAlways, PTL

\* Close of a collector, wherever it returns, leaves no performance counter query of
\* Build open (pdh.NewCollector) but those that the table names.
THEOREM QueriesAreReleased == Spec => []CloseReleases
  <1>1. IInv => CloseReleases
    BY DEF IInv, QueryInv
  <1> QED
    BY <1>1, IInvAlways, PTL
=============================================================================
