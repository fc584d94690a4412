--------------------------- MODULE EventLogProofs ---------------------------
(***************************************************************************)
(* Proofs about EventLog, for any number of calls, handles and records and *)
(* any bounds.                                                             *)
(***************************************************************************)
EXTENDS EventLog, TLAPS

Taken(r) == counted[r] > 0 \/ \E k \in Calls : r \in Pending(batch[k])

\* No handle is ahead of the log, and nothing is counted before it is written.
HandleInv ==
  /\ \A h \in Handles : pos[h] <= written + 1 /\ era[h] <= clears
  /\ \A r \in Records : counted[r] > 0 => r <= written

\* What the places of the calls say of each other and of the handles.
CallInv ==
  /\ phase = "build" => /\ open = {} /\ handle = NoHandle
                        /\ \A k \in Calls : pc[k] = "idle"
                        /\ \A r \in Records : counted[r] = 0
  /\ phase = "closed" => \A k \in Calls : pc[k] = "idle"
  /\ phase = "serve" => handle \in open \cup {NoHandle}
  /\ \A k \in Calls : IF pc[k] = "oldest" THEN new[k] \in open \ {handle}
                                           ELSE new[k] = NoHandle
  /\ \A j, k \in Calls : pc[j] = "oldest" /\ new[j] = new[k] => j = k
  /\ \A j, k \in Calls :
       j # k => pc[j] = "idle" \/ pc[k] = "idle" \/ j \in late \/ k \in late

\* Unless reopening has crossed, one call at a time reopens the log, and nobody
\* can read the log until it is done.
ReopenInv ==
  ~crossed =>
    /\ \A j, k \in Reopening : j = k
    /\ \A k \in Calls : pc[k] = "close" => handle \in open /\ Changed(handle)
    /\ \A k \in Calls : pc[k] \in {"open", "oldest"} => handle = NoHandle

\* Unless reopening has crossed, no record is taken twice, and the handle in use,
\* or the one that is being opened, is past every record taken.
OnceInv ==
  ~crossed =>
    /\ \A r \in Records : counted[r] <= 1
    /\ \A r \in Records, k \in Calls : r \in Pending(batch[k]) => counted[r] = 0
    /\ \A r \in Records, j, k \in Calls :
         r \in Pending(batch[j]) /\ r \in Pending(batch[k]) => j = k
    /\ handle \in open => \A r \in Records :
         Taken(r) => r < first \/ (era[handle] = clears /\ r < pos[handle])
    /\ Reopening # {} => \A r \in Records : Taken(r) => r < first

\* Every handle that is up to date has only taken records behind it.
SkipInv ==
  \A h \in open : era[h] = clears => \A r \in InLog : r < pos[h] => Taken(r)

IInv == LogTypes /\ HandleInv /\ CallInv /\ ReopenInv /\ OnceInv /\ SkipInv
        /\ NoHandleLeak

-----------------------------------------------------------------------------
\* The invariant holds before Build is called.
LEMMA InitIInv == Init => IInv
  <1> SUFFICES ASSUME Init
               PROVE  IInv
    OBVIOUS
  <1> USE EventLogAssumption DEF Init, None, Pending, Records
  <1>0. crossed \in BOOLEAN
    BY Zenon
  <1>1. LogTypes
    BY <1>0 DEF LogTypes
  <1>2. HandleInv
    BY DEF HandleInv, LogTypes, Records, Changed
  <1>3. CallInv
    BY DEF CallInv, LogTypes, Changed
  <1>4. ReopenInv
    BY DEF ReopenInv, Reopening, Changed, CallInv, HandleInv, LogTypes, Changed
  <1>5. OnceInv
    BY DEF OnceInv, Taken, Reopening, LogTypes, HandleInv, ReopenInv, Changed
  <1>6. SkipInv
    BY DEF SkipInv, Taken, InLog, HandleInv, LogTypes, Changed
  <1>7. NoHandleLeak
    BY DEF NoHandleLeak, CallInv, LogTypes, Changed
  <1> QED
    BY <1>1, <1>2, <1>3, <1>4, <1>5, <1>6, <1>7 DEF IInv

\* Every step of the log, of Build, of Collect and of Close keeps it.
LEMMA IInvInductive == IInv /\ [Next]_vars => IInv'
  <1> SUFFICES ASSUME IInv, [Next]_vars
               PROVE  IInv'
    OBVIOUS
  <1> USE EventLogAssumption DEF IInv, logVars, handleVars, countVars, callVars, None, Pending
  <1>1. CASE Write
    <2>1. LogTypes'
      BY <1>1 DEF Write, LogTypes, Records, logVars
    <2>2. HandleInv'
      BY <1>1 DEF Write, HandleInv, LogTypes, Records, logVars
    <2>3. CallInv'
      BY <1>1, Zenon DEF Write, CallInv, LogTypes, logVars
    <2>4. ReopenInv'
      BY <1>1 DEF Write, ReopenInv, Reopening, Changed, CallInv, HandleInv, LogTypes, logVars
    <2>5. OnceInv'
      <3>1. \A r \in Records : Taken(r)' <=> Taken(r)
        BY <1>1 DEF Write, Taken
      <3>2. first' \in {first, first + 1}
        BY <1>1 DEF Write
      <3> QED
        BY <1>1, <3>1, <3>2 DEF Write, OnceInv, Reopening, LogTypes, Records
    <2>6. SkipInv'
      BY <1>1 DEF Write, SkipInv, Taken, InLog, HandleInv, LogTypes, logVars
    <2>7. NoHandleLeak'
      BY <1>1 DEF Write, NoHandleLeak, CallInv, LogTypes, logVars
    <2> QED
      BY <2>1, <2>2, <2>3, <2>4, <2>5, <2>6, <2>7
  <1>2. CASE Clear
    <2>1. LogTypes'
      BY <1>2 DEF Clear, LogTypes, Records
    <2>2. HandleInv'
      BY <1>2 DEF Clear, HandleInv, LogTypes, Records
    <2>3. CallInv'
      BY <1>2, Zenon DEF Clear, CallInv, LogTypes
    <2>4. ReopenInv'
      BY <1>2 DEF Clear, ReopenInv, Reopening, Changed, CallInv, HandleInv, LogTypes
    <2>5. OnceInv'
      <3>1. \A r \in Records : Taken(r)' <=> Taken(r)
        BY <1>2 DEF Clear, Taken
      <3>2. \A r \in Records : Taken(r) => r <= written
        BY SMTT(30) DEF Taken, HandleInv, LogTypes, Records
      <3> QED
        BY <1>2, <3>1, <3>2 DEF Clear, OnceInv, Reopening, LogTypes, Records
    <2>6. SkipInv'
      BY <1>2 DEF Clear, SkipInv, Taken, InLog, HandleInv, LogTypes
    <2>7. NoHandleLeak'
      BY <1>2 DEF Clear, NoHandleLeak, CallInv, LogTypes
    <2> QED
      BY <2>1, <2>2, <2>3, <2>4, <2>5, <2>6, <2>7
  <1>3. CASE Build
    <2>1. LogTypes'
      <3>1. open' \subseteq Handles /\ handle' \in Handles \cup {NoHandle}
            /\ pos' \in [Handles -> Nat] /\ era' \in [Handles -> Nat] /\ faults' \in 0..MaxFaults
        BY <1>3 DEF Build, LogTypes, Opens, Fault, NoFault
      <3> QED
        BY <1>3, <3>1, Zenon DEF Build, LogTypes
    <2>2. HandleInv'
      BY <1>3 DEF Build, HandleInv, LogTypes, Records, Opens, Fault, NoFault, Changed, Reopening
    <2>3. CallInv'
      BY <1>3, Zenon DEF Build, CallInv, LogTypes, Opens, Fault, NoFault, Changed, Reopening
    <2>4. ReopenInv'
      BY <1>3, Zenon DEF Build, ReopenInv, Reopening, Changed, CallInv, HandleInv, LogTypes, Opens, Fault, NoFault, Changed, Reopening
    <2>5. OnceInv'
      <3>1. \A r \in Records : ~Taken(r) /\ ~Taken(r)'
        BY <1>3 DEF Build, Taken, CallInv, LogTypes
      <3>2. counted' = counted /\ batch' = batch /\ pc' = pc /\ crossed' = crossed
        BY <1>3 DEF Build
      <3> QED
        BY <3>1, <3>2, Zenon DEF OnceInv, Taken, Reopening
    <2>6. SkipInv'
      BY <1>3 DEF Build, SkipInv, Taken, InLog, HandleInv, LogTypes, Opens, Fault, NoFault, Changed, Reopening
    <2>7. NoHandleLeak'
      BY <1>3, Zenon DEF Build, NoHandleLeak, CallInv, LogTypes, Opens, Fault, NoFault, Changed, Reopening
    <2> QED
      BY <2>1, <2>2, <2>3, <2>4, <2>5, <2>6, <2>7
  <1>4. CASE MapRace
    <2>1. LogTypes'
      BY <1>4, Zenon DEF MapRace, LogTypes, Records
    <2>2. HandleInv'
      BY <1>4, Zenon DEF MapRace, HandleInv, LogTypes, Records
    <2>3. CallInv'
      BY <1>4, Zenon DEF MapRace, CallInv, LogTypes
    <2>4. ReopenInv'
      BY <1>4, Zenon DEF MapRace, ReopenInv, Reopening, Changed, CallInv, HandleInv, LogTypes
    <2>5. OnceInv'
      BY <1>4, Zenon DEF MapRace, OnceInv, Taken, Reopening, LogTypes, HandleInv, ReopenInv
    <2>6. SkipInv'
      BY <1>4, Zenon DEF MapRace, SkipInv, Taken, InLog, HandleInv, LogTypes
    <2>7. NoHandleLeak'
      BY <1>4 DEF MapRace, NoHandleLeak, CallInv, LogTypes
    <2> QED
      BY <2>1, <2>2, <2>3, <2>4, <2>5, <2>6, <2>7
  <1>5. CASE Close
    <2>1. LogTypes'
      BY <1>5, Zenon DEF Close, LogTypes, Records
    <2>2. HandleInv'
      BY <1>5 DEF Close, HandleInv, LogTypes, Records
    <2>3. CallInv'
      BY <1>5, Zenon DEF Close, CallInv, LogTypes
    <2>4. ReopenInv'
      BY <1>5, Zenon DEF Close, ReopenInv, Reopening, Changed, CallInv, HandleInv, LogTypes
    <2>5. OnceInv'
      BY <1>5, Zenon DEF Close, OnceInv, Taken, Reopening, LogTypes, HandleInv, ReopenInv
    <2>6. SkipInv'
      BY <1>5, Zenon DEF Close, SkipInv, Taken, InLog, HandleInv, LogTypes
    <2>7. NoHandleLeak'
      BY <1>5 DEF Close, NoHandleLeak, CallInv, LogTypes
    <2> QED
      BY <2>1, <2>2, <2>3, <2>4, <2>5, <2>6, <2>7
  <1>6. ASSUME NEW k \in Calls, Begin(k)
        PROVE  IInv'
    <2>1. LogTypes'
      BY <1>6, Zenon DEF Begin, LogTypes, Records
    <2>2. HandleInv'
      BY <1>6, Zenon DEF Begin, HandleInv, LogTypes, Records
    <2>3. CallInv'
      BY <1>6 DEF Begin, CallInv, LogTypes
    <2>4. ReopenInv'
      BY <1>6 DEF Begin, ReopenInv, Reopening, Changed, CallInv, HandleInv, LogTypes
    <2>5. OnceInv'
      BY <1>6 DEF Begin, OnceInv, Taken, Reopening, LogTypes, HandleInv, ReopenInv
    <2>6. SkipInv'
      BY <1>6, Zenon DEF Begin, SkipInv, Taken, InLog, HandleInv, LogTypes
    <2>7. NoHandleLeak'
      BY <1>6 DEF Begin, NoHandleLeak, CallInv, LogTypes
    <2> QED
      BY <2>1, <2>2, <2>3, <2>4, <2>5, <2>6, <2>7
  <1>7. ASSUME NEW k \in Calls, Timeout(k)
        PROVE  IInv'
    <2>1. LogTypes'
      BY <1>7, Zenon DEF Timeout, LogTypes, Records
    <2>2. HandleInv'
      BY <1>7 DEF Timeout, HandleInv, LogTypes, Records
    <2>3. CallInv'
      BY <1>7, Zenon DEF Timeout, CallInv, LogTypes
    <2>4. ReopenInv'
      BY <1>7, Zenon DEF Timeout, ReopenInv, Reopening, Changed, CallInv, HandleInv, LogTypes
    <2>5. OnceInv'
      BY <1>7, Zenon DEF Timeout, OnceInv, Taken, Reopening, LogTypes, HandleInv, ReopenInv
    <2>6. SkipInv'
      BY <1>7, Zenon DEF Timeout, SkipInv, Taken, InLog, HandleInv, LogTypes
    <2>7. NoHandleLeak'
      BY <1>7 DEF Timeout, NoHandleLeak, CallInv, LogTypes
    <2> QED
      BY <2>1, <2>2, <2>3, <2>4, <2>5, <2>6, <2>7
  <1>8. ASSUME NEW k \in Calls, ReadBatch(k)
        PROVE  IInv'
    <2> DEFINE f == From(handle)
    <2>a. PICK n \in 1..BatchMax :
            /\ f + n - 1 <= written
            /\ batch' = [batch EXCEPT ![k] = [from |-> f, to |-> f + n - 1]]
            /\ pos' = [pos EXCEPT ![handle] = (f + n - 1) + 1]
      BY <1>8, Zenon DEF ReadBatch, LogTypes, From
    <2>b. f \in Nat /\ first <= f /\ 1 <= f /\ f = (IF pos[handle] = 0 THEN first ELSE pos[handle])
          /\ handle \in open /\ handle \in Handles /\ era[handle] = clears
      BY <1>8 DEF ReadBatch, From, Changed, Invalid, LogTypes
    <2> HIDE DEF f
    <2>c. /\ batch'[k] = [from |-> f, to |-> f + n - 1]
          /\ \A j \in Calls \ {k} : batch'[j] = batch[j]
          /\ Pending(batch[k]) = {}
      BY <1>8, <2>a, Zenon DEF ReadBatch, At, LogTypes
    <2>d. \A r \in Records : Taken(r)' <=> Taken(r) \/ (f <= r /\ r < f + n)
      <3>1. \A r \in Records : r \in Pending(batch'[k]) <=> f <= r /\ r < f + n
        BY <2>b, <2>c DEF Records
      <3> QED
        BY <1>8, <2>c, <3>1, Zenon DEF ReadBatch, Taken
    <2>1. LogTypes'
      <3>0. written <= Before + MaxRecords /\ written \in Nat /\ n \in Nat /\ 1 <= n
        BY DEF LogTypes
      <3>1. f \in Records /\ f + n - 1 \in Records
        BY <2>a, <2>b, <3>0 DEF Records
      <3>2. batch' \in [Calls -> [from : Records \cup {1}, to : Records \cup {0}]]
        BY <2>a, <3>1, Zenon DEF LogTypes
      <3>3. \A j \in Calls : /\ pc'[j] = "count" <=> Pending(batch'[j]) # {}
                             /\ batch'[j].to <= written
        <4>1. pc'[k] = "count" /\ \A j \in Calls \ {k} : pc'[j] = pc[j]
          BY <1>8, Zenon DEF ReadBatch, LogTypes, Goes
        <4>2. f \in Pending(batch'[k]) /\ batch'[k].to <= written
          BY <2>a, <2>b, <2>c
        <4> QED
          BY <2>c, <4>1, <4>2, ZenonT(30) DEF LogTypes
      <3>4. pos' \in [Handles -> Nat]
        BY <2>a, <2>b DEF LogTypes
      <3> QED
        BY <1>8, <3>2, <3>3, <3>4, Zenon DEF ReadBatch, Goes, LogTypes
    <2>2. HandleInv'
      BY <1>8, <2>a, <2>b DEF ReadBatch, HandleInv, LogTypes
    <2>3. CallInv'
      BY <1>8, SMTT(30) DEF ReadBatch, CallInv, LogTypes, At, Goes, From, Invalid, Changed
    <2>4. ReopenInv'
      BY <1>8, <2>a, <2>b DEF ReadBatch, At, Goes, ReopenInv, Reopening, Changed, LogTypes, CallInv
    <2>5. OnceInv'
      <3> SUFFICES ASSUME ~crossed
                   PROVE  OnceInv'
        BY <1>8, Zenon DEF ReadBatch, OnceInv
      <3>1. \A r \in Records : Taken(r) => r < f
        BY <2>b, <1>8 DEF OnceInv, LogTypes, Records, ReadBatch, Changed, From, f
      <3>2. \A r \in Records : f <= r => counted[r] = 0 /\ \A j \in Calls : r \notin Pending(batch[j])
        BY <3>1, <2>b, SMTT(30) DEF Taken, LogTypes, Records
      <3>3. Reopening' = {}
        BY <1>8, <2>b DEF ReadBatch, At, Goes, ReopenInv, Reopening, Changed, LogTypes
      <3>4. \A r \in Records, j \in Calls : r \in Pending(batch'[j]) => counted[r] = 0
        <4>1. \A r \in Records : r \in Pending(batch'[k]) => f <= r
          BY <2>b, <2>c
        <4> QED
          BY <2>c, <3>2, <4>1, Zenon DEF OnceInv
      <3>5. \A r \in Records, i, j \in Calls :
              r \in Pending(batch'[i]) /\ r \in Pending(batch'[j]) => i = j
        <4>1. \A r \in Records : r \in Pending(batch'[k]) => f <= r
          BY <2>b, <2>c
        <4> QED
          BY <2>c, <3>2, <4>1 DEF OnceInv
      <3>6. \A r \in Records : Taken(r)' => r < pos'[handle]
        <4>1. pos'[handle] = f + n
          BY <2>a, <2>b DEF LogTypes
        <4> QED
          BY <2>b, <2>d, <3>1, <4>1 DEF Records
      <3> QED
        BY <1>8, <2>b, <3>3, <3>4, <3>5, <3>6, Zenon DEF ReadBatch, OnceInv
    <2>6. SkipInv'
      <3> SUFFICES ASSUME NEW h \in open, era[h] = clears, NEW r \in InLog, r < pos'[h]
                   PROVE  Taken(r)'
        BY <1>8, Zenon DEF ReadBatch, SkipInv, InLog
      <3>1. r \in Records /\ first <= r
        BY SMTT(30) DEF InLog, Records, LogTypes
      <3>2. CASE h = handle
        <4>1. r < f + n
          BY <2>a, <2>b, <3>2 DEF LogTypes
        <4>2. CASE f <= r
          BY <2>d, <3>1, <4>1, <4>2
        <4>3. CASE r < f
          BY <2>b, <2>d, <3>1, <3>2, <4>3 DEF SkipInv, LogTypes, InLog
        <4> QED
          BY <2>b, <3>1, <4>2, <4>3 DEF Records
      <3>3. CASE h # handle
        BY <2>a, <2>d, <3>1, <3>3, Zenon DEF SkipInv, LogTypes
      <3> QED
        BY <3>2, <3>3
    <2>7. NoHandleLeak'
      BY <1>8, SMTT(30) DEF ReadBatch, NoHandleLeak, CallInv, LogTypes, At, Goes, From, Invalid, Changed
    <2> QED
      BY <2>1, <2>2, <2>3, <2>4, <2>5, <2>6, <2>7
  <1>9. ASSUME NEW k \in Calls, ReadEnds(k)
        PROVE  IInv'
    <2>1. LogTypes'
      BY <1>9, SMTT(30) DEF ReadEnds, LogTypes, Records, At, Goes, Fault, NoFault
    <2>2. HandleInv'
      BY <1>9, Zenon DEF ReadEnds, HandleInv, LogTypes, Records, At, Goes, Fault, NoFault
    <2>3. CallInv'
      BY <1>9, Zenon DEF ReadEnds, CallInv, LogTypes, At, Goes, Fault, NoFault
    <2>4. ReopenInv'
      BY <1>9, SMTT(30) DEF ReadEnds, ReopenInv, Reopening, Changed, CallInv, HandleInv, LogTypes, At, Goes, Fault, NoFault
    <2>5. OnceInv'
      BY <1>9 DEF ReadEnds, OnceInv, Taken, Reopening, LogTypes, HandleInv, ReopenInv, At, Goes, Fault, NoFault
    <2>6. SkipInv'
      BY <1>9, Zenon DEF ReadEnds, SkipInv, Taken, InLog, HandleInv, LogTypes, At, Goes, Fault, NoFault
    <2>7. NoHandleLeak'
      BY <1>9, SMTT(30) DEF ReadEnds, NoHandleLeak, CallInv, LogTypes, At, Goes, Fault, NoFault
    <2> QED
      BY <2>1, <2>2, <2>3, <2>4, <2>5, <2>6, <2>7
  <1>10. ASSUME NEW k \in Calls, ReadChanged(k)
        PROVE  IInv'
    <2>1. LogTypes'
      BY <1>10, Zenon DEF ReadChanged, LogTypes, Records, At, Goes, Invalid
    <2>2. HandleInv'
      BY <1>10, Zenon DEF ReadChanged, HandleInv, LogTypes, Records, At, Goes, Invalid
    <2>3. CallInv'
      BY <1>10, Zenon DEF ReadChanged, CallInv, LogTypes, At, Goes, Invalid
    <2>4. ReopenInv'
      <3>1. ~crossed' => ~crossed /\ Reopening = {} /\ Reopening' \subseteq {k}
        BY <1>10, Zenon DEF ReadChanged, Goes, Reopening, LogTypes
      <3>2. pc'[k] = "close" /\ \A j \in Calls \ {k} : pc'[j] = pc[j]
        BY <1>10, Zenon DEF ReadChanged, Goes, LogTypes
      <3> QED
        BY <1>10, <3>1, <3>2, Zenon DEF ReadChanged, Invalid, ReopenInv, Changed, Reopening
    <2>5. OnceInv'
      <3>1. ~crossed' => ~crossed
        BY <1>10, Zenon DEF ReadChanged
      <3>2. \A r \in Records : Taken(r)' <=> Taken(r)
        BY <1>10, Zenon DEF ReadChanged, Taken
      <3>3. ~crossed => \A r \in Records : Taken(r) => r < first
        BY <1>10, SMTT(30) DEF ReadChanged, Invalid, Changed, OnceInv, LogTypes, Records
      <3> QED
        BY <1>10, <3>1, <3>2, <3>3, Zenon DEF ReadChanged, OnceInv
    <2>6. SkipInv'
      BY <1>10, Zenon DEF ReadChanged, SkipInv, Taken, InLog, HandleInv, LogTypes, At, Goes, Invalid
    <2>7. NoHandleLeak'
      BY <1>10, SMTT(30) DEF ReadChanged, NoHandleLeak, CallInv, LogTypes, At, Goes, Invalid
    <2> QED
      BY <2>1, <2>2, <2>3, <2>4, <2>5, <2>6, <2>7
  <1>11. ASSUME NEW k \in Calls, Count(k)
        PROVE  IInv'
    <2> DEFINE b == batch[k]
    <2>a. b.from \in Records /\ b.to \in Records /\ b.from <= b.to /\ b.to <= written
      <3>1. Pending(b) # {} /\ b \in [from : Records \cup {1}, to : Records \cup {0}] /\ b.to <= written
        BY <1>11, Zenon DEF Count, At, LogTypes
      <3>2. b.from <= b.to /\ b.to \in Records
        BY <3>1 DEF Records
      <3> QED
        BY <3>1, <3>2 DEF Records
    <2>b. counted' = [counted EXCEPT ![b.from] = @ + 1]
      BY <1>11 DEF Count
    <2>c. /\ IF b.from < b.to THEN batch'[k] = [from |-> b.from + 1, to |-> b.to] /\ pc'[k] = "count"
                              ELSE batch'[k] = None /\ pc'[k] = "read"
          /\ \A j \in Calls \ {k} : batch'[j] = batch[j] /\ pc'[j] = pc[j]
      BY <1>11 DEF Count, Goes, LogTypes
    <2>d. \A r \in Records : r \in Pending(batch'[k]) <=> r \in Pending(b) /\ r # b.from
      BY <2>a, <2>c, SMTT(30) DEF Records, LogTypes
    <2>e. \A r \in Records : Taken(r)' <=> Taken(r)
      <3> SUFFICES ASSUME NEW r \in Records
                   PROVE  Taken(r)' <=> Taken(r)
        OBVIOUS
      <3>1. CASE r = b.from
        <4>1. counted'[r] > 0
          BY <3>1, <2>a, <2>b DEF LogTypes
        <4>2. r \in Pending(batch[k])
          BY <3>1, <2>a DEF Records
        <4> QED
          BY <4>1, <4>2 DEF Taken
      <3>2. CASE r # b.from
        BY <3>2, <2>b, <2>c, <2>d, Zenon DEF Taken, LogTypes
      <3> QED
        BY <3>1, <3>2
    <2>1. LogTypes'
      <3>1. counted' \in [Records -> Nat]
        BY <2>a, <2>b DEF LogTypes
      <3>2. batch' \in [Calls -> [from : Records \cup {1}, to : Records \cup {0}]]
        <4>1. batch'[k] \in [from : Records \cup {1}, to : Records \cup {0}]
          BY <2>a, <2>c, SMTT(30) DEF Records, LogTypes
        <4> QED
          BY <1>11, <4>1, <2>c, Zenon DEF Count, LogTypes
      <3>3. \A j \in Calls : /\ pc'[j] = "count" <=> Pending(batch'[j]) # {}
                             /\ batch'[j].to <= written
        <4>1. CASE b.from < b.to
          <5>1. b.from + 1 \in Pending(batch'[k])
            BY <2>a, <2>c, <4>1, SMTT(30) DEF Records
          <5> QED
            BY <2>a, <2>c, <4>1, <5>1, SMTT(30) DEF LogTypes
        <4>2. CASE ~(b.from < b.to)
          <5>1. Pending(batch'[k]) = {} /\ batch'[k].to <= written
            BY <2>c, <4>2 DEF LogTypes
          <5> QED
            BY <2>c, <4>2, <5>1, Zenon DEF LogTypes
        <4> QED
          BY <4>1, <4>2
      <3> QED
        BY <1>11, <3>1, <3>2, <3>3, Zenon DEF Count, Goes, LogTypes
    <2>2. HandleInv'
      BY <1>11, <2>a, <2>b, SMTT(30) DEF Count, HandleInv, LogTypes, Records
    <2>3. CallInv'
      BY <1>11, <2>c DEF Count, At, CallInv
    <2>4. ReopenInv'
      BY <1>11, <2>c, Zenon DEF Count, At, ReopenInv, Reopening, Changed
    <2>5. OnceInv'
      <3> SUFFICES ASSUME ~crossed
                   PROVE  OnceInv'
        BY <1>11, Zenon DEF Count, OnceInv
      <3>1. b.from \in Pending(batch[k]) /\ counted[b.from] = 0
        BY <2>a, SMTT(30) DEF OnceInv, Records
      <3>2. \A r \in Records : counted'[r] <= 1
        BY <2>b, <3>1, SMTT(30) DEF OnceInv, LogTypes
      <3>3. \A r \in Records, j \in Calls : r \in Pending(batch'[j]) => r \in Pending(batch[j]) /\ r # b.from
        BY <2>c, <2>d, <3>1, <2>a, SMTT(30) DEF OnceInv
      <3>4. \A r \in Records, j \in Calls : r \in Pending(batch'[j]) => counted'[r] = 0
        BY <2>b, <3>3, <2>a DEF OnceInv, LogTypes
      <3>5. Reopening' = Reopening
        BY <1>11, <2>c, Zenon DEF Count, At, Reopening
      <3>6. \A r \in Records, i, j \in Calls :
              r \in Pending(batch'[i]) /\ r \in Pending(batch'[j]) => i = j
        BY <3>3, Zenon DEF OnceInv
      <3> QED
        BY <1>11, <2>e, <3>2, <3>4, <3>5, <3>6, Zenon DEF Count, OnceInv
    <2>6. SkipInv'
      <3>1. InLog \subseteq Records
        BY DEF InLog, Records, LogTypes
      <3> QED
        BY <1>11, <2>e, <3>1, Zenon DEF Count, SkipInv, InLog
    <2>7. NoHandleLeak'
      BY <1>11 DEF Count, NoHandleLeak, CallInv, LogTypes, At, Goes
    <2> QED
      BY <2>1, <2>2, <2>3, <2>4, <2>5, <2>6, <2>7
  <1>12. ASSUME NEW k \in Calls, CloseHandle(k)
        PROVE  IInv'
    <2>1. LogTypes'
      BY <1>12, Zenon DEF CloseHandle, LogTypes, Records, At, Goes
    <2>2. HandleInv'
      BY <1>12, Zenon DEF CloseHandle, HandleInv, LogTypes, Records, At, Goes
    <2>3. CallInv'
      BY <1>12, Zenon DEF CloseHandle, CallInv, LogTypes, At, Goes
    <2>4. ReopenInv'
      BY <1>12, SMTT(30) DEF CloseHandle, ReopenInv, Reopening, Changed, CallInv, HandleInv, LogTypes, At, Goes
    <2>5. OnceInv'
      BY <1>12, ZenonT(30) DEF CloseHandle, OnceInv, Taken, Reopening, LogTypes, HandleInv, ReopenInv, At, Goes
    <2>6. SkipInv'
      BY <1>12, Zenon DEF CloseHandle, SkipInv, Taken, InLog, HandleInv, LogTypes, At, Goes
    <2>7. NoHandleLeak'
      BY <1>12, SMTT(30) DEF CloseHandle, NoHandleLeak, CallInv, LogTypes, At, Goes
    <2> QED
      BY <2>1, <2>2, <2>3, <2>4, <2>5, <2>6, <2>7
  <1>13. ASSUME NEW k \in Calls, OpenAgain(k)
        PROVE  IInv'
    <2>1. LogTypes'
      <3>1. open' \subseteq Handles /\ new' \in [Calls -> Handles \cup {NoHandle}]
            /\ pos' \in [Handles -> Nat] /\ era' \in [Handles -> Nat] /\ faults' \in 0..MaxFaults
        <4>1. CASE /\ \E h \in Handles : Opens(h) /\ new' = [new EXCEPT ![k] = h]
                   /\ NoFault
          <5>1. PICK h \in Handles : Opens(h) /\ new' = [new EXCEPT ![k] = h]
            BY <4>1, Zenon
          <5>2. clears \in Nat
            BY EventLogAssumption DEF LogTypes
          <5>3. open' \subseteq Handles /\ pos' \in [Handles -> Nat] /\ era' \in [Handles -> Nat]
            BY <5>1, <5>2 DEF Opens, LogTypes
          <5>4. new' \in [Calls -> Handles \cup {NoHandle}]
            BY <5>1 DEF LogTypes
          <5> QED
            BY <4>1, <5>3, <5>4, Zenon DEF NoFault, LogTypes
        <4>2. CASE Fault /\ UNCHANGED <<handleVars, new>>
          <5>1. faults' \in 0..MaxFaults
            BY <4>2, EventLogAssumption DEF Fault, LogTypes
          <5> QED
            BY <4>2, <5>1, Zenon DEF handleVars, LogTypes
        <4> QED
          BY <1>13, <4>1, <4>2, Zenon DEF OpenAgain
      <3>2. pc'[k] \in {"oldest", "emit"} /\ pc[k] = "open" /\ \A j \in Calls \ {k} : pc'[j] = pc[j]
        BY <1>13, Zenon DEF OpenAgain, At, Goes, LogTypes
      <3>3. pc' \in [Calls -> {"idle", "read", "count", "close", "open", "oldest", "emit"}]
        BY <1>13, Zenon DEF OpenAgain, Goes, LogTypes
      <3> QED
        BY <1>13, <3>1, <3>2, <3>3, Zenon DEF OpenAgain, LogTypes
    <2>2. HandleInv'
      <3>1. \A h \in Handles : /\ pos'[h] \in {0, pos[h]}
                               /\ era'[h] \in {clears, era[h]}
        BY <1>13, Zenon DEF OpenAgain, Opens, LogTypes
      <3> QED
        BY <1>13, <3>1 DEF OpenAgain, HandleInv, LogTypes
    <2>3. CallInv'
      <3>1. CASE \E h \in Handles : Opens(h) /\ new' = [new EXCEPT ![k] = h] /\ Goes(k, "oldest")
        BY <1>13, <3>1 DEF OpenAgain, At, Goes, Opens, CallInv, LogTypes
      <3>2. CASE Goes(k, "emit") /\ UNCHANGED <<handleVars, new>>
        BY <1>13, <3>2, Zenon DEF OpenAgain, At, Goes, CallInv, LogTypes
      <3> QED
        BY <1>13, <3>1, <3>2, SMTT(30) DEF OpenAgain
    <2>4. ReopenInv'
      BY <1>13 DEF OpenAgain, ReopenInv, Reopening, Changed, CallInv, HandleInv, LogTypes, At, Goes, Opens, Fault, NoFault
    <2>5. OnceInv'
      BY <1>13, Zenon DEF OpenAgain, OnceInv, Taken, Reopening, LogTypes, HandleInv, ReopenInv, At, Goes, Opens, Fault, NoFault
    <2>6. SkipInv'
      BY <1>13 DEF OpenAgain, SkipInv, Taken, InLog, HandleInv, LogTypes, At, Goes, Opens, Fault, NoFault
    <2>7. NoHandleLeak'
      BY <1>13 DEF OpenAgain, NoHandleLeak, CallInv, LogTypes, At, Goes, Opens, Fault, NoFault
    <2> QED
      BY <2>1, <2>2, <2>3, <2>4, <2>5, <2>6, <2>7
  <1>14. ASSUME NEW k \in Calls, AskOldest(k)
        PROVE  IInv'
    <2>1. LogTypes'
      BY <1>14 DEF AskOldest, LogTypes, Records, At, Goes, Fault, NoFault
    <2>2. HandleInv'
      BY <1>14, Zenon DEF AskOldest, HandleInv, LogTypes, Records, At, Goes, Fault, NoFault
    <2>3. CallInv'
      BY <1>14, ZenonT(30) DEF AskOldest, CallInv, LogTypes, At, Goes, Fault, NoFault
    <2>4. ReopenInv'
      BY <1>14 DEF AskOldest, ReopenInv, Reopening, Changed, CallInv, HandleInv, LogTypes, At, Goes, Fault, NoFault
    <2>5. OnceInv'
      BY <1>14, ZenonT(30) DEF AskOldest, OnceInv, Taken, Reopening, LogTypes, HandleInv, ReopenInv, At, Goes, Fault, NoFault
    <2>6. SkipInv'
      BY <1>14, ZenonT(30) DEF AskOldest, SkipInv, Taken, InLog, HandleInv, LogTypes, At, Goes, Fault, NoFault
    <2>7. NoHandleLeak'
      BY <1>14 DEF AskOldest, At, NoHandleLeak, CallInv, ReopenInv, LogTypes
    <2> QED
      BY <2>1, <2>2, <2>3, <2>4, <2>5, <2>6, <2>7
  <1>15. ASSUME NEW k \in Calls, Emit(k)
        PROVE  IInv'
    <2>1. LogTypes'
      BY <1>15, ZenonT(30) DEF Emit, LogTypes, Records, At, Goes
    <2>2. HandleInv'
      BY <1>15, ZenonT(30) DEF Emit, HandleInv, LogTypes, Records, At, Goes
    <2>3. CallInv'
      BY <1>15, ZenonT(30) DEF Emit, CallInv, LogTypes, At, Goes
    <2>4. ReopenInv'
      BY <1>15, SMTT(30) DEF Emit, ReopenInv, Reopening, Changed, CallInv, HandleInv, LogTypes, At, Goes
    <2>5. OnceInv'
      BY <1>15 DEF Emit, OnceInv, Taken, Reopening, LogTypes, HandleInv, ReopenInv, At, Goes
    <2>6. SkipInv'
      BY <1>15, ZenonT(30) DEF Emit, SkipInv, Taken, InLog, HandleInv, LogTypes, At, Goes
    <2>7. NoHandleLeak'
      BY <1>15 DEF Emit, NoHandleLeak, CallInv, LogTypes, At, Goes
    <2> QED
      BY <2>1, <2>2, <2>3, <2>4, <2>5, <2>6, <2>7
  <1>17. ASSUME NEW k \in Calls, Load(k)
        PROVE  IInv'
    <2>1. UNCHANGED <<logVars, handleVars, handle, counted, phase, callVars, faults>>
      BY <1>17, Zenon DEF Load
    <2>2. LogTypes' /\ HandleInv' /\ CallInv'
      BY <2>1, ZenonT(30) DEF LogTypes, HandleInv, CallInv
    <2>3. ReopenInv' /\ NoHandleLeak'
      BY <2>1, ZenonT(30) DEF ReopenInv, NoHandleLeak, Reopening, Changed
    <2>4. OnceInv'
      BY <2>1, ZenonT(30) DEF OnceInv, Taken, Reopening
    <2>5. SkipInv'
      BY <2>1, ZenonT(30) DEF SkipInv, Taken, InLog
    <2> QED
      BY <2>2, <2>3, <2>4, <2>5
  <1>16. CASE UNCHANGED vars
    <2>1. LogTypes' /\ HandleInv' /\ CallInv'
      BY <1>16, ZenonT(30) DEF vars, LogTypes, HandleInv, CallInv
    <2>2. ReopenInv'
      BY <1>16, ZenonT(30) DEF vars, ReopenInv, Reopening, Changed
    <2>3. OnceInv'
      BY <1>16, ZenonT(30) DEF vars, OnceInv, Taken, Reopening
    <2>4. SkipInv'
      BY <1>16, ZenonT(30) DEF vars, SkipInv, Taken, InLog
    <2>5. NoHandleLeak'
      BY <1>16, Zenon DEF vars, NoHandleLeak
    <2> QED
      BY <2>1, <2>2, <2>3, <2>4, <2>5
  <1> QED
    BY <1>1, <1>2, <1>3, <1>4, <1>5, <1>6, <1>7, <1>8, <1>9, <1>10, <1>11, <1>12, <1>13, <1>14, <1>15, <1>16, <1>17, Zenon
       DEF Next, Step

LEMMA IInvAlways == Spec => []IInv
  BY InitIInv, IInvInductive, PTL DEF Spec

-----------------------------------------------------------------------------
\* Who adds is at a record, and what was loaded was once processed.  As long as
\* nobody has raced, one call at a time adds, and to the total as it is.
SumInv ==
  /\ CounterTypes
  /\ \A k \in adding : pc[k] = "count" /\ loaded[k] <= processed
  /\ total <= processed
  /\ raced = {} =>
       /\ total = processed
       /\ \A k \in adding : loaded[k] = total
       /\ \A j, k \in adding : j = k

\* Nothing is counted before Build is called.
LEMMA InitSumInv == Init => SumInv
  BY DEF Init, SumInv, CounterTypes

\* Only Load and Count touch the counter, and only Count leaves a record.
LEMMA SumInvInductive == IInv /\ SumInv /\ [Next]_vars => SumInv'
  <1> SUFFICES ASSUME IInv, SumInv, [Next]_vars
               PROVE  SumInv'
    OBVIOUS
  <1> USE DEF countVars, callVars
  <1>0. pc \in [Calls -> {"idle", "read", "count", "close", "open", "oldest", "emit"}]
    BY Zenon DEF IInv, LogTypes
  <1>1. ASSUME NEW k \in Calls, Load(k)
        PROVE  SumInv'
    BY <1>0, <1>1, SMTT(30) DEF Load, At, SumInv, CounterTypes
  <1>2. ASSUME NEW k \in Calls, Count(k)
        PROVE  SumInv'
    <2>1. /\ k \in adding /\ adding' = adding \ {k} /\ raced' = raced
          /\ processed' = processed + 1 /\ total' = loaded[k] + 1
          /\ loaded' = [loaded EXCEPT ![k] = 0]
          /\ \A j \in Calls : j # k => pc'[j] = pc[j]
      BY <1>0, <1>2 DEF Count, Goes, At
    <2> QED
      BY <2>1, SMTT(30) DEF SumInv, CounterTypes
  <1>3. ASSUME UNCHANGED <<processed, total, adding, loaded, raced>>,
               \A k \in Calls : pc[k] = "count" => pc'[k] = "count"
        PROVE  SumInv'
    BY <1>3, Zenon DEF SumInv, CounterTypes
  <1>4. CASE Write \/ Clear \/ Build \/ MapRace \/ Close \/ UNCHANGED vars
    BY <1>3, <1>4, Zenon DEF Write, Clear, Build, MapRace, Close, vars
  <1>5. ASSUME NEW k \in Calls,
               \/ Begin(k) \/ Timeout(k) \/ ReadBatch(k) \/ ReadEnds(k) \/ ReadChanged(k)
               \/ CloseHandle(k) \/ OpenAgain(k) \/ AskOldest(k) \/ Emit(k)
        PROVE  SumInv'
    <2>1. UNCHANGED <<processed, total, adding, loaded, raced>>
      BY <1>5, Zenon
         DEF Begin, Timeout, ReadBatch, ReadEnds, ReadChanged, CloseHandle, OpenAgain,
             AskOldest, Emit
    <2>2. pc' = pc \/ (pc[k] # "count" /\ \E p : pc' = [pc EXCEPT ![k] = p])
      BY <1>5, Zenon
         DEF Begin, Timeout, ReadBatch, ReadEnds, ReadChanged, CloseHandle, OpenAgain,
             AskOldest, Emit, At, Goes
    <2>3. \A j \in Calls : pc[j] = "count" => pc'[j] = "count"
      BY <1>0, <2>2
    <2> QED
      BY <1>3, <2>1, <2>3
  <1> QED
    BY <1>1, <1>2, <1>4, <1>5, Zenon DEF Next, Step

\* Both invariants hold in every reachable state.
LEMMA SumInvAlways == Spec => [](IInv /\ SumInv)
  <1>1. IInv /\ SumInv /\ [Next]_vars => (IInv /\ SumInv)'
    BY IInvInductive, SumInvInductive
  <1> QED
    BY <1>1, InitIInv, InitSumInv, PTL DEF Spec

-----------------------------------------------------------------------------
\* Every variable keeps its type, and a call that counts has a record to count.
THEOREM TypeCorrect == Spec => []TypeOK
  BY SumInvAlways, PTL DEF IInv, SumInv, TypeOK

\* However calls, reopening, clearing and faults interleave, the collector leaves
\* out no record of the log that the handle has passed.
THEOREM NoRecordIsSkipped == Spec => []NoneSkipped
  <1>1. IInv => NoneSkipped
    BY SMTT(30) DEF IInv, SkipInv, Taken, NoneSkipped
  <1> QED
    BY <1>1, IInvAlways, PTL

\* A record is counted once, as long as no two calls reopen the log at a time.
THEOREM RecordsAreCountedOnce == Spec => []CountedOnce
  <1>1. IInv => CountedOnce
    BY EventLogAssumption DEF IInv, OnceInv, CountedOnce, Records, LogTypes
  <1> QED
    BY <1>1, IInvAlways, PTL

\* As long as no two calls reopen the log at a time, no handle is lost, and Close
\* leaves none open.
THEOREM HandlesAreReleased == Spec => []NoHandleLeak
  BY IInvAlways, PTL DEF IInv

\* The counter shows what was processed as long as no two calls have been adding
\* at a time, and never more.
THEOREM TotalsAreExact == Spec => []TotalIsExact
  <1>1. SumInv => TotalIsExact
    BY Zenon DEF SumInv, TotalIsExact
  <1> QED
    BY <1>1, SumInvAlways, PTL

\* The counters and the maps of counts are raced for only after a scrape has timed
\* out.
THEOREM RacesNeedATimeout == Spec => RaceNeedsTimeout
  <1>1. IInv /\ SumInv /\ [Next]_vars
          => [raced' # raced \/ (phase' = "crashed" /\ phase = "serve") => late # {}]_vars
    <2> SUFFICES ASSUME IInv, SumInv, Next,
                        raced' # raced \/ (phase' = "crashed" /\ phase = "serve")
                 PROVE  late # {}
      BY Zenon
    <2> USE DEF countVars
    <2>1. ASSUME NEW j \in Calls, NEW k \in Calls, j # k, pc[j] # "idle", pc[k] # "idle"
          PROVE  late # {}
      BY <2>1, Zenon DEF IInv, CallInv
    <2>2. CASE MapRace
      BY <2>1, <2>2, Zenon DEF MapRace
    <2>3. ASSUME NEW k \in Calls, Load(k)
          PROVE  late # {}
      <3>1. adding # {} /\ k \notin adding /\ pc[k] = "count"
        BY <2>3, Zenon DEF Load, At
      <3>2. PICK j \in adding : j # k
        BY <3>1, Zenon
      <3>3. j \in Calls /\ pc[j] = "count"
        BY <3>2, Zenon DEF SumInv, CounterTypes
      <3> QED
        BY <2>1, <3>1, <3>2, <3>3
    <2>4. ~MapRace /\ (\A k \in Calls : ~Load(k)) => raced' = raced /\ (phase' # phase => phase' # "crashed")
      BY Zenon
         DEF Next, Step, Write, Clear, Build, Close, Begin, Timeout, ReadBatch, ReadEnds,
             ReadChanged, Count, CloseHandle, OpenAgain, AskOldest, Emit
    <2> QED
      BY <2>2, <2>3, <2>4
  <1> QED
    BY <1>1, SumInvAlways, PTL DEF Spec, RaceNeedsTimeout

\* A log that could not be opened again stays unread, whatever calls are under way:
\* the handle 0 is invalid, and an invalid handle is not opened again.
THEOREM GivenUpForGood == Spec => DeadForGood
  <1>1. IInv /\ [Next]_vars => [phase = "serve" /\ Dead => Dead' /\ pos' = pos]_vars
    <2> SUFFICES ASSUME IInv, Next, phase = "serve", handle = NoHandle, Reopening = {}
                 PROVE  handle' = NoHandle /\ Reopening' = {} /\ pos' = pos
      BY Zenon DEF Dead
    <2> USE DEF logVars, handleVars, countVars, callVars
    <2>1. Invalid(handle) /\ pc \in [Calls -> {"idle", "read", "count", "close", "open", "oldest", "emit"}]
      BY EventLogAssumption, Zenon DEF IInv, LogTypes, Invalid
    <2>2. \A k \in Calls : pc[k] \notin {"close", "open", "oldest"}
      BY DEF Reopening
    <2>3. CASE Write \/ Clear \/ Build \/ MapRace \/ Close
      BY <2>3, Zenon DEF Write, Clear, Build, MapRace, Close, Reopening
    <2>4. ASSUME NEW k \in Calls, Begin(k) \/ Timeout(k) \/ Step(k)
          PROVE  /\ handle' = handle /\ pos' = pos
                 /\ \/ pc' = pc
                    \/ \E p \in {"idle", "read", "count", "emit"} : pc' = [pc EXCEPT ![k] = p]
      BY <2>1, <2>2, <2>4, ZenonT(30)
         DEF Begin, Timeout, Step, ReadBatch, ReadEnds, ReadChanged, Load, Count,
             CloseHandle, OpenAgain, AskOldest, Emit, At, Goes
    <2>5. ASSUME NEW k \in Calls, NEW p \in {"idle", "read", "count", "emit"},
                 pc' = [pc EXCEPT ![k] = p]
          PROVE  Reopening' = {}
      BY <2>1, <2>2, <2>5 DEF Reopening
    <2>6. pc' = pc => Reopening' = {}
      BY DEF Reopening
    <2> QED
      BY <2>3, <2>4, <2>5, <2>6, Zenon DEF Next
  <1> QED
    BY <1>1, IInvAlways, PTL DEF Spec, DeadForGood
=============================================================================
