---------------------------- MODULE SpfreshProofs ----------------------------
(***************************************************************************)
(* Proofs about the trace generator and the SPFresh driver, for any sizes  *)
(* of base, pool, epochs and steps, in both modes, whatever calls of the   *)
(* index fail and however it hands out positions.                          *)
(***************************************************************************)
EXTENDS SpfreshDriver, FiniteSetTheorems, TLAPS

USE WorkloadAssumption, DriverAssumption

LEMMA TakeFits ==
  ASSUME poolCursor \in 0 .. PoolN
  PROVE  Take \in Nat /\ Take <= InsPer /\ poolCursor + Take \in 0 .. PoolN
  BY DEF Take

LEMMA FreshIds ==
  ASSUME poolCursor \in 0 .. PoolN
  PROVE  /\ Fresh \subseteq Gids
         /\ \A g \in Fresh : g \in Nat /\ BaseN + poolCursor <= g /\ g < BaseN + poolCursor + Take
  <1>1. Take \in Nat /\ poolCursor + Take <= PoolN
    BY TakeFits
  <1>2. QED
    BY <1>1 DEF Fresh, Gids

LEMMA SamplesLive ==
  ASSUME NEW dels \in Samples
  PROVE  dels \subseteq live
  BY DEF Samples, kSubset

LEMMA TraceTyped ==
  ASSUME TypeOKWorkload, NEW k \in DOMAIN trace
  PROVE  /\ trace[k].dels \subseteq Gids /\ trace[k].inss \subseteq Gids
         /\ DOMAIN trace = 1 .. Len(trace) /\ Len(trace) \in Nat
<1> DEFINE Entry == [dels : SUBSET Gids, inss : SUBSET Gids, active : SUBSET (Gids \cup NoTruth)]
<1>1. trace \in Seq(Entry)
  BY DEF TypeOKWorkload
<1> HIDE DEF Entry
<1>2. trace[k] \in Entry /\ DOMAIN trace = 1 .. Len(trace) /\ Len(trace) \in Nat
  BY <1>1
<1>3. QED
  BY <1>2 DEF Entry

\* What a step of the generator does to the trace.
LEMMA Generated ==
  ASSUME TypeOKWorkload, Generate
  PROVE  /\ TypeOKWorkload'
         /\ Len(trace') = Len(trace) + 1
         /\ DOMAIN trace = 1 .. Len(trace) /\ DOMAIN trace' = 1 .. Len(trace) + 1
         /\ \A k \in DOMAIN trace : trace'[k] = trace[k]
         /\ trace'[Len(trace) + 1].inss = Fresh
         /\ trace'[Len(trace) + 1].dels \subseteq live
         /\ live' = (live \ trace'[Len(trace) + 1].dels) \cup Fresh
         /\ Checkpoint(Len(trace)) => trace'[Len(trace) + 1].active = live'
<1> DEFINE Entry == [dels : SUBSET Gids, inss : SUBSET Gids, active : SUBSET (Gids \cup NoTruth)]
<1>1. PICK dels \in Samples :
        /\ live' = (live \ dels) \cup Fresh
        /\ trace' = Append(trace, [dels |-> dels, inss |-> Fresh,
                                   active |-> IF Checkpoint(Len(trace)) THEN live' ELSE NoTruth])
  BY DEF Generate
<1>2. Fresh \subseteq Gids /\ dels \subseteq live /\ live \subseteq Gids
  BY FreshIds, SamplesLive DEF TypeOKWorkload
<1>3. live' \subseteq Gids
  BY <1>1, <1>2
<1>4. DEFINE e == [dels |-> dels, inss |-> Fresh,
                   active |-> IF Checkpoint(Len(trace)) THEN live' ELSE NoTruth]
<1>5. e \in Entry
  BY <1>2, <1>3
<1>6. trace \in Seq(Entry) /\ Len(trace) \in Nat /\ Len(trace) < NEpochs
  BY DEF TypeOKWorkload, Generate
<1>7. trace' = Append(trace, e)
  BY <1>1
<1> HIDE DEF e
<1>8. /\ trace' \in Seq(Entry) /\ Len(trace') = Len(trace) + 1
      /\ DOMAIN trace = 1 .. Len(trace) /\ DOMAIN trace' = 1 .. Len(trace) + 1
      /\ \A k \in DOMAIN trace : trace'[k] = trace[k]
      /\ trace'[Len(trace) + 1] = e
  BY <1>5, <1>6, <1>7
<1>9. poolCursor' \in 0 .. PoolN
  BY TakeFits DEF Generate, Advanced, TypeOKWorkload
<1>10. e.inss = Fresh /\ e.dels = dels /\ (Checkpoint(Len(trace)) => e.active = live')
  BY DEF e
<1>11. TypeOKWorkload'
  BY <1>3, <1>6, <1>8, <1>9 DEF TypeOKWorkload
<1>12. QED
  BY <1>1, <1>2, <1>8, <1>10, <1>11

-----------------------------------------------------------------------------
(***************************************************************************)
(* The ids handed out so far, and where the trace may mention them.        *)
(***************************************************************************)
Spent == 0 .. BaseN + poolCursor - 1

TraceInv ==
  /\ live \subseteq Spent
  /\ \A k \in DOMAIN trace :
       /\ \A g \in trace[k].inss : BaseN <= g /\ g < BaseN + poolCursor
       /\ trace[k].dels \subseteq Spent \ live
  /\ IdsOnce

LEMMA TraceInvGenerated ==
  ASSUME TypeOKWorkload, TraceInv, Generate
  PROVE  TraceInv'
<1> DEFINE n == Len(trace) + 1
           d == trace'[n].dels
<1>1. /\ n \in Nat /\ DOMAIN trace = 1 .. n - 1 /\ DOMAIN trace' = 1 .. n
      /\ \A k \in DOMAIN trace : trace'[k] = trace[k]
      /\ trace'[n].inss = Fresh /\ d \subseteq live /\ live' = (live \ d) \cup Fresh
  BY Generated DEF TypeOKWorkload
<1>2. poolCursor \in 0 .. PoolN /\ Take \in Nat /\ poolCursor' = poolCursor + Take
  BY TakeFits DEF Generate, Advanced, TypeOKWorkload
<1>3. \A g \in Fresh : g \in Nat /\ BaseN + poolCursor <= g /\ g < BaseN + poolCursor'
  BY <1>2, FreshIds
<1>4. \A g \in Spent : g \in Spent' /\ g \notin Fresh
  BY <1>2, <1>3 DEF Spent
<1>5. Fresh \subseteq Spent'
  BY <1>2, <1>3 DEF Spent
<1> HIDE DEF n, d
<1>6. live' \subseteq Spent'
  BY <1>1, <1>4, <1>5 DEF TraceInv
<1>7. ASSUME NEW k \in DOMAIN trace'
      PROVE  /\ \A g \in trace'[k].inss : BaseN <= g /\ g < BaseN + poolCursor'
             /\ trace'[k].dels \subseteq Spent' \ live'
  <2>1. CASE k = n
    <3>1. d \subseteq Spent' \ live'
      BY <1>1, <1>4 DEF TraceInv
    <3>2. trace'[k].dels = d
      BY <2>1 DEF d
    <3>3. QED
      BY <1>1, <1>2, <1>3, <2>1, <3>1, <3>2
  <2>2. CASE k # n
    <3>1. k \in DOMAIN trace /\ trace'[k] = trace[k]
      BY <1>1, <2>2
    <3>2. trace[k].dels \subseteq Spent \ live /\ \A g \in trace[k].inss : BaseN <= g /\ g < BaseN + poolCursor
      BY <3>1 DEF TraceInv
    <3>3. trace[k].dels \subseteq Spent' \ live'
      BY <1>1, <1>4, <3>2
    <3>4. ASSUME NEW g \in trace[k].inss PROVE g < BaseN + poolCursor'
      <4>1. g \in Int
        BY <3>1, TraceTyped DEF Gids
      <4>2. QED
        BY <1>2, <3>2, <4>1
    <3>5. QED
      BY <3>1, <3>2, <3>3, <3>4
  <2>3. QED
    BY <2>1, <2>2
<1>8. IdsOnce'
  <2> SUFFICES ASSUME NEW j \in DOMAIN trace', NEW k \in DOMAIN trace'
               PROVE  /\ j < k => trace'[j].dels \cap (trace'[k].dels \cup trace'[k].inss) = {}
                      /\ j < k => trace'[j].inss \cap trace'[k].inss = {}
                      /\ trace'[k].dels \cap trace'[k].inss = {}
                      /\ trace'[k].inss \cap (0 .. BaseN - 1) = {}
    BY DEF IdsOnce
  <2>1. CASE k # n
    <3>1. k \in DOMAIN trace /\ trace'[k] = trace[k]
      BY <1>1, <2>1
    <3>2. j < k => j \in DOMAIN trace /\ trace'[j] = trace[j]
      BY <1>1, <2>1
    <3>3. QED
      BY <3>1, <3>2 DEF TraceInv, IdsOnce
  <2>2. CASE k = n
    <3>1. trace'[k].inss = Fresh /\ trace'[k].dels \subseteq live
      BY <1>1, <2>2 DEF d
    <3>2. live \cap Fresh = {} /\ Fresh \cap (0 .. BaseN - 1) = {}
      BY <1>2, <1>3, <1>4 DEF TraceInv
    <3>3. ASSUME j < k
          PROVE  /\ trace'[j].dels \cap live = {} /\ trace'[j].dels \cap Fresh = {}
                 /\ trace'[j].inss \cap Fresh = {}
      <4>1. j \in DOMAIN trace /\ trace'[j] = trace[j]
        BY <1>1, <2>2, <3>3
      <4>2. trace[j].dels \subseteq Spent \ live
        BY <4>1 DEF TraceInv
      <4>3. \A g \in trace[j].inss : g \in Int /\ g < BaseN + poolCursor
        BY <4>1, TraceTyped DEF TraceInv, Gids
      <4>4. QED
        BY <1>2, <1>3, <1>4, <4>1, <4>2, <4>3
    <3>4. QED
      BY <3>1, <3>2, <3>3
  <2>3. QED
    BY <2>1, <2>2
<1>9. QED
  BY <1>6, <1>7, <1>8 DEF TraceInv

-----------------------------------------------------------------------------
LEMMA NamedFacts ==
  ASSUME NEW v \in Nat, NEW g \in Gids, \A u \in DOMAIN vid2gid : u \in Nat
  PROVE  /\ DOMAIN Named(v, g) = Widened(v) /\ v \in Widened(v) /\ Named(v, g)[v] = g
         /\ \A u \in Widened(v) : u \in Nat
         /\ \A u \in Widened(v) \ {v} :
              Named(v, g)[u] = IF u \in DOMAIN vid2gid THEN vid2gid[u] ELSE NoId
<1>1. v \in Widened(v) /\ \A u \in Widened(v) : u \in Nat
  BY DEF Widened
<1>2. QED
  BY <1>1 DEF Named

LEMMA CountedTyped ==
  ASSUME NEW ins \in 0 .. 1, NEW del \in 0 .. 1, {liveN, insDone, delDone} \subseteq Int,
         Counted(ins, del)
  PROVE  ({liveN, insDone, delDone} \subseteq Int)'
  BY DEF Counted

LEMMA TypeOKInit == Init => TypeOK
<1> SUFFICES ASSUME Init PROVE TypeOK
  OBVIOUS
<1> DEFINE Entry == [dels : SUBSET Gids, inss : SUBSET Gids, active : SUBSET (Gids \cup NoTruth)]
<1>1. trace \in Seq(Entry) /\ Len(trace) = 0
  BY DEF Init, InitWorkload
<1>2. TypeOKWorkload
  BY <1>1 DEF Init, InitWorkload, TypeOKWorkload, Gids
<1>3. gid2vid \in [Gids -> Nat \cup {NoId}] /\ isLive \in [Gids -> BOOLEAN]
  BY DEF Init, Gids
<1>4. \A v \in DOMAIN vid2gid : v \in Nat /\ vid2gid[v] \in Gids \cup {NoId}
  BY DEF Init, Gids
<1>5. QED
  BY <1>2, <1>3, <1>4 DEF Init, TypeOK

\* Driving starts when the trace is complete; the inserts left to do are this epoch's.
StageInv ==
  /\ Len(trace) < NEpochs => epoch = 0 /\ stage = "ready"
  /\ stage # "ready" => epoch < NEpochs
  /\ todoIns \subseteq (IF stage = "write" THEN trace[epoch + 1].inss ELSE {})

LEMMA FiniteLeaks ==
  ASSUME nextVid \in Nat, searchable \subseteq 0 .. nextVid - 1, NEW found \in SUBSET searchable
  PROVE  Cardinality(Leaks(found)) \in Nat
<1>1. IsFiniteSet(0 .. nextVid - 1)
  <2>1. 0 \in Int /\ nextVid - 1 \in Int
    OBVIOUS
  <2>2. QED
    BY <2>1, FS_Interval, Zenon
<1>2. Leaks(found) \in SUBSET (0 .. nextVid - 1)
  BY DEF Leaks
<1>3. QED
  BY <1>1, <1>2, FS_Subset, FS_CardinalityType

LEMMA TypeOKNext == TypeOK /\ StageInv /\ [Next]_vars => TypeOK'
<1> SUFFICES ASSUME TypeOK, StageInv, [Next]_vars
             PROVE  TypeOK'
  OBVIOUS
<1>1. CASE Prepare
  <2>1. TypeOKWorkload'
    BY <1>1, Generated DEF Prepare, TypeOK
  <2>2. UNCHANGED <<concurrent, epoch, stage, todoDel, todoIns, gid2vid, vid2gid, isLive, liveN,
                    insDone, delDone, delAppearTotal, searchable, nextVid, jobs>>
    BY <1>1 DEF Prepare, driverVars, mapVars, countVars, indexVars
  <2>3. QED
    BY <2>1, <2>2 DEF TypeOK
<1>2. ASSUME UNCHANGED workloadVars PROVE TypeOKWorkload'
  BY <1>2 DEF workloadVars, inputVars, TypeOKWorkload, TypeOK
<1>3. CASE BeginEpoch
  <2>1. epoch + 1 \in DOMAIN trace
    BY <1>3 DEF BeginEpoch, TypeOK, TypeOKWorkload
  <2>2. todoDel' \subseteq Gids /\ todoIns' \subseteq Gids
    BY <1>3, <2>1, TraceTyped DEF BeginEpoch, TypeOK
  <2>3. QED
    BY <1>2, <1>3, <2>2 DEF inputVars, BeginEpoch, TypeOK, mapVars, indexVars
<1>4. ASSUME NEW g \in Gids, SkipDelete(g) PROVE TypeOK'
  BY <1>2, <1>4 DEF inputVars, SkipDelete, Skipped, TypeOK, mapVars, countVars, indexVars
<1>5. ASSUME NEW g \in Gids, DeleteOne(g) PROVE TypeOK'
  <2>1. ({liveN, insDone, delDone} \subseteq Int)'
    BY <1>5, CountedTyped DEF DeleteOne, TypeOK
  <2>2. gid2vid' \in [Gids -> Nat \cup {NoId}] /\ isLive' \in [Gids -> BOOLEAN]
    BY <1>5 DEF DeleteOne, Forgotten, TypeOK
  <2>3. searchable' \subseteq searchable
    BY <1>5 DEF DeleteOne
  <2>4. QED
    BY <1>2, <1>5, <2>1, <2>2, <2>3 DEF inputVars, DeleteOne, TypeOK
<1>6. ASSUME NEW g \in Gids, InsertOne(g) PROVE TypeOK'
  <2>1. PICK v \in nextVid .. nextVid + VidGap, work \in 0 .. JobsPerAdd :
          /\ searchable' = searchable \cup {v}
          /\ nextVid' = v + 1
          /\ jobs' = jobs + work
          /\ gid2vid' = [gid2vid EXCEPT ![g] = v]
          /\ vid2gid' = Named(v, g)
    BY <1>6 DEF InsertOne
  <2>2. v \in Nat /\ work \in Nat /\ nextVid <= v
    BY DEF TypeOK
  <2>3. ({liveN, insDone, delDone} \subseteq Int)'
    BY <1>6, CountedTyped DEF InsertOne, TypeOK
  <2>4. gid2vid' \in [Gids -> Nat \cup {NoId}] /\ isLive' \in [Gids -> BOOLEAN]
    BY <1>6, <2>1, <2>2 DEF InsertOne, TypeOK
  <2>5. \A u \in DOMAIN vid2gid' : u \in Nat /\ vid2gid'[u] \in Gids \cup {NoId}
    BY <2>1, <2>2, NamedFacts DEF TypeOK
  <2>6. nextVid' \in Nat /\ searchable' \subseteq 0 .. nextVid' - 1 /\ jobs' \in Nat
    <3>1. nextVid \in Nat /\ jobs \in Nat /\ searchable \subseteq 0 .. nextVid - 1
      BY DEF TypeOK
    <3>2. nextVid' \in Nat /\ jobs' \in Nat
      BY <2>1, <2>2, <3>1
    <3>3. \A u \in searchable' : u \in 0 .. v
      BY <2>1, <2>2, <3>1
    <3>4. QED
      BY <2>1, <2>2, <3>2, <3>3
  <2>7. QED
    BY <1>2, <1>6, <2>3, <2>4, <2>5, <2>6 DEF inputVars, InsertOne, TypeOK
<1>7. ASSUME NEW g \in Gids, InsertFails(g) PROVE TypeOK'
  BY <1>2, <1>7 DEF inputVars, InsertFails, TypeOK, mapVars, countVars, indexVars
<1>8. CASE EndWrites
  <2>1. liveN' \in Int
    BY <1>8 DEF EndWrites, Tallied, TypeOK
  <2>2. QED
    BY <1>2, <1>8, <2>1 DEF inputVars, EndWrites, TypeOK, mapVars, indexVars
<1>9. CASE Measure
  <2>1. epoch' \in 0 .. NEpochs
    BY <1>9 DEF Measure, TypeOK, StageInv
  <2>2. delAppearTotal' \in Nat
    BY <1>9, FiniteLeaks DEF Measure, TypeOK
  <2>3. QED
    BY <1>2, <1>9, <2>1, <2>2 DEF inputVars, Measure, TypeOK, mapVars, countVars, indexVars
<1>10. CASE Job
  BY <1>2, <1>10 DEF inputVars, Job, TypeOK, mapVars, countVars
<1>11. CASE UNCHANGED vars
  BY <1>2, <1>11 DEF vars, driverVars, TypeOK, mapVars, countVars, indexVars
<1>12. QED
  BY <1>1, <1>3, <1>4, <1>5, <1>6, <1>7, <1>8, <1>9, <1>10, <1>11 DEF Next, Drive, Ended

-----------------------------------------------------------------------------
LEMMA StageInvNext == TypeOK /\ StageInv /\ [Next]_vars => StageInv'
<1> SUFFICES ASSUME TypeOK, StageInv, [Next]_vars
             PROVE  StageInv'
  OBVIOUS
<1> USE DEF StageInv
<1>1. CASE Prepare
  <2>1. Len(trace') = Len(trace) + 1 /\ Len(trace) < NEpochs /\ Len(trace) \in Nat
    BY <1>1, Generated DEF Prepare, Generate, TypeOK, TypeOKWorkload
  <2>2. epoch' = epoch /\ stage' = stage /\ todoIns' = todoIns
    BY <1>1 DEF Prepare, driverVars
  <2>3. QED
    BY <2>1, <2>2
<1>2. CASE BeginEpoch
  BY <1>2 DEF BeginEpoch, workloadVars, inputVars
<1>3. ASSUME NEW g \in Gids, SkipDelete(g) PROVE StageInv'
  BY <1>3 DEF SkipDelete, workloadVars, inputVars
<1>4. ASSUME NEW g \in Gids, DeleteOne(g) PROVE StageInv'
  BY <1>4 DEF DeleteOne, workloadVars, inputVars
<1>5. ASSUME NEW g \in Gids, InsertOne(g) PROVE StageInv'
  BY <1>5 DEF InsertOne, NextInsert, workloadVars, inputVars
<1>6. ASSUME NEW g \in Gids, InsertFails(g) PROVE StageInv'
  BY <1>6 DEF InsertFails, NextInsert, workloadVars, inputVars
<1>7. CASE EndWrites
  BY <1>7 DEF EndWrites, WritesLeft, workloadVars, inputVars
<1>8. CASE Measure
  BY <1>8 DEF Measure, workloadVars, inputVars, TypeOK
<1>9. CASE Job
  BY <1>9 DEF Job, workloadVars, inputVars
<1>10. CASE UNCHANGED vars
  BY <1>10 DEF vars, driverVars, workloadVars, inputVars
<1>11. QED
  BY <1>1, <1>2, <1>3, <1>4, <1>5, <1>6, <1>7, <1>8, <1>9, <1>10 DEF Next, Drive, Ended

LEMMA TraceInvNext == TypeOK /\ TraceInv /\ [Next]_vars => TraceInv'
<1> SUFFICES ASSUME TypeOK, TraceInv, [Next]_vars
             PROVE  TraceInv'
  OBVIOUS
<1>1. CASE Prepare
  BY <1>1, TraceInvGenerated DEF Prepare, TypeOK
<1>2. CASE UNCHANGED workloadVars
  BY <1>2 DEF workloadVars, inputVars, TraceInv, IdsOnce, Spent
<1>3. QED
  BY <1>1, <1>2 DEF inputVars, Next, Drive, Ended, vars, BeginEpoch, SkipDelete, DeleteOne, InsertOne,
     InsertFails, EndWrites, Measure, Job

(***************************************************************************)
(* The driver keeps one position per id, and trusts the trace not to       *)
(* insert an id again: the ids that vid2gid names are behind the replay.   *)
(***************************************************************************)
Behind == IF stage = "ready" THEN epoch ELSE epoch + 1
Upcoming == todoIns \cup UNION {trace[k].inss : k \in {k \in DOMAIN trace : k > Behind}}

NamesPast ==
  \A v \in DOMAIN vid2gid : vid2gid[v] # NoId =>
    /\ v < nextVid
    /\ vid2gid[v] \notin Upcoming
    /\ Len(trace) < NEpochs => vid2gid[v] < BaseN

MapShape ==
  /\ \A g \in Gids : gid2vid[g] < nextVid
  /\ \A v \in DOMAIN vid2gid : 0 .. v \subseteq DOMAIN vid2gid

\* No step of the driver makes an id upcoming.
LEMMA StaysPast ==
  ASSUME TypeOK, StageInv, [Next]_vars, UNCHANGED workloadVars
  PROVE  Upcoming' \subseteq Upcoming
<1>1. CASE BeginEpoch
  <2>1. epoch + 1 \in DOMAIN trace
    BY <1>1 DEF BeginEpoch, TypeOK, TypeOKWorkload
  <2>2. trace[epoch + 1].inss \subseteq Upcoming
    BY <1>1, <2>1 DEF BeginEpoch, Upcoming, Behind, TypeOK
  <2>3. QED
    BY <1>1, <2>2 DEF BeginEpoch, Upcoming, Behind, TypeOK, workloadVars, inputVars
<1>2. CASE todoIns' \subseteq todoIns /\ Behind' = Behind
  BY <1>2 DEF Upcoming, workloadVars, inputVars
<1>3. CASE ~BeginEpoch
  <2>1. Prepare => FALSE
    <3>1. SUFFICES ASSUME Prepare PROVE FALSE
      OBVIOUS
    <3>2. Len(trace') = Len(trace) + 1 /\ Len(trace) \in Nat
      BY <3>1, Generated DEF Prepare, TypeOK, TypeOKWorkload
    <3>3. QED
      BY <3>2 DEF workloadVars, inputVars
  <2>2. CASE Drive
    BY <1>2, <1>3, <2>2 DEF Drive, SkipDelete, DeleteOne, InsertOne, InsertFails, NextInsert, EndWrites,
       Measure, Behind
  <2>3. CASE Job \/ UNCHANGED vars
    BY <1>2, <2>3 DEF Job, vars, driverVars, Behind
  <2>4. QED
    BY <2>1, <2>2, <2>3 DEF Next, Ended
<1>4. QED
  BY <1>1, <1>3

MapInv == NamesPast /\ MapShape /\ MapsAgree /\ LeaksDetected

\* Most steps leave the maps and the index alone.
LEMMA MapInvQuiet ==
  ASSUME TypeOK, StageInv, MapInv, [Next]_vars,
         UNCHANGED <<gid2vid, vid2gid, isLive, searchable, nextVid>>
  PROVE  MapInv'
<1>1. MapShape' /\ MapsAgree' /\ LeaksDetected'
  BY DEF MapInv, MapShape, MapsAgree, LeaksDetected, Resolved
<1>2. ASSUME NEW v \in DOMAIN vid2gid, vid2gid[v] # NoId
      PROVE  vid2gid[v] \notin Upcoming' /\ (Len(trace)' < NEpochs => vid2gid[v] < BaseN)
  <2>1. CASE UNCHANGED workloadVars
    <3>1. vid2gid[v] \notin Upcoming
      BY <1>2 DEF MapInv, NamesPast
    <3>2. Upcoming' \subseteq Upcoming
      BY <2>1, StaysPast
    <3>3. QED
      BY <1>2, <2>1, <3>1, <3>2 DEF MapInv, NamesPast, workloadVars, inputVars
  <2>2. CASE Prepare
    <3>1. /\ Len(trace) \in Nat /\ Len(trace') = Len(trace) + 1
          /\ DOMAIN trace' = 1 .. Len(trace) + 1 /\ DOMAIN trace = 1 .. Len(trace)
          /\ \A k \in DOMAIN trace : trace'[k] = trace[k]
          /\ trace'[Len(trace) + 1].inss = Fresh
      BY <2>2, Generated DEF Prepare, TypeOK, TypeOKWorkload
    <3>2. Len(trace) < NEpochs
      BY <2>2 DEF Prepare, Generate
    <3>3. vid2gid[v] < BaseN /\ vid2gid[v] \notin Upcoming /\ vid2gid[v] \in Int
      BY <1>2, <3>2 DEF MapInv, NamesPast, TypeOK, Gids
    <3>4. vid2gid[v] \notin Fresh
      BY <3>3, FreshIds DEF TypeOK, TypeOKWorkload
    <3>5. Behind' = Behind /\ todoIns' = todoIns
      BY <2>2 DEF Prepare, driverVars, Behind
    <3>6. vid2gid[v] \notin Upcoming'
      BY <3>1, <3>3, <3>4, <3>5 DEF Upcoming
    <3>7. QED
      BY <3>3, <3>6
  <2>3. QED
    BY <2>1, <2>2 DEF inputVars, Next, Drive, Ended, vars, BeginEpoch, SkipDelete, DeleteOne, InsertOne,
       InsertFails, EndWrites, Measure, Job
<1>3. NamesPast'
  BY <1>2 DEF MapInv, NamesPast
<1>4. QED
  BY <1>1, <1>3 DEF MapInv

LEMMA MapInvDelete ==
  ASSUME TypeOK, StageInv, MapInv, [Next]_vars, NEW g \in Gids, DeleteOne(g)
  PROVE  MapInv'
<1>1. /\ gid2vid' = [gid2vid EXCEPT ![g] = NoId] /\ isLive' = [isLive EXCEPT ![g] = FALSE]
      /\ UNCHANGED <<workloadVars, vid2gid, nextVid>> /\ searchable' \subseteq searchable
  BY DEF inputVars, DeleteOne, Forgotten
<1>2. MapsAgree'
  BY <1>1 DEF MapInv, MapsAgree, TypeOK
<1>3. MapShape'
  BY <1>1 DEF MapInv, MapShape, TypeOK, NoId
<1>4. LeaksDetected'
  <2> SUFFICES ASSUME NEW v \in searchable'
               PROVE  /\ Resolved(v)' # NoId
                      /\ gid2vid'[Resolved(v)'] = v \/ ~isLive'[Resolved(v)']
    BY DEF LeaksDetected
  <2>1. Resolved(v)' = Resolved(v) /\ Resolved(v) # NoId
    BY <1>1 DEF MapInv, LeaksDetected, Resolved
  <2>2. Resolved(v) \in Gids
    BY <2>1 DEF Resolved, TypeOK
  <2>3. gid2vid[Resolved(v)] = v \/ ~isLive[Resolved(v)]
    BY <1>1 DEF MapInv, LeaksDetected
  <2>4. QED
    BY <1>1, <2>1, <2>2, <2>3 DEF TypeOK
<1>5. NamesPast'
  <2>1. Upcoming' \subseteq Upcoming
    BY <1>1, StaysPast
  <2>2. QED
    BY <1>1, <2>1 DEF MapInv, NamesPast, workloadVars, inputVars
<1>6. QED
  BY <1>2, <1>3, <1>4, <1>5 DEF MapInv

\* An id that is about to be inserted is named by no position, so it is not live either.
LEMMA Unnamed ==
  ASSUME TypeOK, MapInv, NEW g \in Gids, NextInsert(g)
  PROVE  /\ \A v \in DOMAIN vid2gid : vid2gid[v] # g
         /\ ~isLive[g]
<1>1. g \in Upcoming /\ g # NoId
  BY DEF NextInsert, Upcoming, Gids, NoId
<1>2. \A v \in DOMAIN vid2gid : vid2gid[v] # g
  BY <1>1 DEF MapInv, NamesPast
<1>3. QED
  BY <1>2 DEF MapInv, MapsAgree, TypeOK

LEMMA MapInvInsert ==
  ASSUME TypeOK, StageInv, TraceInv, MapInv, [Next]_vars, NEW g \in Gids, InsertOne(g)
  PROVE  MapInv'
<1>1. PICK v \in nextVid .. nextVid + VidGap :
        /\ searchable' = searchable \cup {v}
        /\ nextVid' = v + 1
        /\ gid2vid' = [gid2vid EXCEPT ![g] = v]
        /\ vid2gid' = Named(v, g)
  BY DEF InsertOne
<1>2. /\ isLive' = [isLive EXCEPT ![g] = TRUE] /\ UNCHANGED workloadVars
      /\ stage = "write" /\ stage' = "write" /\ epoch' = epoch
      /\ todoIns' = todoIns \ {g} /\ g \in todoIns
  BY DEF inputVars, InsertOne, NextInsert
<1>3. /\ \A u \in DOMAIN vid2gid : vid2gid[u] # g
      /\ ~isLive[g]
  BY Unnamed DEF InsertOne
<1>4. v \in Nat /\ nextVid <= v /\ v # NoId /\ nextVid \in Nat /\ g # NoId
  BY DEF TypeOK, NoId, Gids
<1>5. /\ DOMAIN vid2gid' = Widened(v) /\ v \in Widened(v) /\ vid2gid'[v] = g
      /\ \A u \in Widened(v) : u \in Nat
      /\ \A u \in Widened(v) \ {v} :
           vid2gid'[u] = IF u \in DOMAIN vid2gid THEN vid2gid[u] ELSE NoId
  <2>1. \A u \in DOMAIN vid2gid : u \in Nat
    BY DEF TypeOK
  <2>2. QED
    BY <1>1, <1>4, <2>1, NamedFacts
<1>6. DOMAIN vid2gid \subseteq Widened(v)
  <2> SUFFICES ASSUME v \notin DOMAIN vid2gid, NEW u \in DOMAIN vid2gid
               PROVE  u \in 0 .. v + Growth - 1
    BY DEF Widened
  <2>1. u \in Nat /\ 0 .. u \subseteq DOMAIN vid2gid
    BY DEF MapInv, MapShape, TypeOK
  <2>2. v \notin 0 .. u
    BY <2>1
  <2>3. QED
    BY <1>4, <2>1, <2>2
<1>7. \A u \in DOMAIN vid2gid : u # v => vid2gid'[u] = vid2gid[u]
  BY <1>5, <1>6
<1>8. MapShape'
  <2>1. \A h \in Gids : gid2vid'[h] < nextVid'
    BY <1>1, <1>4 DEF MapInv, MapShape, TypeOK, NoId
  <2>2. \A u \in Widened(v) : 0 .. u \subseteq Widened(v)
    BY <1>4 DEF Widened, MapInv, MapShape
  <2>3. QED
    BY <1>5, <2>1, <2>2 DEF MapShape
<1>9. MapsAgree'
  <2> SUFFICES ASSUME NEW h \in Gids
               PROVE  /\ isLive'[h] <=> gid2vid'[h] # NoId
                      /\ isLive'[h] => gid2vid'[h] \in DOMAIN vid2gid' /\ vid2gid'[gid2vid'[h]] = h
    BY DEF MapsAgree
  <2>1. CASE h = g
    BY <1>1, <1>2, <1>4, <1>5, <2>1 DEF TypeOK
  <2>2. CASE h # g
    <3>1. isLive'[h] = isLive[h] /\ gid2vid'[h] = gid2vid[h]
      BY <1>1, <1>2, <2>2 DEF TypeOK
    <3>2. gid2vid[h] # v
      BY <1>4 DEF MapInv, MapShape, TypeOK, NoId
    <3>3. QED
      BY <1>5, <1>6, <1>7, <3>1, <3>2 DEF MapInv, MapsAgree
  <2>3. QED
    BY <2>1, <2>2
<1>10. LeaksDetected'
  <2> SUFFICES ASSUME NEW u \in searchable'
               PROVE  /\ Resolved(u)' # NoId
                      /\ gid2vid'[Resolved(u)'] = u \/ ~isLive'[Resolved(u)']
    BY DEF LeaksDetected
  <2>1. CASE u = v
    <3>1. Resolved(u)' = g
      BY <1>5, <2>1 DEF Resolved
    <3>2. QED
      BY <1>1, <1>4, <2>1, <3>1 DEF TypeOK
  <2>2. CASE u # v
    <3>1. u \in searchable /\ Resolved(u) # NoId
      BY <1>1, <2>2 DEF MapInv, LeaksDetected
    <3>2. u \in DOMAIN vid2gid /\ Resolved(u) = vid2gid[u] /\ Resolved(u) \in Gids
      BY <3>1 DEF Resolved, TypeOK
    <3>3. Resolved(u)' = Resolved(u) /\ Resolved(u) # g
      BY <1>3, <1>5, <1>6, <1>7, <2>2, <3>2 DEF Resolved
    <3>4. gid2vid[Resolved(u)] = u \/ ~isLive[Resolved(u)]
      BY <3>1 DEF MapInv, LeaksDetected
    <3>5. QED
      BY <1>1, <1>2, <3>1, <3>2, <3>3, <3>4 DEF TypeOK
  <2>3. QED
    BY <2>1, <2>2
<1>11. NamesPast'
  <2>1. g \notin Upcoming'
    <3>1. epoch + 1 \in DOMAIN trace /\ DOMAIN trace = 1 .. Len(trace) /\ g \in trace[epoch + 1].inss
      BY <1>2 DEF StageInv, TypeOK, TypeOKWorkload
    <3>2. \A k \in DOMAIN trace : k > epoch + 1 => g \notin trace[k].inss
      BY <3>1 DEF TraceInv, IdsOnce
    <3>3. QED
      BY <1>2, <3>2 DEF Upcoming, Behind, workloadVars, inputVars
  <2>2. ~(Len(trace') < NEpochs)
    BY <1>2 DEF StageInv, workloadVars, inputVars
  <2>3. ASSUME NEW u \in DOMAIN vid2gid, u # v, vid2gid[u] # NoId
        PROVE  u < nextVid' /\ vid2gid[u] \notin Upcoming'
    <3>1. u < nextVid /\ vid2gid[u] \notin Upcoming /\ u \in Nat
      BY <2>3 DEF MapInv, NamesPast, TypeOK
    <3>2. Upcoming' \subseteq Upcoming
      BY <1>2, StaysPast
    <3>3. QED
      BY <1>1, <1>4, <1>7, <2>3, <3>1, <3>2
  <2>4. QED
    BY <1>1, <1>4, <1>5, <1>7, <2>1, <2>2, <2>3 DEF NamesPast
<1>12. QED
  BY <1>8, <1>9, <1>10, <1>11 DEF MapInv

LEMMA MapInvNext == TypeOK /\ StageInv /\ TraceInv /\ MapInv /\ [Next]_vars => MapInv'
<1> SUFFICES ASSUME TypeOK, StageInv, TraceInv, MapInv, [Next]_vars
             PROVE  MapInv'
  OBVIOUS
<1>1. ASSUME NEW g \in Gids, DeleteOne(g) PROVE MapInv'
  BY <1>1, MapInvDelete
<1>2. ASSUME NEW g \in Gids, InsertOne(g) PROVE MapInv'
  BY <1>2, MapInvInsert
<1>3. CASE UNCHANGED <<gid2vid, vid2gid, isLive, searchable, nextVid>>
  BY <1>3, MapInvQuiet
<1>4. QED
  BY <1>1, <1>2, <1>3 DEF Next, Drive, Ended, Prepare, BeginEpoch, SkipDelete, InsertFails, EndWrites,
     Measure, Job, vars, driverVars, mapVars, indexVars

-----------------------------------------------------------------------------
\* The counters and the number of live ids, also in the middle of an epoch.
CountInv ==
  /\ stage # "write" \/ concurrent => liveN = Cardinality(LiveIds)
  /\ stage = "write" /\ ~concurrent => liveN + insDone - delDone = Cardinality(LiveIds)

LEMMA LiveIdsFinite == IsFiniteSet(LiveIds) /\ Cardinality(LiveIds) \in Nat
<1>1. IsFiniteSet(Gids)
  <2>1. 0 \in Int /\ BaseN + PoolN - 1 \in Int
    OBVIOUS
  <2>2. QED
    BY <2>1, FS_Interval, Zenon DEF Gids
<1>2. LiveIds \in SUBSET Gids
  BY DEF LiveIds
<1>3. QED
  BY <1>1, <1>2, FS_Subset, FS_CardinalityType

LEMMA CountInvNext == TypeOK /\ MapInv /\ CountInv /\ [Next]_vars => CountInv'
<1> SUFFICES ASSUME TypeOK, MapInv, CountInv, [Next]_vars
             PROVE  CountInv'
  OBVIOUS
<1>1. ASSUME NEW g \in Gids, DeleteOne(g) PROVE CountInv'
  <2>1. isLive[g] /\ isLive' = [isLive EXCEPT ![g] = FALSE]
    BY <1>1 DEF DeleteOne, MapInv, MapsAgree
  <2>2. LiveIds' = LiveIds \ {g} /\ g \in LiveIds
    BY <2>1 DEF LiveIds, TypeOK
  <2>3. Cardinality(LiveIds') = Cardinality(LiveIds) - 1
    BY <2>2, LiveIdsFinite, FS_RemoveElement
  <2>4. Counted(0, 1) /\ concurrent' = concurrent /\ stage = "write" /\ stage' = "write"
    BY <1>1 DEF DeleteOne, inputVars
  <2>5. QED
    BY <2>3, <2>4, LiveIdsFinite DEF Counted, CountInv, TypeOK
<1>2. ASSUME NEW g \in Gids, InsertOne(g) PROVE CountInv'
  <2>1. ~isLive[g] /\ isLive' = [isLive EXCEPT ![g] = TRUE]
    BY <1>2, Unnamed DEF InsertOne
  <2>2. LiveIds' = LiveIds \cup {g} /\ g \notin LiveIds
    BY <2>1 DEF LiveIds, TypeOK
  <2>3. Cardinality(LiveIds') = Cardinality(LiveIds) + 1
    BY <2>2, LiveIdsFinite, FS_AddElement
  <2>4. Counted(1, 0) /\ concurrent' = concurrent /\ stage = "write" /\ stage' = "write"
    BY <1>2 DEF InsertOne, NextInsert, inputVars
  <2>5. QED
    BY <2>3, <2>4, LiveIdsFinite DEF Counted, CountInv, TypeOK
<1>3. ASSUME UNCHANGED isLive PROVE LiveIds' = LiveIds
  BY <1>3 DEF LiveIds
<1>4. CASE BeginEpoch
  <2>1. LiveIds' = LiveIds
    BY <1>3, <1>4 DEF BeginEpoch, mapVars
  <2>2. liveN' = liveN /\ insDone' = 0 /\ delDone' = 0 /\ stage = "ready"
    BY <1>4 DEF BeginEpoch
  <2>3. QED
    BY <2>1, <2>2 DEF CountInv, TypeOK
<1>5. CASE EndWrites
  <2>1. LiveIds' = LiveIds
    BY <1>3, <1>5 DEF EndWrites, mapVars
  <2>2. stage = "write" /\ stage' = "measure" /\ liveN' = Tallied
    BY <1>5 DEF EndWrites
  <2>3. QED
    BY <2>1, <2>2 DEF CountInv, Tallied
<1>6. CASE Measure
  <2>1. LiveIds' = LiveIds
    BY <1>3, <1>6 DEF Measure, mapVars
  <2>2. QED
    BY <1>6, <2>1 DEF Measure, CountInv, countVars
<1>7. CASE UNCHANGED <<concurrent, isLive, stage, liveN, insDone, delDone>>
  BY <1>3, <1>7 DEF CountInv
<1>8. QED
  BY <1>1, <1>2, <1>4, <1>5, <1>6, <1>7 DEF Next, Drive, Ended, Prepare, SkipDelete, InsertFails, Job,
     vars, driverVars, inputVars, mapVars, countVars

-----------------------------------------------------------------------------
\* The inductive invariant.
IInv == TypeOK /\ StageInv /\ TraceInv /\ MapInv /\ CountInv

LEMMA Initially == Init => IInv
<1> SUFFICES ASSUME Init PROVE IInv
  OBVIOUS
<1>1. TypeOK
  BY TypeOKInit
<1>2. StageInv
  BY DEF Init, StageInv
<1>3. TraceInv
  BY DEF Init, InitWorkload, TraceInv, IdsOnce, Spent
<1>4. Upcoming = {}
  BY DEF Init, InitWorkload, Upcoming
<1>5. NamesPast /\ MapShape
  BY <1>4 DEF Init, NamesPast, MapShape, NoId, Gids
<1>6. MapsAgree /\ LeaksDetected
  <2>1. \A v \in 0 .. BaseN - 1 : v \in Gids /\ gid2vid[v] = v /\ isLive[v]
    <3>1. \A v \in 0 .. BaseN - 1 : v \in Gids /\ v < BaseN
      BY DEF Gids
    <3>2. \A g \in Gids : g < BaseN => gid2vid[g] = g
      BY DEF Init
    <3>3. \A g \in Gids : isLive[g] = (g < BaseN)
      BY Zenon DEF Init
    <3>4. QED
      BY <3>1, <3>2, <3>3
  <2>2. \A g \in Gids \ (0 .. BaseN - 1) : gid2vid[g] = NoId /\ ~isLive[g]
    <3>1. \A g \in Gids \ (0 .. BaseN - 1) : ~(g < BaseN)
      BY DEF Gids
    <3>2. \A g \in Gids : ~(g < BaseN) => gid2vid[g] = NoId
      BY DEF Init
    <3>3. \A g \in Gids : isLive[g] = (g < BaseN)
      BY Zenon DEF Init
    <3>4. QED
      BY <3>1, <3>2, <3>3
  <2>3. \A v \in 0 .. BaseN - 1 : v \in DOMAIN vid2gid /\ vid2gid[v] = v /\ v # NoId
    BY DEF Init, NoId
  <2>4. MapsAgree
    BY <2>1, <2>2, <2>3 DEF MapsAgree
  <2>5. searchable = 0 .. BaseN - 1
    BY DEF Init
  <2>6. LeaksDetected
    BY <2>1, <2>3, <2>5 DEF LeaksDetected, Resolved
  <2>7. QED
    BY <2>4, <2>6
<1>7. LiveIds = 0 .. BaseN - 1
  <2>1. isLive = [g \in Gids |-> g < BaseN]
    BY DEF Init
  <2>2. LiveIds = {g \in Gids : g < BaseN}
    BY <2>1 DEF LiveIds
  <2>3. QED
    BY <2>2 DEF Gids
<1>8. Cardinality(LiveIds) = BaseN
  <2>1. 0 \in Int /\ BaseN - 1 \in Int
    OBVIOUS
  <2>2. Cardinality(0 .. BaseN - 1) = IF 0 > BaseN - 1 THEN 0 ELSE BaseN - 1 - 0 + 1
    BY <2>1, FS_Interval, Zenon
  <2>3. QED
    BY <1>7, <2>2
<1>9. CountInv
  BY <1>8 DEF Init, CountInv
<1>10. QED
  BY <1>1, <1>2, <1>3, <1>5, <1>6, <1>9 DEF IInv, MapInv

THEOREM Invariance == Spec => []IInv
<1>1. IInv /\ [Next]_vars => IInv'
  BY TypeOKNext, StageInvNext, TraceInvNext, MapInvNext, CountInvNext DEF IInv
<1>2. QED
  BY Initially, <1>1, PTL DEF Spec

\* Every variable keeps its type in any workload.
THEOREM TypeCorrect == Spec => []TypeOK
<1>1. IInv => TypeOK
  BY DEF IInv
<1>2. QED
  BY Invariance, <1>1, PTL

\* The trace never reuses an id (gen_workload.py: deletes are drawn from the live ids, inserts
\* are the next ids of the pool).
THEOREM TraceUnambiguous == Spec => []IdsOnce
<1>1. IInv => IdsOnce
  BY DEF IInv, TraceInv
<1>2. QED
  BY Invariance, <1>1, PTL

\* gid2vid, vid2gid and isLive agree after every call, failed or not.
THEOREM MapsCorrect == Spec => []MapsAgree
<1>1. IInv => MapsAgree
  BY DEF IInv, MapInv
<1>2. QED
  BY Invariance, <1>1, PTL

\* No searchable position escapes the check for deleted ids.
THEOREM NoHiddenLeak == Spec => []LeaksDetected
<1>1. IInv => LeaksDetected
  BY DEF IInv, MapInv
<1>2. QED
  BY Invariance, <1>1, PTL

\* The reported live_n is the number of live ids, whichever inserts failed.
THEOREM ReportExact == Spec => []LiveCounted
<1>1. IInv => LiveCounted
  BY DEF IInv, CountInv, LiveCounted
<1>2. QED
  BY Invariance, <1>1, PTL


\* The counter of deleted ids in results moves only when a position that is no live id's is
\* still searchable: there are no false alarms.
THEOREM NoFalseAlarm == Spec => LeaksReal
<1> DEFINE Alarm == delAppearTotal' # delAppearTotal
           Cause == \E v \in searchable : \A g \in LiveIds : gid2vid[g] # v
<1>1. IInv /\ [Next]_vars => (Alarm => Cause)
  <2> SUFFICES ASSUME IInv, [Next]_vars, Alarm PROVE Cause
    OBVIOUS
  <2>1. Measure /\ ~concurrent
    BY DEF Next, Drive, Ended, Prepare, BeginEpoch, SkipDelete, DeleteOne, InsertOne, InsertFails,
       EndWrites, Measure, Job, vars, driverVars
  <2>2. PICK found \in SUBSET searchable : delAppearTotal' = delAppearTotal + Cardinality(Leaks(found))
    BY <2>1 DEF Measure
  <2>3. PICK v \in found : Resolved(v) # NoId /\ ~isLive[Resolved(v)]
    <3>1. Leaks(found) # {}
      <4>1. Leaks(found) = {} => Cardinality(Leaks(found)) = 0
        BY FS_EmptySet
      <4>2. delAppearTotal \in Nat
        BY DEF IInv, TypeOK
      <4>3. QED
        BY <2>2, <4>1, <4>2
    <3>2. QED
      BY <3>1 DEF Leaks
  <2>4. \A g \in LiveIds : gid2vid[g] # v
    <3> SUFFICES ASSUME NEW g \in LiveIds, gid2vid[g] = v PROVE FALSE
      OBVIOUS
    <3>1. isLive[g] /\ v \in DOMAIN vid2gid /\ vid2gid[v] = g
      BY DEF LiveIds, IInv, MapInv, MapsAgree
    <3>2. QED
      BY <2>3, <3>1 DEF Resolved
  <2>5. QED
    BY <2>3, <2>4
<1>2. IInv /\ [Next]_vars => [Alarm => Cause]_vars
  BY <1>1
<1>3. QED
  BY Invariance, <1>2, PTL DEF Spec, LeaksReal

-----------------------------------------------------------------------------
(***************************************************************************)
(* What recall is measured over.  The trace side: an active set is the     *)
(* base and what was inserted, without what was deleted.  The driver side: *)
(* the live ids are those ever named, without what was deleted so far.     *)
(***************************************************************************)
Base == 0 .. BaseN - 1
Dropped(t, k) == UNION {t[j].dels : j \in {i \in DOMAIN t : i <= k}}
Added(t, k) == UNION {t[j].inss : j \in {i \in DOMAIN t : i <= k}}

ActiveInv ==
  /\ live = (Base \cup Added(trace, Len(trace))) \ Dropped(trace, Len(trace))
  /\ \A k \in DOMAIN trace :
       Checkpoint(k - 1) => trace[k].active = (Base \cup Added(trace, k)) \ Dropped(trace, k)

\* Deleted before this epoch, or in it so far; inserted before this epoch, or due in it.
Deleted ==
  Dropped(trace, epoch) \cup (IF stage = "ready" THEN {} ELSE trace[epoch + 1].dels \ todoDel)
Offered ==
  Base \cup Added(trace, epoch) \cup (IF stage = "ready" THEN {} ELSE trace[epoch + 1].inss)
NamedIds == EverNamed \ {NoId}

ReplayInv ==
  /\ todoDel \subseteq (IF stage = "write" THEN trace[epoch + 1].dels ELSE {})
  /\ LiveIds = NamedIds \ Deleted
  /\ NamedIds \subseteq Offered

\* One more entry adds its own lists to the sums, and sums over old entries stay.
LEMMA SumsStep ==
  \A t : \A k \in Nat :
    DOMAIN t \subseteq Int /\ k + 1 \in DOMAIN t =>
      /\ Dropped(t, k + 1) = Dropped(t, k) \cup t[k + 1].dels
      /\ Added(t, k + 1) = Added(t, k) \cup t[k + 1].inss
  BY DEF Dropped, Added

LEMMA SumsNone ==
  \A t : (\A j \in DOMAIN t : j \in Int /\ j > 0) => Dropped(t, 0) = {} /\ Added(t, 0) = {}
  BY DEF Dropped, Added

LEMMA SumsSame ==
  \A t, u, k :
    (\A j : j \in DOMAIN t /\ j <= k <=> j \in DOMAIN u /\ j <= k)
    /\ (\A j \in DOMAIN t : j <= k => t[j] = u[j])
      => Dropped(t, k) = Dropped(u, k) /\ Added(t, k) = Added(u, k)
<1> TAKE t, u, k
<1> DEFINE old(s) == {i \in DOMAIN s : i <= k}
<1> SUFFICES ASSUME \A j : j \in DOMAIN t /\ j <= k <=> j \in DOMAIN u /\ j <= k,
                    \A j \in DOMAIN t : j <= k => t[j] = u[j]
             PROVE  Dropped(t, k) = Dropped(u, k) /\ Added(t, k) = Added(u, k)
  OBVIOUS
<1>1. old(t) = old(u)
  OBVIOUS
<1>2. \A j \in old(t) : t[j] = u[j]
  OBVIOUS
<1> HIDE DEF old
<1>3. /\ UNION {t[j].dels : j \in old(t)} = UNION {u[j].dels : j \in old(u)}
      /\ UNION {t[j].inss : j \in old(t)} = UNION {u[j].inss : j \in old(u)}
  BY <1>1, <1>2
<1>4. QED
  BY <1>3 DEF Dropped, Added, old

LEMMA ActiveInvNext == TypeOK /\ TraceInv /\ ActiveInv /\ [Next]_vars => ActiveInv'
<1> SUFFICES ASSUME TypeOK, TraceInv, ActiveInv, [Next]_vars
             PROVE  ActiveInv'
  OBVIOUS
<1>1. CASE Prepare
  <2> DEFINE n == Len(trace)
  <2>1. TypeOKWorkload /\ Generate
    BY <1>1 DEF TypeOK, Prepare
  <2>2. /\ n \in Nat /\ Len(trace') = n + 1
        /\ DOMAIN trace = 1 .. n /\ DOMAIN trace' = 1 .. n + 1
        /\ \A k \in DOMAIN trace : trace'[k] = trace[k]
        /\ trace'[n + 1].inss = Fresh /\ trace'[n + 1].dels \subseteq live
        /\ live' = (live \ trace'[n + 1].dels) \cup Fresh
        /\ Checkpoint(n) => trace'[n + 1].active = live'
    BY <2>1, Generated DEF TypeOKWorkload
  <2>3. TraceInv'
    BY <2>1, TraceInvGenerated
  <2> HIDE DEF n
  <2>4. \A k \in 0 .. n : Dropped(trace', k) = Dropped(trace, k) /\ Added(trace', k) = Added(trace, k)
    <3> TAKE k \in 0 .. n
    <3>1. \A j : j \in DOMAIN trace' /\ j <= k <=> j \in DOMAIN trace /\ j <= k
      BY <2>2
    <3>2. \A j \in DOMAIN trace' : j <= k => trace'[j] = trace[j]
      BY <2>2
    <3>3. QED
      BY <3>1, <3>2, SumsSame
  <2>5. /\ Dropped(trace', n + 1) = Dropped(trace, n) \cup trace'[n + 1].dels
        /\ Added(trace', n + 1) = Added(trace, n) \cup Fresh
    <3>1. DOMAIN trace' \subseteq Int /\ n + 1 \in DOMAIN trace'
      BY <2>2
    <3>2. /\ Dropped(trace', n + 1) = Dropped(trace', n) \cup trace'[n + 1].dels
          /\ Added(trace', n + 1) = Added(trace', n) \cup trace'[n + 1].inss
      BY <2>2, <3>1, SumsStep
    <3>3. n \in 0 .. n
      BY <2>2
    <3>4. QED
      BY <2>2, <2>4, <3>2, <3>3
  <2>6. Fresh \cap Dropped(trace, n) = {}
    <3> SUFFICES ASSUME NEW g \in Fresh, NEW j \in DOMAIN trace, g \in trace[j].dels
                 PROVE  FALSE
      BY DEF Dropped
    <3>1. j \in DOMAIN trace' /\ n + 1 \in DOMAIN trace' /\ j < n + 1 /\ trace'[j] = trace[j]
      BY <2>2
    <3>2. trace'[j].dels \cap trace'[n + 1].inss = {}
      BY <2>3, <3>1 DEF TraceInv, IdsOnce
    <3>3. QED
      BY <2>2, <3>1, <3>2
  <2>7. Fresh \cap trace'[n + 1].dels = {}
    <3>1. trace'[n + 1].dels \cap trace'[n + 1].inss = {}
      BY <2>2, <2>3 DEF TraceInv, IdsOnce
    <3>2. QED
      BY <2>2, <3>1
  <2>8. live' = (Base \cup Added(trace', n + 1)) \ Dropped(trace', n + 1)
    <3>1. live = (Base \cup Added(trace, n)) \ Dropped(trace, n)
      BY DEF ActiveInv, n
    <3>2. QED
      BY <2>2, <2>5, <2>6, <2>7, <3>1
  <2>9. ASSUME NEW k \in DOMAIN trace', Checkpoint(k - 1)
        PROVE  trace'[k].active = (Base \cup Added(trace', k)) \ Dropped(trace', k)
    <3>1. CASE k = n + 1
      <4>1. k - 1 = n
        BY <2>2, <3>1
      <4>2. QED
        BY <2>2, <2>8, <2>9, <3>1, <4>1
    <3>2. CASE k # n + 1
      <4>1. k \in DOMAIN trace /\ k \in 0 .. n /\ trace'[k] = trace[k]
        BY <2>2, <3>2
      <4>2. QED
        BY <2>4, <2>9, <4>1 DEF ActiveInv
    <3>3. QED
      BY <3>1, <3>2
  <2>10. QED
    BY <2>2, <2>8, <2>9 DEF ActiveInv, Checkpoint
<1>2. CASE UNCHANGED <<live, trace>>
  BY <1>2 DEF ActiveInv, Checkpoint
<1>3. QED
  BY <1>1, <1>2 DEF Next, Drive, Ended, vars, workloadVars, inputVars, BeginEpoch, SkipDelete, DeleteOne,
     InsertOne, InsertFails, EndWrites, Measure, Job

\* A step that leaves names and live flags alone, in the same epoch, and only moves ids that are
\* not live from the deletes to do to the deletes done.
LEMMA ReplayQuiet ==
  ASSUME ReplayInv, UNCHANGED <<workloadVars, epoch, stage, isLive, vid2gid>>,
         todoDel' \subseteq todoDel, \A g \in todoDel \ todoDel' : g \notin LiveIds
  PROVE  ReplayInv'
<1>1. UNCHANGED trace /\ LiveIds' = LiveIds /\ NamedIds' = NamedIds /\ Offered' = Offered
  BY DEF workloadVars, LiveIds, NamedIds, EverNamed, Offered
<1>2. Deleted' = Deleted \cup (todoDel \ todoDel')
  BY <1>1 DEF Deleted, ReplayInv
<1>3. QED
  BY <1>1, <1>2 DEF ReplayInv

\* The ids an insert of the current epoch brings are not among the deleted ones.
LEMMA FreshOfEpoch ==
  ASSUME TypeOK, StageInv, TraceInv, NEW g \in Gids, NextInsert(g)
  PROVE  g \notin Deleted /\ g \in Offered
<1>1. PICK n : n = epoch + 1
  OBVIOUS
<1>2. n \in DOMAIN trace /\ g \in trace[n].inss /\ DOMAIN trace = 1 .. Len(trace) /\ stage = "write"
  BY <1>1 DEF NextInsert, StageInv, TypeOK, TypeOKWorkload
<1>3. \A j \in DOMAIN trace : j <= n => g \notin trace[j].dels
  BY <1>2 DEF TraceInv, IdsOnce
<1>4. epoch \in Int
  BY DEF TypeOK
<1>5. g \notin Dropped(trace, epoch)
  BY <1>1, <1>2, <1>3, <1>4 DEF Dropped
<1>6. QED
  BY <1>1, <1>2, <1>3, <1>5 DEF Deleted, Offered

LEMMA ReplayInsert ==
  ASSUME TypeOK, StageInv, TraceInv, MapInv, ReplayInv, NEW g \in Gids, InsertOne(g)
  PROVE  ReplayInv'
<1>1. PICK v \in nextVid .. nextVid + VidGap : vid2gid' = Named(v, g)
  BY DEF InsertOne
<1>2. /\ isLive' = [isLive EXCEPT ![g] = TRUE]
      /\ UNCHANGED <<trace, epoch, stage, todoDel>> /\ stage = "write"
  BY DEF InsertOne, NextInsert, inputVars, workloadVars
<1>3. g \notin Deleted /\ g \in Offered
  BY FreshOfEpoch DEF InsertOne
<1>4. v \in Nat /\ nextVid <= v /\ nextVid \in Nat /\ g # NoId
  BY DEF TypeOK, NoId, Gids
<1>5. /\ DOMAIN vid2gid' = Widened(v) /\ v \in Widened(v) /\ vid2gid'[v] = g
      /\ \A u \in Widened(v) \ {v} :
           vid2gid'[u] = IF u \in DOMAIN vid2gid THEN vid2gid[u] ELSE NoId
  <2>1. \A u \in DOMAIN vid2gid : u \in Nat
    BY DEF TypeOK
  <2>2. QED
    BY <1>1, <1>4, <2>1, NamedFacts
<1>6. v \in DOMAIN vid2gid => vid2gid[v] = NoId
  BY <1>4 DEF MapInv, NamesPast
<1>7. DOMAIN vid2gid \subseteq Widened(v)
  <2> SUFFICES ASSUME v \notin DOMAIN vid2gid, NEW u \in DOMAIN vid2gid
               PROVE  u \in 0 .. v + Growth - 1
    BY DEF Widened
  <2>1. u \in Nat /\ 0 .. u \subseteq DOMAIN vid2gid
    BY DEF MapInv, MapShape, TypeOK
  <2>2. v \notin 0 .. u
    BY <2>1
  <2>3. QED
    BY <1>4, <2>1, <2>2
<1>8. NamedIds' = NamedIds \cup {g}
  <2>1. \A u \in DOMAIN vid2gid : vid2gid[u] # NoId => u # v /\ u \in Widened(v) /\ vid2gid'[u] = vid2gid[u]
    BY <1>5, <1>6, <1>7
  <2>2. \A u \in DOMAIN vid2gid' :
          vid2gid'[u] # NoId => u = v \/ (u \in DOMAIN vid2gid /\ vid2gid'[u] = vid2gid[u])
    BY <1>5
  <2>3. QED
    BY <1>4, <1>5, <2>1, <2>2 DEF NamedIds, EverNamed
<1>9. LiveIds' = LiveIds \cup {g}
  BY <1>2 DEF LiveIds, TypeOK
<1>10. Deleted' = Deleted /\ Offered' = Offered
  BY <1>2 DEF Deleted, Offered
<1>11. QED
  BY <1>2, <1>3, <1>8, <1>9, <1>10 DEF ReplayInv

LEMMA ReplayInvNext ==
  TypeOK /\ StageInv /\ TraceInv /\ MapInv /\ ReplayInv /\ [Next]_vars => ReplayInv'
<1> SUFFICES ASSUME TypeOK, StageInv, TraceInv, MapInv, ReplayInv, [Next]_vars
             PROVE  ReplayInv'
  OBVIOUS
<1>0. epoch \in Nat /\ DOMAIN trace = 1 .. Len(trace) /\ Len(trace) \in Nat
  BY DEF TypeOK, TypeOKWorkload
<1>1. CASE Prepare
  <2>1. epoch = 0 /\ stage = "ready"
    BY <1>1 DEF Prepare, Generate, StageInv
  <2>2. epoch' = epoch /\ stage' = stage /\ todoDel' = todoDel /\ LiveIds' = LiveIds /\ NamedIds' = NamedIds
    BY <1>1 DEF Prepare, driverVars, mapVars, LiveIds, NamedIds, EverNamed
  <2>3. DOMAIN trace' = 1 .. Len(trace) + 1
    BY <1>1, Generated DEF Prepare, TypeOK
  <2>4. /\ Dropped(trace, 0) = {} /\ Added(trace, 0) = {}
        /\ Dropped(trace', 0) = {} /\ Added(trace', 0) = {}
    <3>1. \A j \in DOMAIN trace : j \in Int /\ j > 0
      BY <1>0
    <3>2. \A j \in DOMAIN trace' : j \in Int /\ j > 0
      BY <1>0, <2>3
    <3>3. QED
      BY <3>1, <3>2, SumsNone
  <2>5. QED
    BY <2>1, <2>2, <2>4 DEF ReplayInv, Deleted, Offered
<1>2. CASE BeginEpoch
  <2>1. /\ stage = "ready" /\ stage' = "write" /\ todoDel' = trace[epoch + 1].dels
        /\ UNCHANGED <<trace, epoch>> /\ LiveIds' = LiveIds /\ NamedIds' = NamedIds
    BY <1>2 DEF BeginEpoch, inputVars, workloadVars, mapVars, LiveIds, NamedIds, EverNamed
  <2>2. Deleted' = Deleted /\ Offered \subseteq Offered'
    BY <2>1 DEF Deleted, Offered
  <2>3. QED
    BY <2>1, <2>2 DEF ReplayInv
<1>3. ASSUME NEW g \in Gids, SkipDelete(g) PROVE ReplayInv'
  <2>1. ~isLive[g]
    BY <1>3 DEF SkipDelete, MapInv, MapsAgree
  <2>2. todoDel' = todoDel \ {g} /\ UNCHANGED <<workloadVars, epoch, stage, isLive, vid2gid>>
    BY <1>3 DEF SkipDelete, Skipped, inputVars, mapVars
  <2>3. g \notin LiveIds
    BY <2>1 DEF LiveIds
  <2>4. QED
    BY <2>2, <2>3, ReplayQuiet
<1>4. ASSUME NEW g \in Gids, DeleteOne(g) PROVE ReplayInv'
  <2>1. /\ isLive' = [isLive EXCEPT ![g] = FALSE] /\ todoDel' = todoDel \ {g}
        /\ UNCHANGED <<trace, epoch, stage, vid2gid>> /\ stage = "write" /\ g \in todoDel
    BY <1>4 DEF DeleteOne, inputVars, workloadVars
  <2>2. LiveIds' = LiveIds \ {g} /\ NamedIds' = NamedIds /\ Offered' = Offered
    BY <2>1 DEF LiveIds, NamedIds, EverNamed, Offered, TypeOK
  <2>3. Deleted' = Deleted \cup {g}
    BY <2>1 DEF Deleted, ReplayInv
  <2>4. QED
    BY <2>1, <2>2, <2>3 DEF ReplayInv
<1>5. ASSUME NEW g \in Gids, InsertOne(g) PROVE ReplayInv'
  BY <1>5, ReplayInsert
<1>6. CASE EndWrites
  <2>1. /\ stage = "write" /\ stage' = "measure" /\ todoDel' = todoDel /\ todoDel = {}
        /\ UNCHANGED <<trace, epoch>> /\ LiveIds' = LiveIds /\ NamedIds' = NamedIds
    BY <1>6 DEF EndWrites, WritesLeft, inputVars, workloadVars, mapVars, LiveIds, NamedIds, EverNamed
  <2>2. Deleted' = Deleted /\ Offered' = Offered
    BY <2>1 DEF Deleted, Offered
  <2>3. QED
    BY <2>1, <2>2 DEF ReplayInv
<1>7. CASE Measure
  <2>1. /\ stage = "measure" /\ stage' = "ready" /\ todoDel' = todoDel /\ epoch' = epoch + 1
        /\ UNCHANGED trace /\ LiveIds' = LiveIds /\ NamedIds' = NamedIds
    BY <1>7 DEF Measure, inputVars, workloadVars, mapVars, LiveIds, NamedIds, EverNamed
  <2>2. todoDel = {}
    BY <2>1 DEF ReplayInv
  <2>3. epoch + 1 \in DOMAIN trace /\ DOMAIN trace \subseteq Int
    BY <1>0, <2>1 DEF StageInv, TypeOK, TypeOKWorkload
  <2>4. /\ Dropped(trace, epoch + 1) = Dropped(trace, epoch) \cup trace[epoch + 1].dels
        /\ Added(trace, epoch + 1) = Added(trace, epoch) \cup trace[epoch + 1].inss
    BY <1>0, <2>3, SumsStep
  <2>5. Deleted' = Deleted /\ Offered' = Offered
    BY <2>1, <2>2, <2>4 DEF Deleted, Offered
  <2>6. QED
    BY <2>1, <2>2, <2>5 DEF ReplayInv
<1>8. CASE UNCHANGED <<workloadVars, epoch, stage, todoDel, isLive, vid2gid>>
  BY <1>8, ReplayQuiet
<1>9. QED
  BY <1>1, <1>2, <1>3, <1>4, <1>5, <1>6, <1>7, <1>8 DEF Next, Drive, Ended, InsertFails, Job, vars,
     driverVars, inputVars, mapVars

LEMMA ReplayInitially == Init => ActiveInv /\ ReplayInv
<1> SUFFICES ASSUME Init PROVE ActiveInv /\ ReplayInv
  OBVIOUS
<1>1. trace = <<>> /\ Len(trace) = 0 /\ DOMAIN trace = {} /\ live = Base
  BY DEF Init, InitWorkload, Base
<1>2. Dropped(trace, 0) = {} /\ Added(trace, 0) = {}
  BY <1>1 DEF Dropped, Added
<1>3. ActiveInv
  BY <1>1, <1>2 DEF ActiveInv
<1>4. Deleted = {} /\ Offered = Base /\ todoDel = {}
  BY <1>2 DEF Init, Deleted, Offered
<1>5. NamedIds = Base
  BY DEF Init, NamedIds, EverNamed, Base, NoId
<1>6. LiveIds = Base
  <2>1. \A g \in Gids : isLive[g] = (g < BaseN)
    BY Zenon DEF Init
  <2>2. \A g \in Base : g \in Gids /\ g < BaseN
    BY DEF Base, Gids
  <2>3. \A g \in Gids : g < BaseN => g \in Base
    BY DEF Base, Gids
  <2>4. QED
    BY <2>1, <2>2, <2>3 DEF LiveIds
<1>7. QED
  BY <1>3, <1>4, <1>5, <1>6 DEF ReplayInv

\* At a checkpoint recall is measured over the ids of the ground truth, less the failed inserts.
THEOREM RecallExact == Spec => []MeasuresActive
<1>1. IInv /\ ActiveInv /\ ReplayInv /\ [Next]_vars => (ActiveInv /\ ReplayInv)'
  BY ActiveInvNext, ReplayInvNext DEF IInv
<1>2. IInv /\ ActiveInv /\ ReplayInv => MeasuresActive
  <2> SUFFICES ASSUME IInv, ActiveInv, ReplayInv, stage = "measure", Checkpoint(epoch)
               PROVE  LiveIds = trace[epoch + 1].active \cap EverNamed
    BY DEF MeasuresActive
  <2>1. /\ epoch \in Nat /\ epoch + 1 \in DOMAIN trace /\ DOMAIN trace \subseteq Int
        /\ (epoch + 1) - 1 = epoch
    BY DEF IInv, StageInv, TypeOK, TypeOKWorkload
  <2>2. /\ Dropped(trace, epoch + 1) = Dropped(trace, epoch) \cup trace[epoch + 1].dels
        /\ Added(trace, epoch + 1) = Added(trace, epoch) \cup trace[epoch + 1].inss
    BY <2>1, SumsStep
  <2>3. trace[epoch + 1].active =
          (Base \cup Added(trace, epoch + 1)) \ Dropped(trace, epoch + 1)
    BY <2>1 DEF ActiveInv
  <2>4. /\ Deleted = Dropped(trace, epoch + 1)
        /\ Offered = Base \cup Added(trace, epoch + 1)
    BY <2>2 DEF Deleted, Offered, ReplayInv
  <2>5. NoId \notin trace[epoch + 1].active
    <3>1. NoId \notin Added(trace, epoch + 1)
      <4> SUFFICES ASSUME NEW j \in DOMAIN trace, NoId \in trace[j].inss PROVE FALSE
        BY DEF Added
      <4>1. NoId \in Gids
        BY TraceTyped DEF IInv, TypeOK
      <4>2. QED
        BY <4>1 DEF NoId, Gids
    <3>2. NoId \notin Base
      BY DEF NoId, Base
    <3>3. QED
      BY <2>3, <3>1, <3>2
  <2>6. LiveIds = NamedIds \ Deleted /\ NamedIds \subseteq Offered
    BY DEF ReplayInv
  <2>7. QED
    BY <2>3, <2>4, <2>5, <2>6 DEF NamedIds
<1>3. QED
  BY Invariance, ReplayInitially, <1>1, <1>2, PTL DEF Spec
=============================================================================
