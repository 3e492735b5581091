------------------------- MODULE PreparationProofs -------------------------
(***************************************************************************)
(* Proofs about the preparation of a workload, for any dataset, any number *)
(* of epochs and starts, and whatever is killed or stops.                  *)
(***************************************************************************)
EXTENDS Preparation, FiniteSetTheorems, WellFoundedInduction, TLAPS

USE FilesAssumption, GeneratorAssumption, TruthAssumption, CopiesAssumption, StartsAssumption

Draws == [dels : SUBSET Gids, inss : SUBSET Gids, active : SUBSET (Gids \cup {-1})]

TypeInv ==
  /\ source \in Sources /\ starts \in 1 .. MaxStarts
  /\ DOMAIN disk = Files
  /\ stage \in {"prep", "load", "tables", "draw", "inserts", "deletes", "blocks", "snapshot",
                "compute", "remap", "cleanup", "manifest", "copy", "open", "convert", "done",
                "failed"}
  /\ live \subseteq Gids /\ poolCursor \in 0 .. PoolN /\ epoch \in Epochs /\ next \in Nat
  /\ stage = "tables" => next \in 1 .. 5
  /\ stage \in {"open", "convert"} => next \in 1 .. 3
  /\ asked \subseteq QueryRows(source) /\ drawn \in Seq(Draws) /\ Len(drawn) <= NEpochs
  /\ stage = "draw" => epoch <= Len(drawn)
  /\ stage \in {"inserts", "deletes", "blocks", "snapshot", "compute", "remap", "cleanup"} =>
       epoch < Len(drawn)

\* While the generator is at work there is no manifest; the byte copies are made after it.
Generating ==
  stage \in {"load", "tables", "draw", "inserts", "deletes", "blocks", "snapshot", "compute",
             "remap", "cleanup", "manifest"}
ManifestInv ==
  /\ Exists(Manifest) => ~Generating
  /\ stage \in {"copy", "open", "convert"} => Exists(Manifest)

\* The vector files are whole once they were written; a byte copy is made from front to back, under
\* another name, and in the order base, pool, query.
Beginning(t, v) == t \in Seq(Int) /\ Len(t) <= Len(v) /\ \A k \in 1 .. Len(t) : t[k] = v[k]
CopyInv ==
  /\ \A i \in 1 .. 3 :
       (\/ Exists(Manifest)
        \/ stage \in {"draw", "inserts", "deletes", "blocks", "snapshot", "compute", "remap",
                      "cleanup", "manifest"}
        \/ stage = "tables" /\ next > 2 * i - 1) => disk[Vectors(i)] \in Seq(Int)
  /\ \A i \in 1 .. 3 : Exists(ByteCopy(i)) =>
       Exists(Manifest) /\ disk[ByteCopy(i)] = disk[Vectors(i)]
  /\ Exists(ByteCopy(3)) => Exists(ByteCopy(1)) /\ Exists(ByteCopy(2))
  /\ stage \in {"open", "convert"} => \A j \in 1 .. 3 : j < next => Exists(ByteCopy(j))
  /\ stage = "convert" => Beginning(disk[ByteTmp(next)], disk[Vectors(next)])
-----------------------------------------------------------------------------

\* What an epoch inserts and deletes is a number (gen_workload.py, ratio).
LEMMA PerEpoch == ins_per \in Nat /\ del_per \in Nat
PROOF
  <1>1. \A n \in Nat : Tenths(n) \in Nat
    BY DEF Tenths
  <1>2. ops \in Nat
    BY DEF ops, Most
  <1>3. 9 * ops \in Nat /\ InsTenths * ops \in Nat /\ DelTenths * ops \in Nat
    BY <1>2
  <1> DEFINE most == Most(1, Tenths(9 * ops))
  <1>4. \A a \in Nat, b \in Int : Most(a, b) \in Nat
    BY DEF Most
  <1>5. most \in Nat /\ Most(0, ops - most) \in Nat
    <2>1. most \in Nat
      <3>1. Tenths(9 * ops) \in Nat
        BY <1>1, <1>3
      <3> HIDE DEF most
      <3>2. \A b \in Nat : Most(1, b) \in Nat
        BY DEF Most
      <3>3. Most(1, Tenths(9 * ops)) \in Nat
        BY <3>1, <3>2
      <3>4. QED
        BY <3>3 DEF most
    <2>2. ops - most \in Int
      BY <1>2, <2>1
    <2>3. QED
      BY <1>4, <2>1, <2>2
  <1>6. Tenths(InsTenths * ops) \in Nat /\ Tenths(DelTenths * ops) \in Nat
    BY <1>1, <1>3
  <1>7. CASE Ratio = "custom"
    BY <1>6, <1>7 DEF ins_per, del_per, Shares
  <1>8. CASE Ratio = "rins"
    BY <1>2, <1>8 DEF ins_per, del_per, Shares
  <1>9. CASE Ratio = "r9010"
    BY <1>5, <1>9 DEF ins_per, del_per, Shares
  <1>10. QED
    BY <1>7, <1>8, <1>9

\* There are finitely many queries.
LEMMA QueriesFinite ==
  ASSUME TypeInv
  PROVE  IsFiniteSet(asked) /\ Cardinality(asked) \in Nat
PROOF
  <1>1. source.queries - 1 \in Int
    BY DEF TypeInv
  <1>2. \A n \in Int : IsFiniteSet(0 .. n)
    BY FS_Interval
  <1>3. IsFiniteSet(0 .. source.queries - 1)
    BY <1>1, <1>2
  <1>4. IsFiniteSet(asked)
    BY <1>3, FS_Subset DEF TypeInv, QueryRows
  <1>5. QED
    BY <1>4, FS_CardinalityType

\* The queries drawn, in order, are a sequence of rows.
LEMMA AscendingType ==
  ASSUME TypeInv, NEW queries \in Ascending(asked)
  PROVE  queries \in Seq(Int)
PROOF
  <1>1. Cardinality(asked) \in Nat /\ asked \subseteq Int
    BY QueriesFinite DEF TypeInv, QueryRows
  <1>2. queries \in [1 .. Cardinality(asked) -> asked]
    BY DEF Ascending
  <1>3. queries \in [1 .. Cardinality(asked) -> Int]
    BY <1>1, <1>2
  <1>4. \A n \in Nat : \A f \in [1 .. n -> Int] : f \in Seq(Int)
    OBVIOUS
  <1>5. QED
    BY <1>1, <1>3, <1>4

\* The names of the files that matter here are names of different files.
LEMMA FileNames ==
  /\ Manifest \in Files
  /\ \A i \in 1 .. 3 : Vectors(i) \in Files /\ ByteCopy(i) \in Files /\ ByteTmp(i) \in Files
  /\ \A i, j \in 1 .. 3 :
       i # j => Vectors(i) # Vectors(j) /\ ByteCopy(i) # ByteCopy(j) /\ ByteTmp(i) # ByteTmp(j)
  /\ \A i, j \in 1 .. 3 :
       /\ Vectors(i) # ByteCopy(j) /\ Vectors(i) # ByteTmp(j) /\ ByteCopy(i) # ByteTmp(j)
       /\ Manifest \notin {Vectors(i), ByteCopy(i), ByteTmp(i)}
PROOF BY DEF Files, Vectors, ByteCopy, ByteTmp, Manifest

\* A chunk more of a beginning is a beginning; one that is no shorter is all of it.
LEMMA BeginningGrows ==
  ASSUME NEW v \in Seq(Int), NEW t, Beginning(t, v), Len(t) < Len(v)
  PROVE  Beginning(t \o SubSeq(v, Len(t) + 1, Least(Len(t) + ChunkRows, Len(v))), v)
PROOF
  <1> DEFINE b == Least(Len(t) + ChunkRows, Len(v))
             c == SubSeq(v, Len(t) + 1, b)
  <1>1. t \in Seq(Int) /\ Len(t) \in Nat /\ Len(v) \in Nat /\ b \in Nat /\ Len(t) < b /\ b <= Len(v)
    BY DEF Beginning, Least
  <1> HIDE DEF b
  <1>2. c \in Seq(Int) /\ Len(c) = b - Len(t) /\ \A k \in 1 .. b - Len(t) : c[k] = v[Len(t) + k]
    BY <1>1
  <1> HIDE DEF c
  <1>3. t \o c \in Seq(Int) /\ Len(t \o c) = b
    BY <1>1, <1>2
  <1>4. ASSUME NEW k \in 1 .. b
        PROVE  (t \o c)[k] = v[k]
    <2>1. CASE k <= Len(t)
      BY <1>1, <1>2, <2>1 DEF Beginning
    <2>2. CASE k > Len(t)
      <3>1. k - Len(t) \in 1 .. b - Len(t) /\ Len(t) + (k - Len(t)) = k
        BY <1>1, <2>2
      <3>2. (t \o c)[k] = c[k - Len(t)]
        BY <1>1, <1>2, <2>2
      <3>3. QED
        BY <1>2, <3>1, <3>2
    <2>3. k <= Len(t) \/ k > Len(t)
      BY <1>1
    <2>4. QED
      BY <2>1, <2>2, <2>3
  <1>5. Beginning(t \o c, v)
    BY <1>1, <1>3, <1>4 DEF Beginning
  <1>6. QED
    BY <1>5 DEF b, c

LEMMA BeginningEnds ==
  ASSUME NEW v \in Seq(Int), NEW t, Beginning(t, v), ~(Len(t) < Len(v))
  PROVE  t = v
PROOF BY DEF Beginning

\* Every step keeps the types.
LEMMA TypeStep ==
  ASSUME TypeInv, [Next]_vars
  PROVE  TypeInv'
PROOF
  <1> USE DEF genMemory, genDrawn
  <1>1. CASE Start
    BY <1>1 DEF Start, Starts, TypeInv
  <1>2. CASE QueriesDiffer
    BY <1>2 DEF QueriesDiffer, Fail, TypeInv
  <1>3. CASE StartCopies
    BY <1>3 DEF StartCopies, CopiesMade, TypeInv
  <1>4. CASE Load /\ UNCHANGED starts
    BY <1>4 DEF Load, TypeInv, Subsamples, kSubset
  <1>5. CASE LoadFails /\ UNCHANGED starts
    BY <1>5 DEF LoadFails, Fail, TypeInv
  <1>6. CASE WriteTable /\ UNCHANGED starts
    <2>1. DOMAIN disk' = Files
      BY <1>6 DEF WriteTable, TypeInv, Written
    <2>2. /\ next < 5 => next' = next + 1 /\ UNCHANGED <<stage, live, poolCursor, epoch>>
          /\ next >= 5 => /\ stage' = "draw" /\ next' = 1
                         /\ live' = 0 .. BaseN - 1 /\ poolCursor' = 0 /\ epoch' = 0
      <3>1. Len(Tables) = 5
        BY DEF Tables
      <3>2. QED
        BY <1>6, <3>1 DEF WriteTable, TypeInv
    <2>3. 0 .. BaseN - 1 \subseteq Gids /\ 0 \in 0 .. PoolN /\ 0 \in Epochs
      BY DEF Gids, Epochs
    <2>4. QED
      BY <1>6, <2>1, <2>2, <2>3 DEF WriteTable, TypeInv
  <1>7. CASE DrawEpoch /\ UNCHANGED starts
    <2>1. Taken \in Nat /\ poolCursor + Taken <= PoolN /\ Fresh \subseteq Gids
      BY PerEpoch DEF Taken, Fresh, Least, TypeInv, Gids
    <2>2. PICK dels \in Samples :
            /\ live' = (live \ dels) \cup Fresh
            /\ drawn' = IF epoch < Len(drawn) THEN drawn
                        ELSE Append(drawn, [dels |-> dels, inss |-> Fresh,
                                            active |-> IF IsCheckpoint(epoch) THEN live' ELSE {-1}])
      BY <1>7 DEF DrawEpoch
    <2>3. dels \subseteq live /\ live' \subseteq Gids
      BY <2>1, <2>2 DEF Samples, kSubset, TypeInv
    <2>4. [dels |-> dels, inss |-> Fresh,
           active |-> IF IsCheckpoint(epoch) THEN live' ELSE {-1}] \in Draws
      BY <2>1, <2>3 DEF Draws, TypeInv
    <2>5. drawn' \in Seq(Draws) /\ epoch < Len(drawn') /\ Len(drawn') <= NEpochs
      BY <1>7, <2>2, <2>4 DEF DrawEpoch, TypeInv, Epochs
    <2>6. QED
      BY <1>7, <2>1, <2>3, <2>5 DEF DrawEpoch, TypeInv
  <1>8. CASE WriteInserts /\ UNCHANGED starts
    BY <1>8 DEF WriteInserts, TypeInv, Written
  <1>9. CASE WriteDeletes /\ UNCHANGED starts
    BY <1>9 DEF WriteDeletes, NextEpoch, TypeInv, Epochs, Written
  <1>10. CASE KeepBest /\ UNCHANGED starts
    <2>1. next' \in Nat
      BY <1>10 DEF KeepBest, NextBlock, TypeInv
    <2>2. QED
      BY <1>10, <2>1 DEF KeepBest, TypeInv
  <1>11. CASE WriteTruth /\ UNCHANGED starts
    BY <1>11 DEF WriteTruth, NextEpoch, TypeInv, Epochs, Written
  <1>12. CASE WriteSnapshot /\ UNCHANGED starts
    BY <1>12 DEF WriteSnapshot, TypeInv, Written
  <1>13. CASE ComputeTruth /\ UNCHANGED starts
    BY <1>13 DEF ComputeTruth, TypeInv, Written
  <1>14. CASE ComputeFails /\ UNCHANGED starts
    BY <1>14 DEF ComputeFails, Fail, TypeInv
  <1>15. CASE RemapTruth /\ UNCHANGED starts
    BY <1>15 DEF RemapTruth, TypeInv, Written
  <1>16. CASE RemoveSnapshot /\ UNCHANGED starts
    BY <1>16 DEF RemoveSnapshot, NextEpoch, TypeInv, Epochs, Written
  <1>17. CASE WriteManifest /\ UNCHANGED starts
    BY <1>17 DEF WriteManifest, TypeInv, Written
  <1>18. CASE OpenCopy /\ UNCHANGED starts
    BY <1>18 DEF OpenCopy, Staging, TypeInv, Written
  <1>19. CASE ConvertChunk /\ UNCHANGED starts
    BY <1>19 DEF ConvertChunk, Staging, TypeInv, Written
  <1>20. CASE ConvertStops /\ UNCHANGED starts
    BY <1>20 DEF ConvertStops, Staging, TypeInv, Written
  <1>21. CASE FinishCopy /\ UNCHANGED starts
    <2>1. DOMAIN disk' = Files
      BY <1>21 DEF FinishCopy, TypeInv
    <2>2. next' \in 1 .. 3
      BY <1>21 DEF FinishCopy, TypeInv
    <2>3. stage' \in {"open", "done"} /\ epoch' = epoch /\ live' = live /\ poolCursor' = poolCursor
          /\ source' = source /\ asked' = asked /\ drawn' = drawn /\ starts' = starts
      BY <1>21 DEF FinishCopy
    <2>4. QED
      BY <2>1, <2>2, <2>3 DEF TypeInv
  <1>22. CASE Kill
    BY <1>22 DEF Kill, Forget, Stopped, TypeInv, Epochs, Written
  <1>23. CASE StartAgain
    BY <1>23 DEF StartAgain, Forget, Stopped, TypeInv, Epochs
  <1>24. CASE UNCHANGED vars
    BY <1>24 DEF vars, TypeInv
  <1>25. QED
    BY <1>1, <1>2, <1>3, <1>4, <1>5, <1>6, <1>7, <1>8, <1>9, <1>10, <1>11, <1>12, <1>13, <1>14,
          <1>15, <1>16, <1>17, <1>18, <1>19, <1>20, <1>21, <1>22, <1>23, <1>24
       DEF Next, Run, Generate, Convert, Ended

\* Every step keeps that there is no manifest before there is a workload.
LEMMA ManifestStep ==
  ASSUME TypeInv, ManifestInv, [Next]_vars
  PROVE  ManifestInv'
PROOF
  <1> USE DEF genMemory, genDrawn
  <1>1. CASE Start
    BY <1>1 DEF Start, Starts, ManifestInv, Generating, Exists
  <1>2. CASE QueriesDiffer
    BY <1>2 DEF QueriesDiffer, Fail, ManifestInv, Generating, Exists
  <1>3. CASE StartCopies
    BY <1>3 DEF StartCopies, CopiesMade, ManifestInv, Generating, Exists
  <1>4. CASE Load /\ UNCHANGED starts
    BY <1>4 DEF Load, ManifestInv, Generating, Exists
  <1>5. CASE LoadFails /\ UNCHANGED starts
    BY <1>5 DEF LoadFails, Fail, ManifestInv, Generating, Exists
  <1>6. CASE WriteTable /\ UNCHANGED starts
    BY <1>6
       DEF WriteTable, TypeInv, ManifestInv, Generating, Exists, Written, Vectors, Ids, Manifest,
          Tables
  <1>7. CASE DrawEpoch /\ UNCHANGED starts
    BY <1>7 DEF DrawEpoch, ManifestInv, Generating, Exists
  <1>8. CASE WriteInserts /\ UNCHANGED starts
    BY <1>8 DEF WriteInserts, TypeInv, ManifestInv, Generating, Exists, Written, Inserts, Manifest
  <1>9. CASE WriteDeletes /\ UNCHANGED starts
    BY <1>9
       DEF WriteDeletes, NextEpoch, TypeInv, ManifestInv, Generating, Exists, Written, Deletes,
          Manifest
  <1>10. CASE KeepBest /\ UNCHANGED starts
    BY <1>10 DEF KeepBest, ManifestInv, Generating, Exists
  <1>11. CASE WriteTruth /\ UNCHANGED starts
    BY <1>11
       DEF WriteTruth, NextEpoch, TypeInv, ManifestInv, Generating, Exists, Written, Truth, Manifest
  <1>12. CASE WriteSnapshot /\ UNCHANGED starts
    BY <1>12
       DEF WriteSnapshot, TypeInv, ManifestInv, Generating, Exists, Written, Snapshot, Manifest
  <1>13. CASE ComputeTruth /\ UNCHANGED starts
    BY <1>13 DEF ComputeTruth, TypeInv, ManifestInv, Generating, Exists, Written, Truth, Manifest
  <1>14. CASE ComputeFails /\ UNCHANGED starts
    BY <1>14 DEF ComputeFails, Fail, ManifestInv, Generating, Exists
  <1>15. CASE RemapTruth /\ UNCHANGED starts
    BY <1>15 DEF RemapTruth, TypeInv, ManifestInv, Generating, Exists, Written, Truth, Manifest
  <1>16. CASE RemoveSnapshot /\ UNCHANGED starts
    BY <1>16
       DEF RemoveSnapshot, NextEpoch, TypeInv, ManifestInv, Generating, Exists, Written, Snapshot,
          Manifest
  <1>17. CASE WriteManifest /\ UNCHANGED starts
    <2> DEFINE content == [epochs |-> NEpochs, queries |-> Cardinality(asked)]
    <2>1. content \in [epochs : Nat, queries : Nat]
      BY QueriesFinite
    <2>2. disk' = Written(Manifest, content) /\ stage' = "copy"
      BY <1>17 DEF WriteManifest
    <2> HIDE DEF content
    <2>3. disk'[Manifest] = content
      BY <2>2, FileNames DEF Written, TypeInv
    <2>4. disk'[Manifest] # Absent
      BY <2>1, <2>3
    <2>5. QED
      BY <2>2, <2>4 DEF ManifestInv, Exists, Generating
  <1>18. CASE OpenCopy /\ UNCHANGED starts
    BY <1>18
       DEF OpenCopy, Staging, TypeInv, ManifestInv, Generating, Exists, Written, ByteTmp, Manifest
  <1>19. CASE ConvertChunk /\ UNCHANGED starts
    BY <1>19
       DEF ConvertChunk, Staging, TypeInv, ManifestInv, Generating, Exists, Written, ByteTmp,
          Manifest
  <1>20. CASE ConvertStops /\ UNCHANGED starts
    BY <1>20
       DEF ConvertStops, Staging, TypeInv, ManifestInv, Generating, Exists, Written, ByteTmp,
          Manifest
  <1>21. CASE FinishCopy /\ UNCHANGED starts
    <2>1. disk'[Manifest] = disk[Manifest]
      BY <1>21, FileNames DEF FinishCopy, TypeInv, Staging
    <2>2. QED
      BY <1>21, <2>1 DEF FinishCopy, ManifestInv, Exists, Generating
  <1>22. CASE Kill
    BY <1>22
       DEF Kill, Forget, Stopped, TypeInv, ManifestInv, Generating, Exists, Written, Vectors,
          ByteCopy, ByteTmp, Ids, Inserts, Deletes, Snapshot, Truth, Manifest, Open, Writes, Files,
          Tables
  <1>23. CASE StartAgain
    BY <1>23 DEF StartAgain, Forget, ManifestInv, Generating, Exists
  <1>24. CASE UNCHANGED vars
    BY <1>24 DEF vars, ManifestInv, Generating, Exists
  <1>25. QED
    BY <1>1, <1>2, <1>3, <1>4, <1>5, <1>6, <1>7, <1>8, <1>9, <1>10, <1>11, <1>12, <1>13, <1>14,
          <1>15, <1>16, <1>17, <1>18, <1>19, <1>20, <1>21, <1>22, <1>23, <1>24
       DEF Next, Run, Generate, Convert, Ended

\* Every step keeps the copies exact, and so what makes them so.
LEMMA CopyStep ==
  ASSUME TypeInv, ManifestInv, CopyInv, [Next]_vars
  PROVE  CopyInv'
PROOF
  <1> USE DEF genMemory, genDrawn
  <1>1. CASE Start
    BY <1>1 DEF Start, Starts, ManifestInv, CopyInv, Generating, Exists
  <1>2. CASE QueriesDiffer
    BY <1>2 DEF QueriesDiffer, Fail, ManifestInv, CopyInv, Generating, Exists
  <1>3. CASE StartCopies
    BY <1>3 DEF StartCopies, CopiesMade, ManifestInv, CopyInv, Generating, Exists
  <1>4. CASE Load /\ UNCHANGED starts
    BY <1>4 DEF Load, ManifestInv, CopyInv, Generating, Exists
  <1>5. CASE LoadFails /\ UNCHANGED starts
    BY <1>5 DEF LoadFails, Fail, ManifestInv, CopyInv, Generating, Exists
  <1>6. CASE WriteTable /\ UNCHANGED starts
    <2>1. PICK queries \in Ascending(asked) :
            disk' = [disk EXCEPT ![Tables[next]] = Contents(queries)[next]]
      BY <1>6 DEF WriteTable, Written
    <2>2. next \in 1 .. 5 /\ Len(Tables) = 5
      BY <1>6 DEF WriteTable, TypeInv, Tables
    <2>3. Contents(queries)[next] \in Seq(Int)
      <3>1. queries \in Seq(Int)
        BY AscendingType
      <3>2. /\ [i \in 1 .. BaseN |-> i - 1] \in Seq(Int)
            /\ [i \in 1 .. PoolN |-> BaseN + i - 1] \in Seq(Int)
        OBVIOUS
      <3>3. \A n \in 1 .. 5 : Contents(queries)[n] \in
                {[i \in 1 .. BaseN |-> i - 1], [i \in 1 .. PoolN |-> BaseN + i - 1], queries}
        BY DEF Contents
      <3>4. QED
        BY <2>2, <3>1, <3>2, <3>3
    <2>4. /\ Tables[1] = Vectors(1) /\ Tables[3] = Vectors(2) /\ Tables[5] = Vectors(3)
          /\ Tables[2] = Ids(1) /\ Tables[4] = Ids(2)
      BY DEF Tables
    <2>5. \A i, j \in 1 .. 3 :
            Ids(i) \notin {Vectors(j), ByteCopy(j), ByteTmp(j), Manifest}
      BY DEF Ids, Vectors, ByteCopy, ByteTmp, Manifest
    <2>6. \A i \in 1 .. 3 :
            /\ disk'[Vectors(i)] = IF next = 2 * i - 1 THEN Contents(queries)[next]
                                   ELSE disk[Vectors(i)]
            /\ disk'[ByteCopy(i)] = disk[ByteCopy(i)]
      BY <2>1, <2>2, <2>4, <2>5, FileNames DEF TypeInv
    <2>7. disk'[Manifest] = disk[Manifest] /\ ~Exists(Manifest)
      BY <1>6, <2>1, <2>2, <2>4, <2>5, FileNames DEF WriteTable, TypeInv, ManifestInv, Generating
    <2>8. /\ next < 5 => next' = next + 1 /\ stage' = "tables"
          /\ next >= 5 => stage' = "draw"
      BY <1>6, <2>2 DEF WriteTable
    <2>9. ASSUME NEW i \in 1 .. 3, stage' = "draw" \/ next' > 2 * i - 1
          PROVE  disk'[Vectors(i)] \in Seq(Int)
      <3>1. CASE next = 2 * i - 1
        BY <2>3, <2>6, <3>1
      <3>2. CASE next # 2 * i - 1
        <4>1. next > 2 * i - 1
          BY <2>2, <2>8, <2>9, <3>2
        <4>2. QED
          BY <1>6, <2>6, <3>2, <4>1 DEF WriteTable, CopyInv
      <3>3. QED
        BY <3>1, <3>2
    <2>10. stage' \in {"tables", "draw"}
      BY <2>2, <2>8
    <2>11. \A i \in 1 .. 3 : disk'[ByteCopy(i)] = Absent
      BY <2>6, <2>7 DEF CopyInv, Exists
    <2>12. QED
      BY <2>7, <2>9, <2>10, <2>11 DEF CopyInv, Exists
  <1>7. CASE DrawEpoch /\ UNCHANGED starts
    BY <1>7 DEF DrawEpoch, ManifestInv, CopyInv, Generating, Exists
  <1>8. CASE WriteInserts /\ UNCHANGED starts
    BY <1>8
       DEF WriteInserts, TypeInv, ManifestInv, CopyInv, Generating, Exists, Written, Vectors,
          ByteCopy, Inserts, Manifest
  <1>9. CASE WriteDeletes /\ UNCHANGED starts
    BY <1>9
       DEF WriteDeletes, NextEpoch, TypeInv, ManifestInv, CopyInv, Generating, Exists, Written,
          Vectors, ByteCopy, Deletes, Manifest
  <1>10. CASE KeepBest /\ UNCHANGED starts
    BY <1>10 DEF KeepBest, ManifestInv, CopyInv, Generating, Exists
  <1>11. CASE WriteTruth /\ UNCHANGED starts
    BY <1>11
       DEF WriteTruth, NextEpoch, TypeInv, ManifestInv, CopyInv, Generating, Exists, Written,
          Vectors, ByteCopy, Truth, Manifest
  <1>12. CASE WriteSnapshot /\ UNCHANGED starts
    BY <1>12
       DEF WriteSnapshot, TypeInv, ManifestInv, CopyInv, Generating, Exists, Written, Vectors,
          ByteCopy, Snapshot, Manifest
  <1>13. CASE ComputeTruth /\ UNCHANGED starts
    BY <1>13
       DEF ComputeTruth, TypeInv, ManifestInv, CopyInv, Generating, Exists, Written, Vectors,
          ByteCopy, Truth, Manifest
  <1>14. CASE ComputeFails /\ UNCHANGED starts
    BY <1>14 DEF ComputeFails, Fail, ManifestInv, CopyInv, Generating, Exists
  <1>15. CASE RemapTruth /\ UNCHANGED starts
    BY <1>15
       DEF RemapTruth, TypeInv, ManifestInv, CopyInv, Generating, Exists, Written, Vectors,
          ByteCopy, Truth, Manifest
  <1>16. CASE RemoveSnapshot /\ UNCHANGED starts
    BY <1>16
       DEF RemoveSnapshot, NextEpoch, TypeInv, ManifestInv, CopyInv, Generating, Exists, Written,
          Vectors, ByteCopy, Snapshot, Manifest
  <1>17. CASE WriteManifest /\ UNCHANGED starts
    BY <1>17
       DEF WriteManifest, TypeInv, ManifestInv, CopyInv, Generating, Exists, Written, Vectors,
          ByteCopy, Manifest
  <1>18. CASE OpenCopy /\ UNCHANGED starts
    <2>1. /\ next \in 1 .. 3 /\ next' = next /\ stage' = "convert" /\ stage = "open"
          /\ disk' = [disk EXCEPT ![ByteTmp(next)] = <<>>]
      BY <1>18 DEF OpenCopy, TypeInv, Written, Staging
    <2>2. /\ disk'[Manifest] = disk[Manifest] /\ disk'[ByteTmp(next)] = <<>>
          /\ \A i \in 1 .. 3 : /\ disk'[Vectors(i)] = disk[Vectors(i)]
                             /\ disk'[ByteCopy(i)] = disk[ByteCopy(i)]
      BY <2>1, FileNames DEF TypeInv
    <2>3. Exists(Manifest) /\ disk[Vectors(next)] \in Seq(Int)
      BY <2>1 DEF ManifestInv, CopyInv
    <2>4. Beginning(<<>>, disk[Vectors(next)])
      BY <2>3 DEF Beginning
    <2>5. Beginning(disk'[ByteTmp(next')], disk'[Vectors(next')])
      BY <2>1, <2>2, <2>4
    <2>6. /\ Exists(Manifest)' /\ Exists(Manifest)
          /\ \A i \in 1 .. 3 : Exists(ByteCopy(i))' = Exists(ByteCopy(i))
      BY <2>2, <2>3 DEF Exists
    <2>7. \A i \in 1 .. 3 : disk'[Vectors(i)] \in Seq(Int)
      BY <2>2, <2>6 DEF CopyInv
    <2>8. \A j \in 1 .. 3 : j < next' => disk'[ByteCopy(j)] # Absent
      BY <2>1, <2>2 DEF CopyInv, Exists
    <2>9. /\ \A i \in 1 .. 3 : disk'[ByteCopy(i)] # Absent => disk'[ByteCopy(i)] = disk'[Vectors(i)]
          /\ disk'[ByteCopy(3)] # Absent => disk'[ByteCopy(1)] # Absent /\ disk'[ByteCopy(2)] # Absent
      BY <2>2 DEF CopyInv, Exists
    <2> HIDE DEF Beginning
    <2>10. QED
      BY <2>1, <2>5, <2>6, <2>7, <2>8, <2>9 DEF CopyInv, Exists
  <1>19. CASE ConvertChunk /\ UNCHANGED starts
    <2>1. /\ next \in 1 .. 3 /\ next' = next /\ stage' = "convert" /\ stage = "convert"
          /\ disk' = [disk EXCEPT ![ByteTmp(next)] = disk[ByteTmp(next)] \o Chunk(next)]
      BY <1>19 DEF ConvertChunk, TypeInv, Written, Staging
    <2>2. /\ disk'[Manifest] = disk[Manifest]
          /\ disk'[ByteTmp(next)] = disk[ByteTmp(next)] \o Chunk(next)
          /\ \A i \in 1 .. 3 : /\ disk'[Vectors(i)] = disk[Vectors(i)]
                             /\ disk'[ByteCopy(i)] = disk[ByteCopy(i)]
      BY <2>1, FileNames DEF TypeInv
    <2>3. /\ Exists(Manifest) /\ disk[Vectors(next)] \in Seq(Int)
          /\ Beginning(disk[ByteTmp(next)], disk[Vectors(next)])
      BY <2>1 DEF ManifestInv, CopyInv
    <2>4. Beginning(disk'[ByteTmp(next)], disk[Vectors(next)])
      BY <1>19, <2>2, <2>3, BeginningGrows DEF ConvertChunk, MoreRows, Chunk, Staging
    <2>5. Beginning(disk'[ByteTmp(next')], disk'[Vectors(next')])
      BY <2>1, <2>2, <2>4
    <2>6. /\ Exists(Manifest)' /\ Exists(Manifest)
          /\ \A i \in 1 .. 3 : Exists(ByteCopy(i))' = Exists(ByteCopy(i))
      BY <2>2, <2>3 DEF Exists
    <2>7. \A i \in 1 .. 3 : disk'[Vectors(i)] \in Seq(Int)
      BY <2>2, <2>6 DEF CopyInv
    <2>8. \A j \in 1 .. 3 : j < next' => disk'[ByteCopy(j)] # Absent
      BY <2>1, <2>2 DEF CopyInv, Exists
    <2>9. /\ \A i \in 1 .. 3 : disk'[ByteCopy(i)] # Absent => disk'[ByteCopy(i)] = disk'[Vectors(i)]
          /\ disk'[ByteCopy(3)] # Absent => disk'[ByteCopy(1)] # Absent /\ disk'[ByteCopy(2)] # Absent
      BY <2>2 DEF CopyInv, Exists
    <2> HIDE DEF Beginning
    <2>10. QED
      BY <2>1, <2>5, <2>6, <2>7, <2>8, <2>9 DEF CopyInv, Exists
  <1>20. CASE ConvertStops /\ UNCHANGED starts
    <2>1. /\ next \in 1 .. 3 /\ stage' = "done" /\ stage = "convert"
          /\ disk' = [disk EXCEPT ![ByteTmp(next)] = Absent]
      BY <1>20 DEF ConvertStops, TypeInv, Written, Staging
    <2>2. /\ disk'[Manifest] = disk[Manifest]
          /\ \A i \in 1 .. 3 : /\ disk'[Vectors(i)] = disk[Vectors(i)]
                             /\ disk'[ByteCopy(i)] = disk[ByteCopy(i)]
      BY <2>1, FileNames DEF TypeInv
    <2>3. QED
      BY <2>1, <2>2 DEF CopyInv, Exists
  <1>21. CASE FinishCopy /\ UNCHANGED starts
    <2>1. /\ next \in 1 .. 3 /\ stage = "convert"
          /\ disk' = [disk EXCEPT ![ByteTmp(next)] = Absent,
                                  ![ByteCopy(next)] = disk[ByteTmp(next)]]
      BY <1>21 DEF FinishCopy, TypeInv, Staging
    <2>2. /\ disk'[Manifest] = disk[Manifest] /\ disk'[ByteCopy(next)] = disk[ByteTmp(next)]
          /\ \A i \in 1 .. 3 : disk'[Vectors(i)] = disk[Vectors(i)]
          /\ \A i \in 1 .. 3 : i # next => disk'[ByteCopy(i)] = disk[ByteCopy(i)]
      BY <2>1, FileNames DEF TypeInv
    <2>3. /\ Exists(Manifest) /\ disk[Vectors(next)] \in Seq(Int)
          /\ Beginning(disk[ByteTmp(next)], disk[Vectors(next)])
      BY <2>1 DEF ManifestInv, CopyInv
    <2>4. disk[ByteTmp(next)] = disk[Vectors(next)]
      BY <1>21, <2>3, BeginningEnds DEF FinishCopy, MoreRows, Staging
    <2>5. disk'[ByteCopy(next)] # Absent /\ disk'[ByteCopy(next)] = disk'[Vectors(next)]
      BY <2>1, <2>2, <2>3, <2>4
    <2>6. next = 3 => \A j \in 1 .. 3 : j < 3 => Exists(ByteCopy(j))
      BY <2>1 DEF CopyInv
    <2>7. stage' \in {"open", "done"} /\ (stage' = "open" => next' = next + 1)
      BY <1>21 DEF FinishCopy
    <2>8. \A j \in 1 .. 3 : j < next => Exists(ByteCopy(j))
      BY <2>1 DEF CopyInv
    <2>9. stage' = "open" => \A j \in 1 .. 3 : j < next' => disk'[ByteCopy(j)] # Absent
      BY <2>1, <2>2, <2>5, <2>7, <2>8 DEF Exists
    <2>10. disk'[ByteCopy(3)] # Absent => disk'[ByteCopy(1)] # Absent /\ disk'[ByteCopy(2)] # Absent
      BY <2>1, <2>2, <2>5, <2>6 DEF CopyInv, Exists
    <2>11. \A i \in 1 .. 3 :
             /\ disk'[Vectors(i)] \in Seq(Int)
             /\ (disk'[ByteCopy(i)] # Absent => disk'[ByteCopy(i)] = disk'[Vectors(i)])
      BY <2>2, <2>3, <2>5 DEF CopyInv, Exists
    <2>12. QED
      BY <2>2, <2>3, <2>7, <2>9, <2>10, <2>11 DEF CopyInv, Exists
  <1>22. CASE Kill
    <2>1. stage' = "failed"
      BY <1>22 DEF Kill
    <2>3. CASE disk' = disk
      BY <2>1, <2>3 DEF CopyInv, Exists
    <2>4. ASSUME NEW file \in Open, disk' = Written(file, Torn)
          PROVE  CopyInv'
      <3>1. Generating /\ file \in Files /\ \A i \in 1 .. 3 : file # ByteCopy(i)
        <4>1. \A i \in 1 .. 5, j \in 1 .. 3 : Tables[i] # ByteCopy(j)
          BY DEF Tables, Ids, Vectors, ByteCopy
        <4>2. stage = "tables" => next \in 1 .. 5
          BY DEF TypeInv
        <4>3. QED
          BY <2>4, <4>1, <4>2
             DEF Open, Writes, Generating, Inserts, Deletes, Truth, Snapshot, Manifest, ByteCopy
      <3>2. \A i \in 1 .. 3 : disk[ByteCopy(i)] = Absent /\ disk'[ByteCopy(i)] = Absent
        BY <2>4, <3>1, FileNames DEF ManifestInv, CopyInv, Exists, Written, TypeInv
      <3>3. disk'[Manifest] # Absent => file = Manifest
        BY <2>4, <3>1, FileNames DEF ManifestInv, Exists, Written, TypeInv
      <3>4. file = Manifest =>
              stage = "manifest" /\ \A i \in 1 .. 3 : disk'[Vectors(i)] = disk[Vectors(i)]
        <4>1. \A i \in 1 .. 5 : Tables[i] # Manifest
          BY DEF Tables, Ids, Vectors, Manifest
        <4>2. stage = "tables" => next \in 1 .. 5
          BY DEF TypeInv
        <4>3. file = Manifest => stage = "manifest"
          BY <2>4, <4>1, <4>2 DEF Open, Writes, Inserts, Deletes, Truth, Snapshot, Manifest
        <4>4. QED
          BY <2>4, <4>3, FileNames DEF Written, TypeInv
      <3>5. disk'[Manifest] # Absent => \A i \in 1 .. 3 : disk'[Vectors(i)] \in Seq(Int)
        BY <3>3, <3>4 DEF CopyInv
      <3>6. QED
        BY <2>1, <3>2, <3>5 DEF CopyInv, Exists
    <2>5. QED
      BY <1>22, <2>3, <2>4 DEF Kill
  <1>23. CASE StartAgain
    BY <1>23 DEF StartAgain, Forget, ManifestInv, CopyInv, Generating, Exists
  <1>24. CASE UNCHANGED vars
    BY <1>24 DEF vars, ManifestInv, CopyInv, Generating, Exists
  <1>25. QED
    BY <1>1, <1>2, <1>3, <1>4, <1>5, <1>6, <1>7, <1>8, <1>9, <1>10, <1>11, <1>12, <1>13, <1>14,
          <1>15, <1>16, <1>17, <1>18, <1>19, <1>20, <1>21, <1>22, <1>23, <1>24
       DEF Next, Run, Generate, Convert, Ended

\* What the first n epochs added and deleted, and the ids an epoch adds at a position of the pool.
Added(n) == UNION {drawn[k].inss : k \in 1 .. n}
Removed(n) == UNION {drawn[k].dels : k \in 1 .. n}
Offered(c) == BaseN + c .. BaseN + c + Least(ins_per, PoolN - c) - 1

\* A run that draws has in memory what the epochs it has been through leave, be they drawn by it or
\* by a run that was killed; every epoch goes on where the one before it left the pool.
Recording == {"inserts", "deletes", "blocks", "snapshot", "compute", "remap", "cleanup"}
Through == IF stage \in Recording THEN epoch + 1 ELSE epoch
EpochsInv ==
  \A k \in DOMAIN drawn : \E c \in 0 .. PoolN :
    /\ Added(k - 1) = BaseN .. BaseN + c - 1
    /\ drawn[k].inss = Offered(c)
    /\ drawn[k].dels \subseteq 0 .. BaseN + c - 1
MemoryInv ==
  stage \in Recording \cup {"draw"} =>
    /\ Added(Through) = BaseN .. BaseN + poolCursor - 1
    /\ live = (0 .. BaseN + poolCursor - 1) \ Removed(Through)
-----------------------------------------------------------------------------
\* Ranges of the pool that start alike are alike.
LEMMA SamePosition ==
  ASSUME NEW c \in Nat, NEW d \in Nat, BaseN .. BaseN + c - 1 = BaseN .. BaseN + d - 1
  PROVE  c = d
PROOF
  <1>1. \A i \in Int : i \in BaseN .. BaseN + c - 1 <=> i \in BaseN .. BaseN + d - 1
    OBVIOUS
  <1>2. ~(c < d)
    <2>1. BaseN + c \in Int
      OBVIOUS
    <2>2. QED
      BY <1>1, <2>1
  <1>3. ~(d < c)
    <2>1. BaseN + d \in Int
      OBVIOUS
    <2>2. QED
      BY <1>1, <2>1
  <1>4. QED
    BY <1>2, <1>3

\* What was deleted so far was in the index at some time.
LEMMA RemovedIds ==
  ASSUME TypeInv, EpochsInv, NEW m \in 0 .. Len(drawn), NEW p \in Nat,
         Added(m) = BaseN .. BaseN + p - 1
  PROVE  Removed(m) \subseteq 0 .. BaseN + p - 1
PROOF
  <1>1. ASSUME NEW k \in 1 .. m, NEW id \in drawn[k].dels
        PROVE  id \in 0 .. BaseN + p - 1
    <2>1. k \in DOMAIN drawn
      BY DEF TypeInv
    <2>2. PICK c \in 0 .. PoolN : /\ Added(k - 1) = BaseN .. BaseN + c - 1
                                  /\ drawn[k].dels \subseteq 0 .. BaseN + c - 1
      BY <2>1 DEF EpochsInv
    <2>3. Added(k - 1) \subseteq Added(m)
      BY DEF Added
    <2>4. id \in Int /\ id >= 0 /\ (id < BaseN \/ id \in BaseN .. BaseN + c - 1)
      BY <1>1, <2>2
    <2>5. CASE id < BaseN
      BY <2>4, <2>5
    <2>6. CASE id \in BaseN .. BaseN + c - 1
      BY <2>2, <2>3, <2>6
    <2>7. QED
      BY <2>4, <2>5, <2>6
  <1>2. QED
    BY <1>1 DEF Removed

\* One epoch, drawn now or read back: what it draws, and what the memory is afterwards.
LEMMA OneEpoch ==
  ASSUME TypeInv, EpochsInv, MemoryInv, DrawEpoch
  PROVE  /\ epoch <= Len(drawn) /\ epoch + 1 \in DOMAIN drawn' /\ Len(drawn') \in Nat
         /\ \A k \in 1 .. epoch : drawn'[k] = drawn[k]
         /\ epoch < Len(drawn) => drawn' = drawn
         /\ epoch = Len(drawn) => Len(drawn') = epoch + 1
         /\ drawn'[epoch + 1].inss = Fresh
         /\ drawn'[epoch + 1].dels \in Samples
         /\ live' = (live \ drawn'[epoch + 1].dels) \cup Fresh
         /\ poolCursor' = poolCursor + Taken
PROOF
  <1>1. epoch \in Nat /\ epoch <= Len(drawn) /\ drawn \in Seq(Draws) /\ stage = "draw"
    BY DEF TypeInv, DrawEpoch, Epochs
  <1>2. PICK dels \in Samples :
          /\ epoch < Len(drawn) => dels = drawn[epoch + 1].dels
          /\ live' = (live \ dels) \cup Fresh
          /\ drawn' = IF epoch < Len(drawn) THEN drawn
                      ELSE Append(drawn, [dels |-> dels, inss |-> Fresh,
                                          active |-> IF IsCheckpoint(epoch) THEN live' ELSE {-1}])
    BY DEF DrawEpoch
  <1>3. poolCursor' = poolCursor + Taken
    BY DEF DrawEpoch
  <1>4. CASE epoch < Len(drawn)
    <2>1. epoch + 1 \in DOMAIN drawn
      BY <1>1, <1>4
    <2>2. PICK c \in 0 .. PoolN : /\ Added(epoch) = BaseN .. BaseN + c - 1
                                  /\ drawn[epoch + 1].inss = Offered(c)
      <3>1. (epoch + 1) - 1 = epoch
        BY <1>1
      <3>2. QED
        BY <2>1, <3>1 DEF EpochsInv
    <2>3. Added(epoch) = BaseN .. BaseN + poolCursor - 1
      BY <1>1 DEF MemoryInv, Through, Recording
    <2>4. c = poolCursor
      BY <2>2, <2>3, SamePosition DEF TypeInv
    <2>5. drawn[epoch + 1].inss = Fresh
      BY <2>2, <2>4 DEF Offered, Fresh, Taken
    <2>6. QED
      BY <1>1, <1>2, <1>3, <1>4, <2>1, <2>5
  <1>5. CASE epoch = Len(drawn)
    <2> DEFINE entry == [dels |-> dels, inss |-> Fresh,
                         active |-> IF IsCheckpoint(epoch) THEN live' ELSE {-1}]
    <2>1. entry.dels = dels /\ entry.inss = Fresh
      OBVIOUS
    <2>2. drawn' = Append(drawn, entry)
      BY <1>2, <1>5
    <2> HIDE DEF entry
    <2>3. /\ Len(drawn') = epoch + 1 /\ drawn'[epoch + 1] = entry
          /\ DOMAIN drawn' = 1 .. epoch + 1
          /\ \A k \in 1 .. epoch : drawn'[k] = drawn[k]
      BY <1>1, <1>5, <2>2
    <2>4. QED
      BY <1>1, <1>2, <1>3, <1>5, <2>1, <2>3
  <1>6. QED
    BY <1>1, <1>4, <1>5

\* What an epoch is offered depends on the arguments only.
LEMMA OfferedSame == \A c : Offered(c)' = Offered(c)
PROOF BY DEF Offered, Least, Most, ins_per, Shares, ops, Tenths

\* A step that draws nothing and leaves the memory of a drawing run alone keeps both.
LEMMA NothingDrawn ==
  ASSUME EpochsInv, MemoryInv, drawn' = drawn,
         stage' \in Recording \cup {"draw"} =>
           /\ stage \in Recording \cup {"draw"} /\ Through' = Through
           /\ live' = live /\ poolCursor' = poolCursor
  PROVE  EpochsInv' /\ MemoryInv'
PROOF
  <1>1. EpochsInv'
    BY OfferedSame DEF EpochsInv, Added
  <1>2. \A n : Added(n)' = Added(n) /\ Removed(n)' = Removed(n)
    BY DEF Added, Removed
  <1>3. ASSUME stage' \in Recording \cup {"draw"}
        PROVE  /\ Added(Through)' = BaseN .. BaseN + poolCursor' - 1
               /\ live' = (0 .. BaseN + poolCursor' - 1) \ Removed(Through)'
    <2>1. Through' = Through /\ live' = live /\ poolCursor' = poolCursor
      BY <1>3
    <2>2. /\ Added(Through) = BaseN .. BaseN + poolCursor - 1
          /\ live = (0 .. BaseN + poolCursor - 1) \ Removed(Through)
      BY <1>3 DEF MemoryInv
    <2>3. Added(Through)' = Added(Through) /\ Removed(Through)' = Removed(Through)
      BY <2>1 DEF Added, Removed
    <2>4. QED
      BY <2>1, <2>2, <2>3
  <1>4. QED
    BY <1>1, <1>3 DEF MemoryInv, Recording

\* With one epoch more the ids ever added are the pool as far as the cursor is, and the live ids
\* are what was not deleted of them and of the base.
LEMMA OneEpochKeeps ==
  ASSUME TypeInv, TypeInv', EpochsInv, MemoryInv, DrawEpoch
  PROVE  EpochsInv' /\ MemoryInv'
PROOF
  <1>1. /\ epoch \in Nat /\ stage = "draw" /\ stage' = "inserts" /\ epoch' = epoch
        /\ poolCursor \in 0 .. PoolN /\ live \subseteq Gids
        /\ drawn \in Seq(Draws) /\ drawn' \in Seq(Draws)
    BY DEF TypeInv, DrawEpoch, Epochs
  <1> DEFINE entry == drawn'[epoch + 1]
  <1>2. /\ epoch <= Len(drawn) /\ epoch + 1 \in DOMAIN drawn' /\ Len(drawn') \in Nat
        /\ \A k \in 1 .. epoch : drawn'[k] = drawn[k]
        /\ epoch < Len(drawn) => drawn' = drawn
        /\ epoch = Len(drawn) => Len(drawn') = epoch + 1
        /\ entry.inss = Fresh /\ entry.dels \in Samples
        /\ live' = (live \ entry.dels) \cup Fresh
        /\ poolCursor' = poolCursor + Taken
    BY OneEpoch
  <1> HIDE DEF entry
  <1>3. Taken \in Nat /\ Fresh = BaseN + poolCursor .. BaseN + poolCursor + Taken - 1
    BY <1>1, PerEpoch DEF Fresh, Taken, Least
  <1>4. /\ Added(epoch) = BaseN .. BaseN + poolCursor - 1
        /\ live = (0 .. BaseN + poolCursor - 1) \ Removed(epoch)
    BY <1>1 DEF MemoryInv, Through, Recording
  <1>5. entry.dels \subseteq live
    BY <1>2 DEF Samples, kSubset
  <1>6. Removed(epoch) \subseteq 0 .. BaseN + poolCursor - 1
    <2>1. epoch \in 0 .. Len(drawn) /\ poolCursor \in Nat
      BY <1>1, <1>2
    <2>2. QED
      BY <1>4, <2>1, RemovedIds
  <1> DEFINE AddedNow(n) == UNION {drawn'[k].inss : k \in 1 .. n}
  <1>7. \A k \in 1 .. epoch + 1 : AddedNow(k - 1) = Added(k - 1)
    <2>1. \A k \in 1 .. epoch + 1 : \A j \in 1 .. k - 1 : drawn'[j] = drawn[j]
      BY <1>1, <1>2
    <2>2. QED
      BY <2>1 DEF Added
  <1>8. EpochsInv'
    <2>1. CASE epoch < Len(drawn)
      <3>1. drawn' = drawn
        BY <1>2, <2>1
      <3>2. QED
        BY <3>1, OfferedSame DEF EpochsInv, Added
    <2>2. CASE epoch = Len(drawn)
      <3>1. ASSUME NEW k \in 1 .. epoch
            PROVE  \E c \in 0 .. PoolN :
                     /\ AddedNow(k - 1) = BaseN .. BaseN + c - 1
                     /\ drawn'[k].inss = Offered(c)
                     /\ drawn'[k].dels \subseteq 0 .. BaseN + c - 1
        <4>1. k \in DOMAIN drawn /\ k \in 1 .. epoch + 1
          BY <1>1, <2>2
        <4>2. drawn'[k] = drawn[k] /\ AddedNow(k - 1) = Added(k - 1)
          BY <1>2, <1>7, <4>1
        <4>3. QED
          BY <4>1, <4>2 DEF EpochsInv
      <3>2. \E c \in 0 .. PoolN :
              /\ AddedNow((epoch + 1) - 1) = BaseN .. BaseN + c - 1
              /\ drawn'[epoch + 1].inss = Offered(c)
              /\ drawn'[epoch + 1].dels \subseteq 0 .. BaseN + c - 1
        <4>1. AddedNow((epoch + 1) - 1) = BaseN .. BaseN + poolCursor - 1
          <5>1. epoch + 1 \in 1 .. epoch + 1 /\ (epoch + 1) - 1 = epoch
            BY <1>1
          <5>2. QED
            BY <1>4, <1>7, <5>1
        <4>2. drawn'[epoch + 1].inss = Offered(poolCursor)
          BY <1>2 DEF entry, Fresh, Offered, Taken
        <4>3. drawn'[epoch + 1].dels \subseteq 0 .. BaseN + poolCursor - 1
          BY <1>4, <1>5 DEF entry
        <4>4. QED
          BY <1>1, <4>1, <4>2, <4>3
      <3>3. \A k \in DOMAIN drawn' : k \in 1 .. epoch \/ k = epoch + 1
        BY <1>1, <1>2, <2>2
      <3>4. QED
        BY <3>1, <3>2, <3>3, OfferedSame DEF EpochsInv, Added
    <2>3. QED
      BY <1>1, <1>2, <2>1, <2>2
  <1>9. UNION {drawn'[k].inss : k \in 1 .. epoch + 1} = Added(epoch) \cup entry.inss
    <2>1. \A k \in 1 .. epoch + 1 : k = epoch + 1 \/ (k \in 1 .. epoch /\ drawn'[k] = drawn[k])
      BY <1>1, <1>2
    <2>2. \A k \in 1 .. epoch : k \in 1 .. epoch + 1 /\ drawn'[k] = drawn[k]
      BY <1>1, <1>2
    <2>3. epoch + 1 \in 1 .. epoch + 1
      BY <1>1
    <2>4. QED
      BY <2>1, <2>2, <2>3 DEF Added, entry
  <1>10. UNION {drawn'[k].dels : k \in 1 .. epoch + 1} = Removed(epoch) \cup entry.dels
    <2>1. \A k \in 1 .. epoch + 1 : k = epoch + 1 \/ (k \in 1 .. epoch /\ drawn'[k] = drawn[k])
      BY <1>1, <1>2
    <2>2. \A k \in 1 .. epoch : k \in 1 .. epoch + 1 /\ drawn'[k] = drawn[k]
      BY <1>1, <1>2
    <2>3. epoch + 1 \in 1 .. epoch + 1
      BY <1>1
    <2>4. QED
      BY <2>1, <2>2, <2>3 DEF Removed, entry
  <1>11. Through' = epoch + 1
    BY <1>1 DEF Through, Recording
  <1>12. Added(epoch) \cup Fresh = BaseN .. BaseN + poolCursor' - 1
    BY <1>1, <1>2, <1>3, <1>4
  <1>13. (live \ entry.dels) \cup Fresh
           = (0 .. BaseN + poolCursor' - 1) \ (Removed(epoch) \cup entry.dels)
    BY <1>1, <1>2, <1>3, <1>4, <1>5, <1>6
  <1>14. MemoryInv'
    BY <1>2, <1>9, <1>10, <1>11, <1>12, <1>13 DEF MemoryInv, Added, Removed
  <1>15. QED
    BY <1>8, <1>14

\* Every step keeps the epochs as they should be, and what a drawing run remembers.
LEMMA DrawStep ==
  ASSUME TypeInv, TypeInv', EpochsInv, MemoryInv, [Next]_vars
  PROVE  EpochsInv' /\ MemoryInv'
PROOF
  <1> USE DEF genMemory, genDrawn
  <1>1. CASE Start
    <2>1. /\ drawn' = drawn
          /\ stage' \in Recording \cup {"draw"} =>
               /\ stage \in Recording \cup {"draw"} /\ Through' = Through
               /\ live' = live /\ poolCursor' = poolCursor
      BY <1>1 DEF Start, Starts, Recording, Through, TypeInv
    <2>2. QED
      BY <2>1, NothingDrawn
  <1>2. CASE QueriesDiffer
    <2>1. /\ drawn' = drawn
          /\ stage' \in Recording \cup {"draw"} =>
               /\ stage \in Recording \cup {"draw"} /\ Through' = Through
               /\ live' = live /\ poolCursor' = poolCursor
      BY <1>2 DEF QueriesDiffer, Fail, Recording, Through, TypeInv
    <2>2. QED
      BY <2>1, NothingDrawn
  <1>3. CASE StartCopies
    <2>1. /\ drawn' = drawn
          /\ stage' \in Recording \cup {"draw"} =>
               /\ stage \in Recording \cup {"draw"} /\ Through' = Through
               /\ live' = live /\ poolCursor' = poolCursor
      BY <1>3 DEF StartCopies, Recording, Through, TypeInv
    <2>2. QED
      BY <2>1, NothingDrawn
  <1>4. CASE Load /\ UNCHANGED starts
    <2>1. /\ drawn' = drawn
          /\ stage' \in Recording \cup {"draw"} =>
               /\ stage \in Recording \cup {"draw"} /\ Through' = Through
               /\ live' = live /\ poolCursor' = poolCursor
      BY <1>4 DEF Load, Recording, Through, TypeInv
    <2>2. QED
      BY <2>1, NothingDrawn
  <1>5. CASE LoadFails /\ UNCHANGED starts
    <2>1. /\ drawn' = drawn
          /\ stage' \in Recording \cup {"draw"} =>
               /\ stage \in Recording \cup {"draw"} /\ Through' = Through
               /\ live' = live /\ poolCursor' = poolCursor
      BY <1>5 DEF LoadFails, Fail, Recording, Through, TypeInv
    <2>2. QED
      BY <2>1, NothingDrawn
  <1>6. CASE WriteTable /\ UNCHANGED starts
    <2>1. Len(Tables) = 5 /\ stage = "tables"
      BY <1>6 DEF Tables, WriteTable
    <2>2. CASE next < 5
      <3>1. drawn' = drawn /\ stage' = "tables"
        BY <1>6, <2>1, <2>2 DEF WriteTable
      <3>2. QED
        BY <3>1, NothingDrawn DEF Recording
    <2>3. CASE ~(next < 5)
      <3>1. /\ drawn' = drawn /\ stage' = "draw" /\ epoch' = 0 /\ poolCursor' = 0
            /\ live' = 0 .. BaseN - 1
        BY <1>6, <2>1, <2>3 DEF WriteTable
      <3>2. EpochsInv'
        BY <3>1, OfferedSame DEF EpochsInv, Added
      <3>3. 1 .. 0 = {} /\ BaseN .. BaseN + 0 - 1 = {} /\ 0 .. BaseN + 0 - 1 = 0 .. BaseN - 1
        OBVIOUS
      <3>4. MemoryInv'
        BY <3>1, <3>3 DEF MemoryInv, Through, Recording, Added, Removed
      <3>5. QED
        BY <3>2, <3>4
    <2>4. QED
      BY <2>2, <2>3
  <1>7. CASE DrawEpoch /\ UNCHANGED starts
    BY <1>7, OneEpochKeeps
  <1>8. CASE WriteInserts /\ UNCHANGED starts
    <2>1. /\ drawn' = drawn
          /\ stage' \in Recording \cup {"draw"} =>
               /\ stage \in Recording \cup {"draw"} /\ Through' = Through
               /\ live' = live /\ poolCursor' = poolCursor
      BY <1>8 DEF WriteInserts, Recording, Through, TypeInv
    <2>2. QED
      BY <2>1, NothingDrawn
  <1>9. CASE WriteDeletes /\ UNCHANGED starts
    <2>1. /\ drawn' = drawn
          /\ stage' \in Recording \cup {"draw"} =>
               /\ stage \in Recording \cup {"draw"} /\ Through' = Through
               /\ live' = live /\ poolCursor' = poolCursor
      BY <1>9 DEF WriteDeletes, NextEpoch, Recording, Through, TypeInv
    <2>2. QED
      BY <2>1, NothingDrawn
  <1>10. CASE KeepBest /\ UNCHANGED starts
    <2>1. /\ drawn' = drawn
          /\ stage' \in Recording \cup {"draw"} =>
               /\ stage \in Recording \cup {"draw"} /\ Through' = Through
               /\ live' = live /\ poolCursor' = poolCursor
      BY <1>10 DEF KeepBest, Recording, Through, TypeInv
    <2>2. QED
      BY <2>1, NothingDrawn
  <1>11. CASE WriteTruth /\ UNCHANGED starts
    <2>1. /\ drawn' = drawn
          /\ stage' \in Recording \cup {"draw"} =>
               /\ stage \in Recording \cup {"draw"} /\ Through' = Through
               /\ live' = live /\ poolCursor' = poolCursor
      BY <1>11 DEF WriteTruth, NextEpoch, Recording, Through, TypeInv
    <2>2. QED
      BY <2>1, NothingDrawn
  <1>12. CASE WriteSnapshot /\ UNCHANGED starts
    <2>1. /\ drawn' = drawn
          /\ stage' \in Recording \cup {"draw"} =>
               /\ stage \in Recording \cup {"draw"} /\ Through' = Through
               /\ live' = live /\ poolCursor' = poolCursor
      BY <1>12 DEF WriteSnapshot, Recording, Through, TypeInv
    <2>2. QED
      BY <2>1, NothingDrawn
  <1>13. CASE ComputeTruth /\ UNCHANGED starts
    <2>1. /\ drawn' = drawn
          /\ stage' \in Recording \cup {"draw"} =>
               /\ stage \in Recording \cup {"draw"} /\ Through' = Through
               /\ live' = live /\ poolCursor' = poolCursor
      BY <1>13 DEF ComputeTruth, Recording, Through, TypeInv
    <2>2. QED
      BY <2>1, NothingDrawn
  <1>14. CASE ComputeFails /\ UNCHANGED starts
    <2>1. /\ drawn' = drawn
          /\ stage' \in Recording \cup {"draw"} =>
               /\ stage \in Recording \cup {"draw"} /\ Through' = Through
               /\ live' = live /\ poolCursor' = poolCursor
      BY <1>14 DEF ComputeFails, Fail, Recording, Through, TypeInv
    <2>2. QED
      BY <2>1, NothingDrawn
  <1>15. CASE RemapTruth /\ UNCHANGED starts
    <2>1. /\ drawn' = drawn
          /\ stage' \in Recording \cup {"draw"} =>
               /\ stage \in Recording \cup {"draw"} /\ Through' = Through
               /\ live' = live /\ poolCursor' = poolCursor
      BY <1>15 DEF RemapTruth, Recording, Through, TypeInv
    <2>2. QED
      BY <2>1, NothingDrawn
  <1>16. CASE RemoveSnapshot /\ UNCHANGED starts
    <2>1. /\ drawn' = drawn
          /\ stage' \in Recording \cup {"draw"} =>
               /\ stage \in Recording \cup {"draw"} /\ Through' = Through
               /\ live' = live /\ poolCursor' = poolCursor
      BY <1>16 DEF RemoveSnapshot, NextEpoch, Recording, Through, TypeInv
    <2>2. QED
      BY <2>1, NothingDrawn
  <1>17. CASE WriteManifest /\ UNCHANGED starts
    <2>1. /\ drawn' = drawn
          /\ stage' \in Recording \cup {"draw"} =>
               /\ stage \in Recording \cup {"draw"} /\ Through' = Through
               /\ live' = live /\ poolCursor' = poolCursor
      BY <1>17 DEF WriteManifest, Recording, Through, TypeInv
    <2>2. QED
      BY <2>1, NothingDrawn
  <1>18. CASE OpenCopy /\ UNCHANGED starts
    <2>1. /\ drawn' = drawn
          /\ stage' \in Recording \cup {"draw"} =>
               /\ stage \in Recording \cup {"draw"} /\ Through' = Through
               /\ live' = live /\ poolCursor' = poolCursor
      BY <1>18 DEF OpenCopy, Recording, Through, TypeInv
    <2>2. QED
      BY <2>1, NothingDrawn
  <1>19. CASE ConvertChunk /\ UNCHANGED starts
    <2>1. /\ drawn' = drawn
          /\ stage' \in Recording \cup {"draw"} =>
               /\ stage \in Recording \cup {"draw"} /\ Through' = Through
               /\ live' = live /\ poolCursor' = poolCursor
      BY <1>19 DEF ConvertChunk, Recording, Through, TypeInv
    <2>2. QED
      BY <2>1, NothingDrawn
  <1>20. CASE ConvertStops /\ UNCHANGED starts
    <2>1. /\ drawn' = drawn
          /\ stage' \in Recording \cup {"draw"} =>
               /\ stage \in Recording \cup {"draw"} /\ Through' = Through
               /\ live' = live /\ poolCursor' = poolCursor
      BY <1>20 DEF ConvertStops, Recording, Through, TypeInv
    <2>2. QED
      BY <2>1, NothingDrawn
  <1>21. CASE FinishCopy /\ UNCHANGED starts
    <2>1. /\ drawn' = drawn
          /\ stage' \in Recording \cup {"draw"} =>
               /\ stage \in Recording \cup {"draw"} /\ Through' = Through
               /\ live' = live /\ poolCursor' = poolCursor
      BY <1>21 DEF FinishCopy, Recording, Through, TypeInv
    <2>2. QED
      BY <2>1, NothingDrawn
  <1>22. CASE Kill
    <2>1. /\ drawn' = drawn
          /\ stage' \in Recording \cup {"draw"} =>
               /\ stage \in Recording \cup {"draw"} /\ Through' = Through
               /\ live' = live /\ poolCursor' = poolCursor
      BY <1>22 DEF Kill, Forget, Recording, Through, TypeInv
    <2>2. QED
      BY <2>1, NothingDrawn
  <1>23. CASE StartAgain
    <2>1. /\ drawn' = drawn
          /\ stage' \in Recording \cup {"draw"} =>
               /\ stage \in Recording \cup {"draw"} /\ Through' = Through
               /\ live' = live /\ poolCursor' = poolCursor
      BY <1>23 DEF StartAgain, Forget, Recording, Through, TypeInv
    <2>2. QED
      BY <2>1, NothingDrawn
  <1>24. CASE UNCHANGED vars
    <2>1. /\ drawn' = drawn
          /\ stage' \in Recording \cup {"draw"} =>
               /\ stage \in Recording \cup {"draw"} /\ Through' = Through
               /\ live' = live /\ poolCursor' = poolCursor
      BY <1>24 DEF vars, Recording, Through, TypeInv
    <2>2. QED
      BY <2>1, NothingDrawn
  <1>25. QED
    BY <1>1, <1>2, <1>3, <1>4, <1>5, <1>6, <1>7, <1>8, <1>9, <1>10, <1>11, <1>12, <1>13, <1>14,
          <1>15, <1>16, <1>17, <1>18, <1>19, <1>20, <1>21, <1>22, <1>23, <1>24
    DEF Next, Run, Generate, Convert, Ended

-----------------------------------------------------------------------------
(***************************************************************************)
(* Ranks: in a strict order of a finite set, one member has each number of *)
(* members ahead of it.                                                    *)
(***************************************************************************)

\* R is a strict total order of S, as a set of pairs.
Precedes(R, u, v) == <<u, v>> \in R
StrictOrder(R, S) ==
  /\ \A u \in S : ~Precedes(R, u, u)
  /\ \A u, v \in S : u # v => Precedes(R, u, v) \/ Precedes(R, v, u)
  /\ \A u, v, w \in S : Precedes(R, u, v) /\ Precedes(R, v, w) => Precedes(R, u, w)
Lower(R, S, u) == {v \in S : Precedes(R, v, u)}

\* Of two members the later has more members ahead of it, and the numbers are those below the size.
LEMMA RanksRise ==
  ASSUME NEW S, IsFiniteSet(S), NEW R, StrictOrder(R, S)
  PROVE  /\ Cardinality(S) \in Nat
         /\ \A u \in S : Cardinality(Lower(R, S, u)) \in 0 .. Cardinality(S) - 1
         /\ \A u, v \in S : Precedes(R, u, v) =>
              Cardinality(Lower(R, S, u)) < Cardinality(Lower(R, S, v))
         /\ \A u, v \in S : u # v => Precedes(R, u, v) \/ Precedes(R, v, u)
PROOF
  <1>1. Cardinality(S) \in Nat
    BY FS_CardinalityType
  <1>2. ASSUME NEW u \in S
        PROVE  IsFiniteSet(Lower(R, S, u)) /\ Cardinality(Lower(R, S, u)) \in Nat
    <2>1. Lower(R, S, u) \subseteq S
      BY DEF Lower
    <2>2. IsFiniteSet(Lower(R, S, u))
      BY <2>1, FS_Subset
    <2>3. QED
      BY <2>2, FS_CardinalityType
  <1>3. ASSUME NEW u \in S, NEW T, IsFiniteSet(T), Lower(R, S, u) \subseteq T, u \in T
        PROVE  Cardinality(Lower(R, S, u)) < Cardinality(T)
    <2>1. u \notin Lower(R, S, u)
      BY DEF Lower, StrictOrder
    <2>2. /\ Cardinality(Lower(R, S, u)) <= Cardinality(T)
          /\ Cardinality(Lower(R, S, u)) = Cardinality(T) => Lower(R, S, u) = T
      BY <1>3, FS_Subset
    <2>3. Cardinality(T) \in Nat
      BY <1>3, FS_CardinalityType
    <2>4. QED
      BY <1>2, <1>3, <2>1, <2>2, <2>3
  <1>4. ASSUME NEW u \in S
        PROVE  Cardinality(Lower(R, S, u)) \in 0 .. Cardinality(S) - 1
    <2>1. Lower(R, S, u) \subseteq S
      BY DEF Lower
    <2>2. Cardinality(Lower(R, S, u)) < Cardinality(S)
      BY <1>3, <2>1
    <2>3. QED
      BY <1>1, <1>2, <2>2
  <1>5. ASSUME NEW u \in S, NEW v \in S, Precedes(R, u, v)
        PROVE  Cardinality(Lower(R, S, u)) < Cardinality(Lower(R, S, v))
    <2>1. Lower(R, S, u) \subseteq Lower(R, S, v) /\ u \in Lower(R, S, v)
      BY <1>5 DEF Lower, StrictOrder
    <2>2. QED
      BY <1>2, <1>3, <2>1
  <1>6. ASSUME NEW u \in S, NEW v \in S, u # v
        PROVE  Precedes(R, u, v) \/ Precedes(R, v, u)
    BY <1>6 DEF StrictOrder
  <1>7. QED
    BY <1>1, <1>4, <1>5, <1>6

\* Every number below the size is the rank of a member.
LEMMA RanksTaken ==
  ASSUME NEW S, IsFiniteSet(S), NEW R, StrictOrder(R, S), NEW p \in 0 .. Cardinality(S) - 1
  PROVE  \E u \in S : Cardinality(Lower(R, S, u)) = p
PROOF
  <1> DEFINE n == Cardinality(S)
             rank == [u \in S |-> Cardinality(Lower(R, S, u))]
  <1>1. n \in Nat /\ rank \in [S -> 0 .. n - 1]
    BY RanksRise
  <1>2. \A u, v \in S : u # v => rank[u] # rank[v]
    <2> SUFFICES ASSUME NEW u \in S, NEW v \in S, u # v
                 PROVE  rank[u] # rank[v]
      OBVIOUS
    <2>1. rank[u] \in Int /\ rank[v] \in Int
      BY <1>1
    <2>2. rank[u] < rank[v] \/ rank[v] < rank[u]
      BY RanksRise DEF StrictOrder
    <2> HIDE DEF rank
    <2>3. QED
      BY <2>1, <2>2
  <1> HIDE DEF rank
  <1>3. rank \in Injection(S, 0 .. n - 1)
    BY <1>1, <1>2 DEF Injection, IsInjective
  <1>4. IsFiniteSet(0 .. n - 1) /\ Cardinality(0 .. n - 1) = n
    <2>1. 0 \in Int /\ n - 1 \in Int
      BY <1>1
    <2> HIDE DEF n
    <2>2. IsFiniteSet(0 .. n - 1) /\ Cardinality(0 .. n - 1) = IF 0 > n - 1 THEN 0 ELSE n - 1 - 0 + 1
      BY <2>1, FS_Interval
    <2>3. QED
      BY <1>1, <2>2
  <1>5. rank \in Surjection(S, 0 .. n - 1)
    BY <1>3, <1>4, FS_Injection
  <1>6. PICK u \in S : rank[u] = p
    BY <1>5 DEF Surjection
  <1>7. QED
    BY <1>6 DEF rank

\* A list with the member of rank p at place p is the set, in its order.
LEMMA RanksList ==
  ASSUME NEW S, IsFiniteSet(S), NEW R, StrictOrder(R, S),
         NEW e \in [0 .. Cardinality(S) - 1 -> S],
         \A p \in 0 .. Cardinality(S) - 1 : Cardinality(Lower(R, S, e[p])) = p
  PROVE  /\ \A x \in S : \E p \in 0 .. Cardinality(S) - 1 : e[p] = x
         /\ \A p, r \in 0 .. Cardinality(S) - 1 : p < r => Precedes(R, e[p], e[r])
PROOF
  <1>1. /\ Cardinality(S) \in Nat
        /\ \A u \in S : Cardinality(Lower(R, S, u)) \in 0 .. Cardinality(S) - 1
        /\ \A u, v \in S : Precedes(R, u, v) =>
              Cardinality(Lower(R, S, u)) < Cardinality(Lower(R, S, v))
        /\ \A u, v \in S : u # v => Precedes(R, u, v) \/ Precedes(R, v, u)
    BY RanksRise
  <1>2. ASSUME NEW u \in S, NEW v \in S,
               Cardinality(Lower(R, S, u)) = Cardinality(Lower(R, S, v)), u # v
        PROVE  FALSE
    <2>1. Precedes(R, u, v) \/ Precedes(R, v, u)
      BY <1>1, <1>2
    <2>2. Cardinality(Lower(R, S, u)) \in Int /\ Cardinality(Lower(R, S, v)) \in Int
      BY <1>1
    <2>3. QED
      BY <1>1, <1>2, <2>1, <2>2
  <1>3. ASSUME NEW x \in S
        PROVE  \E p \in 0 .. Cardinality(S) - 1 : e[p] = x
    <2>1. PICK p \in 0 .. Cardinality(S) - 1 : p = Cardinality(Lower(R, S, x))
      BY <1>1
    <2>2. e[p] \in S /\ Cardinality(Lower(R, S, e[p])) = p
      OBVIOUS
    <2>3. QED
      BY <1>2, <2>1, <2>2
  <1>4. ASSUME NEW p \in 0 .. Cardinality(S) - 1, NEW r \in 0 .. Cardinality(S) - 1, p < r
        PROVE  Precedes(R, e[p], e[r])
    <2>1. PICK u \in S, v \in S : /\ u = e[p] /\ Cardinality(Lower(R, S, u)) = p
                                  /\ v = e[r] /\ Cardinality(Lower(R, S, v)) = r
      OBVIOUS
    <2>2. Precedes(R, u, v)
      BY <1>1, <1>4, <2>1
    <2>3. QED
      BY <2>1, <2>2
  <1>5. QED
    BY <1>3, <1>4

\* A set of ids is finite.
LEMMA IdsFinite ==
  ASSUME NEW rows \in SUBSET Gids
  PROVE  IsFiniteSet(rows) /\ Cardinality(rows) \in Nat
PROOF
  <1>1. 0 \in Int /\ BaseN + PoolN - 1 \in Int
    OBVIOUS
  <1>2. IsFiniteSet(Gids)
    BY <1>1, FS_Interval DEF Gids
  <1>3. IsFiniteSet(rows)
    BY <1>2, FS_Subset
  <1>4. QED
    BY <1>3, FS_CardinalityType

\* The ids by position are those of the set, in ascending order (gen_workload.py, active_ids).
LEMMA IdsByPosition ==
  ASSUME NEW rows \in SUBSET Gids
  PROVE  /\ \A p \in 0 .. Cardinality(rows) - 1 : IdAt(rows, p) \in rows
         /\ \A x \in rows : \E p \in 0 .. Cardinality(rows) - 1 : IdAt(rows, p) = x
         /\ \A p, r \in 0 .. Cardinality(rows) - 1 : p < r => IdAt(rows, p) < IdAt(rows, r)
PROOF
  <1> DEFINE R == {pair \in rows \X rows : pair[1] < pair[2]}
             e == [p \in 0 .. Cardinality(rows) - 1 |-> IdAt(rows, p)]
  <1>1. IsFiniteSet(rows) /\ \A u \in rows : u \in Int
    BY IdsFinite DEF Gids
  <1>2. \A u, v \in rows : Precedes(R, u, v) <=> u < v
    BY DEF Precedes
  <1> HIDE DEF R
  <1>3. StrictOrder(R, rows)
    BY <1>1, <1>2 DEF StrictOrder
  <1>4. \A u \in rows : Lower(R, rows, u) = {v \in rows : v < u}
    BY <1>2 DEF Lower
  <1>5. ASSUME NEW p \in 0 .. Cardinality(rows) - 1
        PROVE  IdAt(rows, p) \in rows /\ Cardinality(Lower(R, rows, IdAt(rows, p))) = p
    <2>1. \E u \in rows : Cardinality(Lower(R, rows, u)) = p
      BY <1>1, <1>3, RanksTaken
    <2>2. \E u \in rows : Cardinality({v \in rows : v < u}) = p
      BY <1>4, <2>1
    <2>3. IdAt(rows, p) \in rows /\ Cardinality({v \in rows : v < IdAt(rows, p)}) = p
      BY <2>2 DEF IdAt
    <2>4. QED
      BY <1>4, <2>3
  <1>6. /\ e \in [0 .. Cardinality(rows) - 1 -> rows]
        /\ \A p \in 0 .. Cardinality(rows) - 1 : e[p] = IdAt(rows, p)
    BY <1>5
  <1> HIDE DEF e
  <1>7. \A p \in 0 .. Cardinality(rows) - 1 : Cardinality(Lower(R, rows, e[p])) = p
    BY <1>5, <1>6
  <1>8. /\ \A x \in rows : \E p \in 0 .. Cardinality(rows) - 1 : e[p] = x
        /\ \A p, r \in 0 .. Cardinality(rows) - 1 : p < r => Precedes(R, e[p], e[r])
    BY <1>1, <1>3, <1>6, <1>7, RanksList
  <1>9. \A p, r \in 0 .. Cardinality(rows) - 1 : p < r => e[p] < e[r]
    BY <1>2, <1>6, <1>8
  <1>10. QED
    BY <1>5, <1>6, <1>8, <1>9

\* The best rows in the order of the file: every one once, the nearer first.
LEMMA BestByRank ==
  ASSUME NEW q, NEW kept \in SUBSET Gids, \A r \in kept : Distance[<<q, r>>] \in Int
  PROVE  /\ \A p \in 0 .. Cardinality(kept) - 1 : RankAt(q, kept, p) \in kept
         /\ \A x \in kept : \E p \in 0 .. Cardinality(kept) - 1 : RankAt(q, kept, p) = x
         /\ \A p, r \in 0 .. Cardinality(kept) - 1 :
              p < r => Distance[<<q, RankAt(q, kept, p)>>] <= Distance[<<q, RankAt(q, kept, r)>>]
PROOF
  <1> DEFINE R == {pair \in kept \X kept : Ahead(q, pair[1], pair[2])}
             e == [p \in 0 .. Cardinality(kept) - 1 |-> RankAt(q, kept, p)]
  <1>1. IsFiniteSet(kept) /\ \A u \in kept : u \in Int
    BY IdsFinite DEF Gids
  <1>2. \A u, v \in kept : Precedes(R, u, v) <=> Ahead(q, u, v)
    BY DEF Precedes
  <1> HIDE DEF R
  <1>3. StrictOrder(R, kept)
    <2> DEFINE d(u) == Distance[<<q, u>>]
    <2>1. \A u \in kept : d(u) \in Int
      OBVIOUS
    <2>2. \A u, v \in kept : Precedes(R, u, v) <=> d(u) < d(v) \/ (d(u) = d(v) /\ u < v)
      BY <1>2 DEF Ahead
    <2> HIDE DEF d
    <2>3. QED
      BY <1>1, <2>1, <2>2 DEF StrictOrder
  <1>4. \A u \in kept : Lower(R, kept, u) = {v \in kept : Ahead(q, v, u)}
    BY <1>2 DEF Lower
  <1>5. ASSUME NEW p \in 0 .. Cardinality(kept) - 1
        PROVE  RankAt(q, kept, p) \in kept /\ Cardinality(Lower(R, kept, RankAt(q, kept, p))) = p
    <2>1. \E u \in kept : Cardinality(Lower(R, kept, u)) = p
      BY <1>1, <1>3, RanksTaken
    <2>2. \E u \in kept : Cardinality({v \in kept : Ahead(q, v, u)}) = p
      BY <1>4, <2>1
    <2>3. /\ RankAt(q, kept, p) \in kept
          /\ Cardinality({v \in kept : Ahead(q, v, RankAt(q, kept, p))}) = p
      BY <2>2 DEF RankAt
    <2>4. QED
      BY <1>4, <2>3
  <1>6. /\ e \in [0 .. Cardinality(kept) - 1 -> kept]
        /\ \A p \in 0 .. Cardinality(kept) - 1 : e[p] = RankAt(q, kept, p)
    BY <1>5
  <1> HIDE DEF e
  <1>7. \A p \in 0 .. Cardinality(kept) - 1 : Cardinality(Lower(R, kept, e[p])) = p
    BY <1>5, <1>6
  <1>8. /\ \A x \in kept : \E p \in 0 .. Cardinality(kept) - 1 : e[p] = x
        /\ \A p, r \in 0 .. Cardinality(kept) - 1 : p < r => Precedes(R, e[p], e[r])
    BY <1>1, <1>3, <1>6, <1>7, RanksList
  <1>9. \A u, v \in kept : Precedes(R, u, v) => Distance[<<q, u>>] <= Distance[<<q, v>>]
    BY <1>2 DEF Ahead
  <1>10. QED
    BY <1>5, <1>6, <1>8, <1>9

\* The best of the best so far and a block are the best of all rows seen (brute_force_gt).
LEMMA BlocksCompose ==
  ASSUME NEW q, NEW k \in Nat, NEW A, NEW C, IsFiniteSet(A), IsFiniteSet(C),
         \A r \in A \cup C : Distance[<<q, r>>] \in Int,
         NEW near \in Nearest(q, k, A), NEW kept \in Nearest(q, k, near \cup C)
  PROVE  kept \in Nearest(q, k, A \cup C)
PROOF
  <1> DEFINE d(u) == Distance[<<q, u>>]
  <1>1. \A r \in A \cup C : d(r) \in Int
    OBVIOUS
  <1>2. /\ near \subseteq A
        /\ Cardinality(near) = IF k < Cardinality(A) THEN k ELSE Cardinality(A)
        /\ \A u \in near, v \in A \ near : d(u) <= d(v)
    BY DEF Nearest
  <1>3. /\ kept \subseteq near \cup C
        /\ Cardinality(kept) =
             IF k < Cardinality(near \cup C) THEN k ELSE Cardinality(near \cup C)
        /\ \A u \in kept, v \in (near \cup C) \ kept : d(u) <= d(v)
    BY DEF Nearest
  <1>4. /\ IsFiniteSet(near) /\ IsFiniteSet(near \cup C) /\ IsFiniteSet(A \cup C) /\ IsFiniteSet(kept)
        /\ Cardinality(near) \in Nat /\ Cardinality(near \cup C) \in Nat /\ Cardinality(A) \in Nat
        /\ Cardinality(A \cup C) \in Nat /\ Cardinality(kept) \in Nat
    <2>1. IsFiniteSet(near)
      BY <1>2, FS_Subset
    <2>2. IsFiniteSet(near \cup C) /\ IsFiniteSet(A \cup C)
      BY <2>1, FS_Union
    <2>3. IsFiniteSet(kept)
      BY <1>3, <2>2, FS_Subset
    <2>4. QED
      BY <2>1, <2>2, <2>3, FS_CardinalityType
  <1>5. CASE Cardinality(A) <= k
    <2>1. near = A
      BY <1>2, <1>4, <1>5, FS_Subset
    <2>2. QED
      BY <2>1
  <1>6. CASE k < Cardinality(A)
    <2>1. Cardinality(near) = k
      BY <1>2, <1>6
    <2>2. k <= Cardinality(near \cup C)
      <3>1. near \subseteq near \cup C
        OBVIOUS
      <3>2. QED
        BY <1>4, <2>1, <3>1, FS_Subset
    <2>3. Cardinality(kept) = k
      BY <1>3, <1>4, <2>2
    <2>4. k < Cardinality(A \cup C)
      <3>1. A \subseteq A \cup C
        OBVIOUS
      <3>2. Cardinality(A) <= Cardinality(A \cup C)
        BY <1>4, <3>1, FS_Subset
      <3>3. QED
        BY <1>4, <1>6, <3>2
    <2>5. ASSUME NEW u \in kept, u \notin near
          PROVE  \E w \in near : w \notin kept
      <3>1. near # kept
        BY <2>5
      <3>2. ~(near \subseteq kept)
        BY <1>4, <2>1, <2>3, <3>1, FS_Subset
      <3>3. QED
        BY <3>2
    <2>6. ASSUME NEW u \in kept, NEW v \in (A \cup C) \ kept
          PROVE  d(u) <= d(v)
      <3>1. CASE v \in near \cup C
        BY <1>3, <3>1
      <3>2. CASE v \notin near \cup C
        <4>1. v \in A \ near
          BY <3>2
        <4>2. CASE u \in near
          BY <1>2, <4>1, <4>2
        <4>3. CASE u \notin near
          <5>1. PICK w \in near : w \notin kept
            BY <2>5, <4>3
          <5>2. d(u) <= d(w) /\ d(w) <= d(v)
            BY <1>2, <1>3, <4>1, <5>1
          <5>3. d(u) \in Int /\ d(w) \in Int /\ d(v) \in Int
            BY <1>1, <1>2, <1>3, <5>1
          <5> HIDE DEF d
          <5>4. QED
            BY <5>2, <5>3
        <4>4. QED
          BY <4>2, <4>3
      <3>3. QED
        BY <3>1, <3>2
    <2>7. kept \in SUBSET (A \cup C)
      BY <1>2, <1>3
    <2>8. Cardinality(kept) = IF k < Cardinality(A \cup C) THEN k ELSE Cardinality(A \cup C)
      BY <2>3, <2>4
    <2>9. QED
      BY <2>6, <2>7, <2>8 DEF Nearest
  <1>7. QED
    BY <1>4, <1>5, <1>6

\* A truth file that names, for the queries qs, the neighbours among rows.
Truthful(lists, qs, rows) ==
  lists \in [qs -> Seq(Int)] /\ \A q \in qs : IsTruth(q, rows, lists[q])

\* What a checkpoint is about to write: the best of the blocks looked at, or the tool's lists.
Seen(rows, n) == {IdAt(rows, p) : p \in 0 .. Least(n, Cardinality(rows)) - 1}
Best(kept, qs, rows, n) ==
  kept \in [qs -> SUBSET rows] /\ \A q \in qs : kept[q] \in Nearest(q, Wanted(rows), Seen(rows, n))
Positional(lists, qs, rows) ==
  /\ lists \in [qs -> [1 .. Wanted(rows) -> 0 .. Cardinality(rows) - 1]]
  /\ \A q \in qs : IsTruth(q, rows, [i \in 1 .. Wanted(rows) |-> ActiveIds(rows)[lists[q][i] + 1]])

\* The rows of the best in the order of the file are a truth (brute_force_gt).
LEMMA RankedIsTruth ==
  ASSUME NEW q, NEW rows \in SUBSET Gids, \A r \in rows : Distance[<<q, r>>] \in Int,
         NEW best0 \in Nearest(q, Wanted(rows), rows)
  PROVE  IsTruth(q, rows, Ranked(q, rows, best0)) /\ Ranked(q, rows, best0) \in Seq(Int)
PROOF
  <1> DEFINE list == Ranked(q, rows, best0)
             w == Cardinality(best0)
  <1>1. IsFiniteSet(rows) /\ Cardinality(rows) \in Nat /\ best0 \in SUBSET rows /\ best0 \in SUBSET Gids
    BY IdsFinite DEF Nearest
  <1>2. w = Wanted(rows) /\ w \in Nat /\ best0 \in Nearest(q, GtK, rows)
    BY <1>1 DEF Nearest, Wanted
  <1>3. \A r \in best0 : Distance[<<q, r>>] \in Int
    BY <1>1
  <1>4. /\ \A p \in 0 .. w - 1 : RankAt(q, best0, p) \in best0
        /\ \A x \in best0 : \E p \in 0 .. w - 1 : RankAt(q, best0, p) = x
        /\ \A p, r \in 0 .. w - 1 :
             p < r => Distance[<<q, RankAt(q, best0, p)>>] <= Distance[<<q, RankAt(q, best0, r)>>]
    BY <1>1, <1>3, BestByRank
  <1>5. list = [i \in 1 .. w |-> RankAt(q, best0, i - 1)]
    BY <1>2 DEF Ranked
  <1> HIDE DEF list, w
  <1>6. /\ DOMAIN list = 1 .. w /\ \A i \in 1 .. w : i - 1 \in 0 .. w - 1
        /\ \A i \in 1 .. w : list[i] = RankAt(q, best0, i - 1)
    BY <1>2, <1>5
  <1>7. \A i \in 1 .. w : list[i] \in best0 /\ list[i] \in Int
    BY <1>1, <1>4, <1>6 DEF Gids
  <1>8. list \in Seq(Int) /\ Len(list) = w
    <2>1. list \in [1 .. w -> Int]
      BY <1>5, <1>6, <1>7
    <2>2. QED
      BY <1>2, <2>1
  <1>9. {list[i] : i \in DOMAIN list} = best0
    <2>1. ASSUME NEW x \in best0
          PROVE  \E i \in 1 .. w : list[i] = x
      <3>1. PICK p \in 0 .. w - 1 : RankAt(q, best0, p) = x
        BY <1>4
      <3>2. PICK i \in 1 .. w : i - 1 = p
        BY <1>2
      <3>3. QED
        BY <1>6, <3>1, <3>2
    <2>2. QED
      BY <1>6, <1>7, <2>1
  <1>10. ASSUME NEW i \in 1 .. w, NEW j \in 1 .. w, i < j
         PROVE  Distance[<<q, list[i]>>] <= Distance[<<q, list[j]>>]
    <2>1. PICK a \in 0 .. w - 1, b \in 0 .. w - 1 : a = i - 1 /\ b = j - 1 /\ a < b
      BY <1>2, <1>6, <1>10
    <2>2. list[i] = RankAt(q, best0, a) /\ list[j] = RankAt(q, best0, b)
      BY <1>6, <2>1
    <2>3. QED
      BY <1>4, <2>1, <2>2
  <1>11. IsTruth(q, rows, list)
    BY <1>2, <1>6, <1>8, <1>9, <1>10 DEF IsTruth, w
  <1>12. QED
    BY <1>8, <1>11 DEF list

\* Nothing has been seen before the first block, everything after the last.
LEMMA SeenEnds ==
  ASSUME NEW rows \in SUBSET Gids, NEW n \in Nat
  PROVE  /\ Seen(rows, 0) = {}
         /\ Cardinality(rows) <= n => Seen(rows, n) = rows
PROOF
  <1>1. Cardinality(rows) \in Nat
    BY IdsFinite
  <1>2. 0 .. Least(0, Cardinality(rows)) - 1 = {}
    BY <1>1 DEF Least
  <1>3. Cardinality(rows) <= n => Least(n, Cardinality(rows)) = Cardinality(rows)
    BY <1>1 DEF Least
  <1>4. QED
    BY <1>2, <1>3, IdsByPosition DEF Seen

\* A block continues where the ones before it ended (brute_force_gt, s and e).
LEMMA SeenNext ==
  ASSUME NEW rows \in SUBSET Gids, NEW n \in Nat, n < Cardinality(rows)
  PROVE  Seen(rows, n + BaseChunk) = Seen(rows, n) \cup {IdAt(rows, p) : p \in Block(rows, n)}
PROOF
  <1> DEFINE c == Cardinality(rows)
             m == Least(n + BaseChunk, c)
  <1>1. c \in Nat /\ Least(n, c) = n /\ n <= m /\ m \in Nat
    BY IdsFinite DEF Least
  <1>2. Block(rows, n) = n .. m - 1
    BY DEF Block, Least
  <1> HIDE DEF c, m
  <1>3. 0 .. m - 1 = (0 .. n - 1) \cup (n .. m - 1)
    BY <1>1
  <1>4. Seen(rows, n + BaseChunk) = {IdAt(rows, p) : p \in 0 .. m - 1}
    BY DEF Seen, m, c
  <1>5. Seen(rows, n) = {IdAt(rows, p) : p \in 0 .. n - 1}
    BY <1>1 DEF Seen, c
  <1>6. QED
    BY <1>2, <1>3, <1>4, <1>5

\* What is seen are rows.
LEMMA SeenRows ==
  ASSUME NEW rows \in SUBSET Gids, NEW n \in Nat
  PROVE  Seen(rows, n) \in SUBSET rows
PROOF
  <1>1. Cardinality(rows) \in Nat
    BY IdsFinite
  <1>2. 0 .. Least(n, Cardinality(rows)) - 1 \subseteq 0 .. Cardinality(rows) - 1
    BY <1>1 DEF Least
  <1>3. QED
    BY <1>2, IdsByPosition DEF Seen

\* Positions replaced by the ids at them are a truth if the tool's rows were (diskann_gt).
LEMMA RemappedIsTruth ==
  ASSUME NEW qs, NEW rows \in SUBSET Gids, NEW lists, Positional(lists, qs, rows)
  PROVE  Truthful([q \in qs |-> [i \in DOMAIN lists[q] |-> IdAt(rows, lists[q][i])]], qs, rows)
PROOF
  <1> DEFINE named == [q \in qs |-> [i \in DOMAIN lists[q] |-> IdAt(rows, lists[q][i])]]
             w == Wanted(rows)
             n == Cardinality(rows)
  <1>1. n \in Nat /\ w \in Nat
    BY IdsFinite DEF Wanted
  <1>2. ASSUME NEW q \in qs
        PROVE  named[q] \in Seq(Int) /\ IsTruth(q, rows, named[q])
    <2> DEFINE s == lists[q]
               t == [i \in 1 .. w |-> IdAt(rows, s[i])]
    <2>1. /\ s \in [1 .. w -> 0 .. n - 1]
          /\ IsTruth(q, rows, [i \in 1 .. w |-> ActiveIds(rows)[s[i] + 1]])
      BY DEF Positional
    <2> HIDE DEF s, w
    <2>2. \A p \in 0 .. n - 1 : ActiveIds(rows)[p + 1] = IdAt(rows, p)
      <3>1. \A p \in 0 .. n - 1 : p + 1 \in 1 .. n /\ (p + 1) - 1 = p
        BY <1>1
      <3>2. QED
        BY <3>1 DEF ActiveIds
    <2>3. \A i \in 1 .. w : ActiveIds(rows)[s[i] + 1] = IdAt(rows, s[i])
      BY <2>1, <2>2
    <2>4. [i \in 1 .. w |-> ActiveIds(rows)[s[i] + 1]] = t
      BY <2>3
    <2>5. IsTruth(q, rows, t)
      BY <2>1, <2>4
    <2>6. t \in Seq(Int)
      <3>1. \A i \in 1 .. w : IdAt(rows, s[i]) \in Int
        BY <2>1, IdsByPosition DEF Gids
      <3>2. t \in [1 .. w -> Int]
        BY <3>1
      <3>3. QED
        BY <1>1, <3>2
    <2>7. named[q] = [i \in DOMAIN s |-> IdAt(rows, s[i])]
      BY DEF s
    <2>8. named[q] = t
      BY <2>1, <2>7
    <2>9. QED
      BY <2>5, <2>6, <2>8
  <1>3. named \in [qs -> Seq(Int)]
    <2>1. \A q \in qs : named[q] \in Seq(Int)
      BY <1>2
    <2>2. named = [q \in qs |-> named[q]]
      OBVIOUS
    <2> HIDE DEF named
    <2>3. QED
      BY <2>1, <2>2
  <1> HIDE DEF named
  <1>4. Truthful(named, qs, rows)
    BY <1>2, <1>3 DEF Truthful
  <1>5. QED
    BY <1>4 DEF named

-----------------------------------------------------------------------------
(***************************************************************************)
(* What is on the disk.                                                    *)
(***************************************************************************)

\* What the first n epochs leave in the index.
LiveAfter(n) == ((0 .. BaseN - 1) \cup Added(n)) \ Removed(n)

\* How many epochs are on the disk with all their files, written by this run if one is at work.
Recorded ==
  IF Exists(Manifest) \/ stage = "manifest" THEN NEpochs
  ELSE IF stage \in Recording \cup {"draw"} THEN epoch ELSE 0

\* The files of the first n epochs say what was drawn, and what was nearest then.
EpochsGood(n) ==
  \A k \in 0 .. n - 1 :
    /\ disk[Inserts(k)] = drawn[k + 1].inss
    /\ disk[Deletes(k)] = drawn[k + 1].dels
    /\ IsCheckpoint(k) => Truthful(disk[Truth(k)], asked, LiveAfter(k + 1))
BaseWritten == disk[Ids(1)] = [i \in 1 .. BaseN |-> i - 1]
TablesGood == BaseWritten /\ disk[Vectors(3)] \in Ascending(asked)

FilesInv ==
  /\ Recorded <= Len(drawn) /\ EpochsGood(Recorded)
  /\ Recorded > 0 \/ stage \in Recording \cup {"draw"} => TablesGood
  /\ stage = "tables" /\ next > 2 => BaseWritten

\* The files of the epoch under way, and what a checkpoint is about to write.
WorkInv ==
  /\ stage \in Recording \ {"inserts"} => disk[Inserts(epoch)] = drawn[epoch + 1].inss
  /\ stage \in Recording \ {"inserts", "deletes"} => disk[Deletes(epoch)] = drawn[epoch + 1].dels
  /\ stage = "blocks" => Best(best, asked, live, next)
  /\ stage = "compute" => disk[Snapshot(epoch)] = ActiveIds(live)
  /\ stage = "remap" => Positional(disk[Truth(epoch)], asked, live)
  /\ stage = "cleanup" => Truthful(disk[Truth(epoch)], asked, live)
-----------------------------------------------------------------------------
\* The files of a workload are different files, and none is a copy, a snapshot or the manifest.
LEMMA WorkloadNames ==
  /\ \A k \in Epochs : {Inserts(k), Deletes(k), Truth(k)} \subseteq WorkloadFiles
  /\ \A k \in Epochs : Snapshot(k) \in Files \ WorkloadFiles
  /\ Ids(1) \in WorkloadFiles /\ Vectors(3) \in WorkloadFiles /\ Ids(1) # Vectors(3)
  /\ \A k, j \in Epochs : Inserts(k) # Deletes(j) /\ Inserts(k) # Truth(j) /\ Deletes(k) # Truth(j)
  /\ \A k, j \in Epochs :
       k # j => Inserts(k) # Inserts(j) /\ Deletes(k) # Deletes(j) /\ Truth(k) # Truth(j)
  /\ \A k \in Epochs : {Inserts(k), Deletes(k), Truth(k)} \cap {Ids(1), Vectors(3)} = {}
  /\ \A i \in 1 .. 3 : ByteCopy(i) \notin WorkloadFiles /\ ByteTmp(i) \notin WorkloadFiles
  /\ Manifest \notin WorkloadFiles /\ Manifest \in Files
  /\ \A k \in Epochs : Manifest \notin {Inserts(k), Deletes(k), Truth(k), Snapshot(k)}
  /\ WorkloadFiles \subseteq Files
PROOF
  <1>1. \A k \in Epochs : {Inserts(k), Deletes(k), Truth(k)} \subseteq WorkloadFiles
    BY DEF WorkloadFiles, Files, Inserts, Deletes, Truth
  <1>2. \A k \in Epochs : Snapshot(k) \in Files \ WorkloadFiles
    BY DEF WorkloadFiles, Files, Snapshot
  <1>3. Ids(1) \in WorkloadFiles /\ Vectors(3) \in WorkloadFiles /\ Ids(1) # Vectors(3)
    BY DEF WorkloadFiles, Files, Ids, Vectors
  <1>4. /\ \A k, j \in Epochs :
             Inserts(k) # Deletes(j) /\ Inserts(k) # Truth(j) /\ Deletes(k) # Truth(j)
        /\ \A k, j \in Epochs :
             k # j => Inserts(k) # Inserts(j) /\ Deletes(k) # Deletes(j) /\ Truth(k) # Truth(j)
        /\ \A k \in Epochs : {Inserts(k), Deletes(k), Truth(k)} \cap {Ids(1), Vectors(3)} = {}
        /\ \A k \in Epochs : Manifest \notin {Inserts(k), Deletes(k), Truth(k), Snapshot(k)}
    BY DEF Inserts, Deletes, Truth, Ids, Vectors, Manifest, Snapshot
  <1>5. \A i \in 1 .. 3 : ByteCopy(i) \notin WorkloadFiles /\ ByteTmp(i) \notin WorkloadFiles
    BY DEF WorkloadFiles, ByteCopy, ByteTmp
  <1>6. Manifest \notin WorkloadFiles /\ Manifest \in Files /\ WorkloadFiles \subseteq Files
    BY DEF WorkloadFiles, Manifest, Files
  <1>7. QED
    BY <1>1, <1>2, <1>3, <1>4, <1>5, <1>6

\* What is written is there, and only there.
LEMMA WrittenOnce ==
  ASSUME TypeInv, NEW file \in Files, NEW content, disk' = Written(file, content)
  PROVE  disk'[file] = content /\ \A f \in Files : f # file => disk'[f] = disk[f]
PROOF BY DEF TypeInv, Written

\* Of the recorded epochs, what depends on what: a step that leaves their files and what was drawn
\* for them leaves them good.
LEMMA EpochsKept ==
  ASSUME NEW n \in Nat, EpochsGood(n), asked' = asked,
         \A k \in 0 .. n - 1 : /\ disk'[Inserts(k)] = disk[Inserts(k)]
                               /\ disk'[Deletes(k)] = disk[Deletes(k)]
                               /\ disk'[Truth(k)] = disk[Truth(k)],
         \A k \in 1 .. n : drawn'[k] = drawn[k]
  PROVE  EpochsGood(n)'
PROOF
  <1>1. ASSUME NEW k \in 0 .. n - 1
        PROVE  LiveAfter(k + 1)' = LiveAfter(k + 1) /\ drawn'[k + 1] = drawn[k + 1]
    <2>1. \A j \in 1 .. k + 1 : drawn'[j] = drawn[j]
      OBVIOUS
    <2>2. k + 1 \in 1 .. k + 1
      OBVIOUS
    <2>3. Added(k + 1)' = Added(k + 1) /\ Removed(k + 1)' = Removed(k + 1)
      BY <2>1 DEF Added, Removed
    <2>4. QED
      BY <2>1, <2>2, <2>3 DEF LiveAfter
  <1>2. ASSUME NEW k \in 0 .. n - 1
        PROVE  /\ disk'[Inserts(k)] = drawn'[k + 1].inss
               /\ disk'[Deletes(k)] = drawn'[k + 1].dels
               /\ IsCheckpoint(k) => Truthful(disk'[Truth(k)], asked', LiveAfter(k + 1)')
    BY <1>1 DEF EpochsGood
  <1>3. QED
    BY <1>2 DEF EpochsGood

\* While a run is drawing, its memory is what the epochs so far leave.
LEMMA LiveIsReplayed ==
  ASSUME TypeInv, MemoryInv, stage \in Recording \cup {"draw"}
  PROVE  live = LiveAfter(Through)
PROOF
  <1>1. /\ Added(Through) = BaseN .. BaseN + poolCursor - 1 /\ poolCursor \in Nat
        /\ live = (0 .. BaseN + poolCursor - 1) \ Removed(Through)
    BY DEF MemoryInv, TypeInv
  <1>2. (0 .. BaseN - 1) \cup (BaseN .. BaseN + poolCursor - 1) = 0 .. BaseN + poolCursor - 1
    BY <1>1
  <1>3. QED
    BY <1>1, <1>2 DEF LiveAfter

\* Distances of the queries drawn are numbers.
LEMMA Distances ==
  ASSUME TypeInv, NEW q \in asked, NEW r \in Gids
  PROVE  Distance[<<q, r>>] \in Int
PROOF BY DistanceAssumption DEF TypeInv

\* How many epochs are recorded, by what is going on.
LEMMA RecordedBy ==
  ASSUME ManifestInv
  PROVE  /\ stage \in Recording \cup {"draw"} => Recorded = epoch
         /\ Generating /\ stage \notin Recording \cup {"draw", "manifest"} => Recorded = 0
         /\ stage = "manifest" \/ Exists(Manifest) => Recorded = NEpochs
         /\ ~Generating /\ ~Exists(Manifest) => Recorded = 0
PROOF BY DEF ManifestInv, Recorded, Generating, Recording
-----------------------------------------------------------------------------
\* A step that leaves the files of the workload leaves them good.
LEMMA QuietKeeps ==
  ASSUME TypeInv, TypeInv', FilesInv, asked' = asked, drawn' = drawn,
         \A f \in WorkloadFiles : disk'[f] = disk[f],
         stage' \notin Recording \cup {"draw", "tables"}, Recorded' \in {0, Recorded}
  PROVE  FilesInv' /\ WorkInv'
PROOF
  <1>1. PICK n \in Nat : n = Recorded'
    BY DEF Recorded, TypeInv, Epochs
  <1>2. n <= Len(drawn) /\ n <= NEpochs /\ EpochsGood(n) /\ (n > 0 => TablesGood)
    <2>1. Len(drawn) \in Nat /\ Len(drawn) <= NEpochs
      BY DEF TypeInv
    <2>2. CASE n = 0
      BY <2>1, <2>2 DEF EpochsGood
    <2>3. CASE n = Recorded
      BY <2>1, <2>3 DEF FilesInv
    <2>4. QED
      BY <1>1, <2>2, <2>3
  <1>3. \A k \in 0 .. n - 1 : k \in Epochs
    BY <1>2 DEF Epochs
  <1>4. EpochsGood(n)'
    <2>1. \A k \in 0 .. n - 1 : {Inserts(k), Deletes(k), Truth(k)} \subseteq WorkloadFiles
      BY <1>3, WorkloadNames
    <2>2. QED
      BY <1>2, <2>1, EpochsKept
  <1>5. n > 0 => TablesGood'
    BY <1>2, WorkloadNames DEF TablesGood, BaseWritten, Ascending
  <1>6. Recorded' <= Len(drawn') /\ EpochsGood(Recorded)'
    BY <1>1, <1>2, <1>4 DEF EpochsGood
  <1>7. FilesInv'
    BY <1>1, <1>5, <1>6 DEF FilesInv
  <1>8. WorkInv'
    BY DEF WorkInv, Recording
  <1>9. QED
    BY <1>7, <1>8

\* As long as no epoch counts there is nothing to keep.
LEMMA NothingRecorded ==
  ASSUME TypeInv', Recorded' = 0, stage' \notin Recording \cup {"draw"},
         stage' = "tables" /\ next' > 2 => BaseWritten'
  PROVE  FilesInv' /\ WorkInv'
PROOF
  <1>1. EpochsGood(Recorded)' /\ Recorded' <= Len(drawn')
    BY DEF EpochsGood, TypeInv
  <1>2. WorkInv'
    BY DEF WorkInv, Recording
  <1>3. QED
    BY <1>1, <1>2 DEF FilesInv

\* A step of a run at work on the epoch e leaves the files of the epochs before.
LEMMA EarlierKept ==
  ASSUME TypeInv, ManifestInv, FilesInv, stage \in Recording \cup {"draw"}, NEW e \in Epochs, e = epoch,
         asked' = asked, \A k \in 1 .. e : drawn'[k] = drawn[k],
         \A f \in WorkloadFiles \ {Inserts(e), Deletes(e), Truth(e)} : disk'[f] = disk[f]
  PROVE  e \in Nat /\ EpochsGood(e)' /\ TablesGood'
PROOF
  <1>1. e \in Nat /\ EpochsGood(e) /\ TablesGood
    BY RecordedBy DEF FilesInv, Epochs
  <1>2. ASSUME NEW k \in 0 .. e - 1
        PROVE  {Inserts(k), Deletes(k), Truth(k)}
                 \subseteq WorkloadFiles \ {Inserts(e), Deletes(e), Truth(e)}
    <2>1. k \in Epochs /\ k # e
      BY <1>1 DEF Epochs
    <2>2. QED
      BY <2>1, WorkloadNames
  <1>3. EpochsGood(e)'
    <2>1. \A k \in 0 .. e - 1 : /\ disk'[Inserts(k)] = disk[Inserts(k)]
                                /\ disk'[Deletes(k)] = disk[Deletes(k)]
                                /\ disk'[Truth(k)] = disk[Truth(k)]
      BY <1>2
    <2>2. QED
      BY <1>1, <2>1, EpochsKept
  <1>4. {Ids(1), Vectors(3)} \subseteq WorkloadFiles \ {Inserts(e), Deletes(e), Truth(e)}
    BY WorkloadNames
  <1>5. TablesGood'
    BY <1>1, <1>4 DEF TablesGood, BaseWritten, Ascending
  <1>6. QED
    BY <1>1, <1>3, <1>5

\* A run that is at work afterwards has recorded the epochs before its own.
LEMMA AtWork ==
  ASSUME TypeInv', ManifestInv', stage' \in Recording \cup {"draw"}, NEW e \in Epochs, epoch' = e,
         EpochsGood(e)', TablesGood'
  PROVE  FilesInv'
PROOF
  <1>1. Recorded' = e
    BY DEF ManifestInv, Recorded, Generating, Recording
  <1>2. e <= Len(drawn')
    BY DEF TypeInv, Recording, Epochs
  <1>3. EpochsGood(Recorded)'
    BY <1>1 DEF EpochsGood
  <1>4. stage' # "tables"
    BY DEF Recording
  <1>5. QED
    BY <1>1, <1>2, <1>3, <1>4 DEF FilesInv

\* With its last file written the epoch counts as recorded.
LEMMA EpochEnds ==
  ASSUME TypeInv, TypeInv', ManifestInv', NextEpoch, drawn' = drawn, NEW e \in Epochs, e = epoch,
         e < Len(drawn), EpochsGood(e)', TablesGood',
         disk'[Inserts(e)] = drawn'[e + 1].inss, disk'[Deletes(e)] = drawn'[e + 1].dels,
         IsCheckpoint(e) => Truthful(disk'[Truth(e)], asked', LiveAfter(e + 1)')
  PROVE  FilesInv' /\ WorkInv'
PROOF
  <1>1. e \in Nat /\ \A k \in 0 .. e : k \in 0 .. e - 1 \/ k = e
    BY DEF Epochs
  <1>2. \A k \in 0 .. e :
          /\ disk'[Inserts(k)] = drawn'[k + 1].inss
          /\ disk'[Deletes(k)] = drawn'[k + 1].dels
          /\ IsCheckpoint(k) => Truthful(disk'[Truth(k)], asked', LiveAfter(k + 1)')
    BY <1>1 DEF EpochsGood
  <1>3. Recorded' = e + 1 /\ stage' \in {"draw", "manifest"}
    <2>1. CASE e + 1 < NEpochs
      <3>1. stage' = "draw" /\ epoch' = e + 1
        BY <2>1 DEF NextEpoch
      <3>2. QED
        BY <3>1 DEF ManifestInv, Recorded, Generating
    <2>2. CASE ~(e + 1 < NEpochs)
      <3>1. stage' = "manifest" /\ e + 1 = NEpochs
        BY <2>2 DEF NextEpoch, Epochs
      <3>2. QED
        BY <3>1 DEF Recorded
    <2>3. QED
      BY <2>1, <2>2
  <1>4. EpochsGood(Recorded)' /\ Recorded' <= Len(drawn')
    <2>1. 0 .. Recorded' - 1 = 0 .. e
      BY <1>1, <1>3
    <2>2. Len(drawn) \in Nat
      BY DEF TypeInv
    <2>3. QED
      BY <1>1, <1>2, <1>3, <2>1, <2>2 DEF EpochsGood
  <1>5. WorkInv'
    BY <1>3 DEF WorkInv, Recording
  <1>6. QED
    BY <1>3, <1>4, <1>5 DEF FilesInv
-----------------------------------------------------------------------------
\* Writing the tables: the ids of the base are the second table, the queries the last.
LEMMA TablesWritten ==
  ASSUME TypeInv, TypeInv', ManifestInv, ManifestInv', FilesInv, WriteTable
  PROVE  FilesInv' /\ WorkInv'
PROOF
  <1>1. Len(Tables) = 5 /\ Tables[2] = Ids(1) /\ Tables[5] = Vectors(3) /\ next \in 1 .. 5
        /\ \A i \in 1 .. 5 : Tables[i] \in Files
    BY DEF Tables, WriteTable, TypeInv, Files, Vectors, Ids
  <1>2. \A i \in 1 .. 5 : i # 2 => Tables[i] # Ids(1)
    BY DEF Tables, Vectors, Ids
  <1>3. PICK queries \in Ascending(asked) : disk' = Written(Tables[next], Contents(queries)[next])
    BY DEF WriteTable
  <1>4. /\ Contents(queries)[2] = [i \in 1 .. BaseN |-> i - 1]
        /\ Contents(queries)[5] = queries
    BY DEF Contents
  <1>5. /\ disk'[Tables[next]] = Contents(queries)[next]
        /\ \A f \in Files : f # Tables[next] => disk'[f] = disk[f]
    <2>1. \A content : disk' = Written(Tables[next], content) =>
            /\ disk'[Tables[next]] = content
            /\ \A f \in Files : f # Tables[next] => disk'[f] = disk[f]
      BY <1>1, WrittenOnce
    <2>2. QED
      BY <1>3, <2>1
  <1>6. next >= 2 => BaseWritten'
    <2>1. CASE next = 2
      BY <1>1, <1>4, <1>5, <2>1 DEF BaseWritten
    <2>2. CASE next > 2
      <3>1. disk[Ids(1)] = [i \in 1 .. BaseN |-> i - 1]
        BY <2>2 DEF FilesInv, BaseWritten, WriteTable
      <3>2. Ids(1) # Tables[next] /\ Ids(1) \in Files
        BY <1>1, <1>2, <2>2
      <3>3. QED
        BY <1>5, <3>1, <3>2 DEF BaseWritten
    <2>3. QED
      BY <1>1, <2>1, <2>2
  <1>7. CASE next < 5
    <2>1. stage' = "tables" /\ next' = next + 1
      BY <1>1, <1>7 DEF WriteTable
    <2>2. Recorded' = 0
      BY <2>1 DEF ManifestInv, Recorded, Generating, Recording
    <2>3. QED
      BY <1>1, <1>6, <2>1, <2>2, NothingRecorded DEF Recording
  <1>8. CASE next = 5
    <2>1. stage' = "draw" /\ epoch' = 0 /\ asked' = asked
      BY <1>1, <1>8 DEF WriteTable, genDrawn
    <2>2. TablesGood'
      <3>1. disk'[Vectors(3)] = queries
        BY <1>1, <1>4, <1>5, <1>8
      <3>2. queries \in Ascending(asked)'
        BY <2>1 DEF Ascending
      <3>3. QED
        BY <1>6, <1>8, <3>1, <3>2 DEF TablesGood
    <2>3. EpochsGood(0)'
      BY DEF EpochsGood
    <2>4. 0 \in Epochs
      BY DEF Epochs
    <2>5. FilesInv'
      BY <2>1, <2>2, <2>3, <2>4, AtWork
    <2>6. WorkInv'
      BY <2>1 DEF WorkInv, Recording
    <2>7. QED
      BY <2>5, <2>6
  <1>9. QED
    BY <1>1, <1>7, <1>8

\* Drawing an epoch writes nothing and leaves what was drawn before.
LEMMA DrawnNext ==
  ASSUME TypeInv, TypeInv', ManifestInv, ManifestInv', EpochsInv, MemoryInv, FilesInv, DrawEpoch
  PROVE  FilesInv' /\ WorkInv'
PROOF
  <1>1. PICK e \in Epochs : e = epoch
    BY DEF TypeInv
  <1>2. stage = "draw" /\ stage' = "inserts" /\ epoch' = e /\ disk' = disk /\ asked' = asked
    BY <1>1 DEF DrawEpoch
  <1>3. \A k \in 1 .. e : drawn'[k] = drawn[k]
    BY <1>1, OneEpoch
  <1>4. EpochsGood(e)' /\ TablesGood'
    BY <1>1, <1>2, <1>3, EarlierKept
  <1>5. FilesInv'
    BY <1>1, <1>2, <1>4, AtWork DEF Recording
  <1>6. WorkInv'
    BY <1>2 DEF WorkInv, Recording
  <1>7. QED
    BY <1>5, <1>6

\* The list of inserts, then the list of deletes.
LEMMA InsertsWritten ==
  ASSUME TypeInv, TypeInv', ManifestInv, ManifestInv', FilesInv, WriteInserts
  PROVE  FilesInv' /\ WorkInv'
PROOF
  <1>1. PICK e \in Epochs : e = epoch
    BY DEF TypeInv
  <1>2. /\ stage = "inserts" /\ stage' = "deletes" /\ epoch' = e /\ asked' = asked /\ drawn' = drawn
        /\ disk' = Written(Inserts(e), drawn[e + 1].inss)
    BY <1>1 DEF WriteInserts, genMemory, genDrawn
  <1>3. /\ disk'[Inserts(e)] = drawn[e + 1].inss
        /\ \A f \in Files : f # Inserts(e) => disk'[f] = disk[f]
    <2>1. Inserts(e) \in Files
      BY WorkloadNames
    <2>2. QED
      BY <1>2, <2>1, WrittenOnce
  <1>4. EpochsGood(e)' /\ TablesGood'
    BY <1>1, <1>2, <1>3, EarlierKept, WorkloadNames DEF Recording
  <1>5. FilesInv'
    BY <1>1, <1>2, <1>4, AtWork DEF Recording
  <1>6. WorkInv'
    BY <1>2, <1>3 DEF WorkInv, Recording
  <1>7. QED
    BY <1>5, <1>6

LEMMA DeletesWritten ==
  ASSUME TypeInv, TypeInv', ManifestInv, ManifestInv', FilesInv, WorkInv, WriteDeletes
  PROVE  FilesInv' /\ WorkInv'
PROOF
  <1>1. PICK e \in Epochs : e = epoch
    BY DEF TypeInv
  <1>2. /\ stage = "deletes" /\ asked' = asked /\ drawn' = drawn /\ live' = live
        /\ disk' = Written(Deletes(e), drawn[e + 1].dels)
        /\ e < Len(drawn) /\ disk[Inserts(e)] = drawn[e + 1].inss
    BY <1>1 DEF WriteDeletes, genDrawn, TypeInv, WorkInv, Recording
  <1>3. /\ disk'[Deletes(e)] = drawn[e + 1].dels
        /\ \A f \in Files : f # Deletes(e) => disk'[f] = disk[f]
    <2>1. Deletes(e) \in Files
      BY WorkloadNames
    <2>2. QED
      BY <1>2, <2>1, WrittenOnce
  <1>4. disk'[Inserts(e)] = drawn[e + 1].inss
    BY <1>2, <1>3, WorkloadNames
  <1>5. EpochsGood(e)' /\ TablesGood'
    BY <1>1, <1>2, <1>3, EarlierKept, WorkloadNames DEF Recording
  <1>6. CASE IsCheckpoint(e)
    <2>1. /\ stage' \in {"snapshot", "blocks"} /\ epoch' = e
          /\ next' = 0 /\ best' = [q \in asked |-> {}]
      BY <1>1, <1>6 DEF WriteDeletes
    <2>2. FilesInv'
      BY <1>1, <1>5, <2>1, AtWork DEF Recording
    <2>3. Best(best', asked, live, 0)
      <3>1. live \in SUBSET Gids /\ Cardinality(live) \in Nat
        BY IdsFinite DEF TypeInv
      <3>2. Seen(live, 0) = {}
        BY <3>1, SeenEnds
      <3>3. Wanted(live) \in Nat /\ Cardinality({}) = 0
        BY <3>1, FS_EmptySet DEF Wanted
      <3>4. ASSUME NEW q \in asked
            PROVE  {} \in Nearest(q, Wanted(live), {})
        BY <3>3 DEF Nearest
      <3>5. QED
        BY <2>1, <3>2, <3>4 DEF Best
    <2>4. stage' = "blocks" => Best(best', asked', live', next')
      BY <1>2, <2>1, <2>3
    <2>5. WorkInv'
      BY <1>2, <1>3, <1>4, <2>1, <2>4 DEF WorkInv, Recording
    <2>6. QED
      BY <2>2, <2>5
  <1>7. CASE ~IsCheckpoint(e)
    <2>1. NextEpoch
      BY <1>1, <1>7 DEF WriteDeletes
    <2>2. QED
      BY <1>1, <1>2, <1>3, <1>4, <1>5, <1>7, <2>1, EpochEnds
  <1>8. QED
    BY <1>6, <1>7

\* A block: the best stay the nearest of the rows seen so far.
LEMMA BestKept ==
  ASSUME TypeInv, TypeInv', ManifestInv, ManifestInv', FilesInv, WorkInv, KeepBest
  PROVE  FilesInv' /\ WorkInv'
PROOF
  <1>1. PICK e \in Epochs : e = epoch
    BY DEF TypeInv
  <1>2. /\ stage = "blocks" /\ stage' = "blocks" /\ epoch' = e /\ asked' = asked /\ drawn' = drawn
        /\ live' = live /\ disk' = disk /\ next < Cardinality(live) /\ next' = next + BaseChunk
        /\ best' \in [asked -> SUBSET live]
        /\ \A q \in asked : best'[q] \in Kept(q, live, best[q], Block(live, next))
    BY <1>1 DEF KeepBest, genDrawn, NextBlock
  <1>3. EpochsGood(e)' /\ TablesGood'
    BY <1>1, <1>2, EarlierKept DEF Recording
  <1>4. FilesInv'
    BY <1>1, <1>2, <1>3, AtWork DEF Recording
  <1>5. live \in SUBSET Gids /\ next \in Nat /\ IsFiniteSet(live) /\ Wanted(live) \in Nat
    BY IdsFinite DEF TypeInv, Wanted
  <1> DEFINE block == {IdAt(live, p) : p \in Block(live, next)}
             seen == Seen(live, next)
  <1>6. Seen(live, next + BaseChunk) = seen \cup block
    BY <1>2, <1>5, SeenNext
  <1>7. seen \in SUBSET live /\ Seen(live, next + BaseChunk) \in SUBSET live
    <2>1. next + BaseChunk \in Nat
      BY <1>5
    <2>2. QED
      BY <1>5, <2>1, SeenRows
  <1>8. IsFiniteSet(seen) /\ IsFiniteSet(block) /\ seen \cup block \in SUBSET Gids
    <2>1. block \subseteq live /\ seen \subseteq live
      BY <1>6, <1>7
    <2> HIDE DEF block, seen
    <2>2. QED
      BY <1>5, <2>1, FS_Subset
  <1>9. ASSUME NEW q \in asked
        PROVE  best'[q] \in Nearest(q, Wanted(live), Seen(live, next + BaseChunk))
    <2>1. best[q] \in Nearest(q, Wanted(live), seen)
      BY <1>2 DEF WorkInv, Best
    <2>2. best'[q] \in Nearest(q, Wanted(live), best[q] \cup block)
      BY <1>2 DEF Kept
    <2> HIDE DEF block, seen
    <2>3. \A r \in seen \cup block : Distance[<<q, r>>] \in Int
      BY <1>8, Distances
    <2>4. best'[q] \in Nearest(q, Wanted(live), seen \cup block)
      BY <1>5, <1>8, <2>1, <2>2, <2>3, BlocksCompose
    <2>5. QED
      BY <1>6, <2>4 DEF block
  <1>10. Best(best', asked, live, next + BaseChunk)
    BY <1>2, <1>9 DEF Best
  <1>11. Best(best', asked', live', next')
    BY <1>2, <1>10
  <1>12. WorkInv'
    BY <1>1, <1>2, <1>11 DEF WorkInv, Recording
  <1>13. QED
    BY <1>4, <1>12

\* After the last block the best are the nearest of all.
LEMMA TruthWritten ==
  ASSUME TypeInv, TypeInv', ManifestInv, ManifestInv', MemoryInv, FilesInv, WorkInv, WriteTruth
  PROVE  FilesInv' /\ WorkInv'
PROOF
  <1>1. PICK e \in Epochs : e = epoch
    BY DEF TypeInv
  <1> DEFINE lists == [q \in asked |-> Ranked(q, live, best[q])]
  <1>2. /\ stage = "blocks" /\ asked' = asked /\ drawn' = drawn /\ Cardinality(live) <= next
        /\ disk' = Written(Truth(e), lists) /\ NextEpoch /\ e < Len(drawn)
        /\ disk[Inserts(e)] = drawn[e + 1].inss /\ disk[Deletes(e)] = drawn[e + 1].dels
        /\ Best(best, asked, live, next)
        /\ live \in SUBSET Gids /\ next \in Nat
    <2>1. stage = "blocks" /\ next >= Cardinality(live)
      BY DEF WriteTruth
    <2>2. live \in SUBSET Gids /\ next \in Nat /\ Cardinality(live) <= next
      <3>1. live \in SUBSET Gids /\ next \in Nat
        BY DEF TypeInv
      <3>2. Cardinality(live) \in Nat
        BY <3>1, IdsFinite
      <3>3. QED
        BY <2>1, <3>1, <3>2
    <2>3. QED
      BY <1>1, <2>1, <2>2 DEF WriteTruth, genDrawn, TypeInv, WorkInv, Recording
  <1>3. /\ disk'[Truth(e)] = lists
        /\ \A f \in Files : f # Truth(e) => disk'[f] = disk[f]
    <2>1. Truth(e) \in Files
      BY WorkloadNames
    <2> HIDE DEF lists
    <2>2. QED
      BY <1>2, <2>1, WrittenOnce
  <1>4. /\ disk'[Inserts(e)] = drawn[e + 1].inss
        /\ disk'[Deletes(e)] = drawn[e + 1].dels
    BY <1>2, <1>3, WorkloadNames
  <1>5. EpochsGood(e)' /\ TablesGood'
    BY <1>1, <1>2, <1>3, EarlierKept, WorkloadNames DEF Recording
  <1>6. ASSUME NEW q \in asked
        PROVE  /\ IsTruth(q, live, Ranked(q, live, best[q]))
               /\ Ranked(q, live, best[q]) \in Seq(Int)
    <2>1. best[q] \in Nearest(q, Wanted(live), live)
      BY <1>2, SeenEnds DEF Best
    <2>2. \A r \in live : Distance[<<q, r>>] \in Int
      BY <1>2, Distances
    <2>3. QED
      BY <1>2, <2>1, <2>2, RankedIsTruth
  <1>7. Truthful(lists, asked, live)
    BY <1>6 DEF Truthful
  <1> HIDE DEF lists
  <1>8. live = LiveAfter(e + 1) /\ LiveAfter(e + 1)' = LiveAfter(e + 1)
    BY <1>1, <1>2, LiveIsReplayed DEF Through, Recording, LiveAfter, Added, Removed
  <1>9. Truthful(disk'[Truth(e)], asked', LiveAfter(e + 1)')
    BY <1>2, <1>3, <1>7, <1>8
  <1>10. QED
    BY <1>1, <1>2, <1>4, <1>5, <1>9, EpochEnds

\* The other way: the active rows go to the tool, its positions come back as a truth file.
LEMMA SnapshotWritten ==
  ASSUME TypeInv, TypeInv', ManifestInv, ManifestInv', FilesInv, WorkInv, WriteSnapshot
  PROVE  FilesInv' /\ WorkInv'
PROOF
  <1>1. PICK e \in Epochs : e = epoch
    BY DEF TypeInv
  <1>2. /\ stage = "snapshot" /\ stage' = "compute" /\ epoch' = e /\ asked' = asked
        /\ drawn' = drawn /\ live' = live
        /\ disk' = Written(Snapshot(e), ActiveIds(live))
        /\ disk[Inserts(e)] = drawn[e + 1].inss /\ disk[Deletes(e)] = drawn[e + 1].dels
    BY <1>1 DEF WriteSnapshot, genMemory, genDrawn, WorkInv, Recording
  <1>3. /\ disk'[Snapshot(e)] = ActiveIds(live)
        /\ \A f \in WorkloadFiles : disk'[f] = disk[f]
    <2>1. Snapshot(e) \in Files \ WorkloadFiles /\ WorkloadFiles \subseteq Files
      BY WorkloadNames
    <2>2. QED
      BY <1>2, <2>1, WrittenOnce
  <1>4. EpochsGood(e)' /\ TablesGood'
    BY <1>1, <1>2, <1>3, EarlierKept DEF Recording
  <1>5. FilesInv'
    BY <1>1, <1>2, <1>4, AtWork DEF Recording
  <1>6. disk'[Inserts(e)] = disk[Inserts(e)] /\ disk'[Deletes(e)] = disk[Deletes(e)]
    BY <1>3, WorkloadNames
  <1>7. WorkInv'
    BY <1>2, <1>3, <1>6 DEF WorkInv, Recording
  <1>8. QED
    BY <1>5, <1>7

LEMMA ListsWritten ==
  ASSUME TypeInv, TypeInv', ManifestInv, ManifestInv', FilesInv, WorkInv, ComputeTruth
  PROVE  FilesInv' /\ WorkInv'
PROOF
  <1>1. PICK e \in Epochs : e = epoch
    BY DEF TypeInv
  <1>2. /\ stage = "compute" /\ stage' = "remap" /\ epoch' = e /\ asked' = asked
        /\ drawn' = drawn /\ live' = live
        /\ disk[Snapshot(e)] = ActiveIds(live)
        /\ disk[Inserts(e)] = drawn[e + 1].inss /\ disk[Deletes(e)] = drawn[e + 1].dels
    BY <1>1 DEF ComputeTruth, genMemory, genDrawn, WorkInv, Recording
  <1>3. PICK lists \in [asked -> UNION {ToolLists(q) : q \in asked}] :
          /\ \A q \in asked : lists[q] \in ToolLists(q)
          /\ disk' = Written(Truth(e), lists)
    BY <1>1 DEF ComputeTruth
  <1>4. disk'[Truth(e)] = lists /\ \A f \in Files : f # Truth(e) => disk'[f] = disk[f]
    <2>1. Truth(e) \in Files
      BY WorkloadNames
    <2>2. QED
      BY <1>3, <2>1, WrittenOnce
  <1>5. EpochsGood(e)' /\ TablesGood'
    BY <1>1, <1>2, <1>4, EarlierKept, WorkloadNames DEF Recording
  <1>6. FilesInv'
    BY <1>1, <1>2, <1>5, AtWork DEF Recording
  <1>7. ASSUME NEW q \in asked
        PROVE  /\ lists[q] \in [1 .. Wanted(live) -> 0 .. Cardinality(live) - 1]
               /\ IsTruth(q, live, [i \in 1 .. Wanted(live) |-> ActiveIds(live)[lists[q][i] + 1]])
    <2>1. PICK l : l = lists[q]
      OBVIOUS
    <2>2. /\ l \in [1 .. Wanted(live) -> 0 .. Cardinality(live) - 1]
          /\ IsTruth(q, live, [i \in DOMAIN l |-> ActiveIds(live)[l[i] + 1]])
      BY <1>1, <1>2, <1>3, <2>1 DEF ToolLists
    <2>3. DOMAIN l = 1 .. Wanted(live)
      BY <2>2
    <2>4. QED
      BY <2>1, <2>2, <2>3
  <1>8. Positional(lists, asked, live)
    <2>1. lists = [q \in asked |-> lists[q]]
      BY <1>3
    <2>2. lists \in [asked -> [1 .. Wanted(live) -> 0 .. Cardinality(live) - 1]]
      BY <1>7, <2>1
    <2>3. QED
      BY <1>7, <2>2 DEF Positional
  <1>9. Positional(disk'[Truth(e)], asked', live')
    BY <1>2, <1>4, <1>8
  <1>10. disk'[Inserts(e)] = disk[Inserts(e)] /\ disk'[Deletes(e)] = disk[Deletes(e)]
    BY <1>4, WorkloadNames
  <1>11. WorkInv'
    BY <1>2, <1>9, <1>10 DEF WorkInv, Recording
  <1>12. QED
    BY <1>6, <1>11

LEMMA Remapped ==
  ASSUME TypeInv, TypeInv', ManifestInv, ManifestInv', FilesInv, WorkInv, RemapTruth
  PROVE  FilesInv' /\ WorkInv'
PROOF
  <1>1. PICK e \in Epochs : e = epoch
    BY DEF TypeInv
  <1> DEFINE named == GlobalIds(disk[Truth(e)])
  <1>2. /\ stage = "remap" /\ stage' = "cleanup" /\ epoch' = e /\ asked' = asked
        /\ drawn' = drawn /\ live' = live
        /\ disk' = Written(Truth(e), named)
        /\ Positional(disk[Truth(e)], asked, live)
        /\ disk[Inserts(e)] = drawn[e + 1].inss /\ disk[Deletes(e)] = drawn[e + 1].dels
    BY <1>1 DEF RemapTruth, genMemory, genDrawn, WorkInv, Recording
  <1>3. Truthful(named, asked, live)
    BY <1>2, RemappedIsTruth DEF GlobalIds, TypeInv
  <1> HIDE DEF named
  <1>4. disk'[Truth(e)] = named /\ \A f \in Files : f # Truth(e) => disk'[f] = disk[f]
    <2>1. Truth(e) \in Files
      BY WorkloadNames
    <2>2. QED
      BY <1>2, <2>1, WrittenOnce
  <1>5. EpochsGood(e)' /\ TablesGood'
    BY <1>1, <1>2, <1>4, EarlierKept, WorkloadNames DEF Recording
  <1>6. FilesInv'
    BY <1>1, <1>2, <1>5, AtWork DEF Recording
  <1>7. Truthful(disk'[Truth(e)], asked', live')
    BY <1>2, <1>3, <1>4
  <1>8. disk'[Inserts(e)] = disk[Inserts(e)] /\ disk'[Deletes(e)] = disk[Deletes(e)]
    BY <1>4, WorkloadNames
  <1>9. WorkInv'
    BY <1>2, <1>7, <1>8 DEF WorkInv, Recording
  <1>10. QED
    BY <1>6, <1>9

LEMMA SnapshotRemoved ==
  ASSUME TypeInv, TypeInv', ManifestInv, ManifestInv', MemoryInv, FilesInv, WorkInv, RemoveSnapshot
  PROVE  FilesInv' /\ WorkInv'
PROOF
  <1>1. PICK e \in Epochs : e = epoch
    BY DEF TypeInv
  <1>2. /\ stage = "cleanup" /\ asked' = asked /\ drawn' = drawn
        /\ disk' = Written(Snapshot(e), Absent) /\ NextEpoch /\ e < Len(drawn)
        /\ disk[Inserts(e)] = drawn[e + 1].inss /\ disk[Deletes(e)] = drawn[e + 1].dels
        /\ Truthful(disk[Truth(e)], asked, live)
    BY <1>1 DEF RemoveSnapshot, genDrawn, TypeInv, WorkInv, Recording
  <1>3. \A f \in WorkloadFiles : disk'[f] = disk[f]
    <2>1. Snapshot(e) \in Files \ WorkloadFiles /\ WorkloadFiles \subseteq Files
      BY WorkloadNames
    <2>2. QED
      BY <1>2, <2>1, WrittenOnce
  <1>4. EpochsGood(e)' /\ TablesGood'
    BY <1>1, <1>2, <1>3, EarlierKept DEF Recording
  <1>5. /\ disk'[Inserts(e)] = disk[Inserts(e)] /\ disk'[Deletes(e)] = disk[Deletes(e)]
        /\ disk'[Truth(e)] = disk[Truth(e)]
    BY <1>3, WorkloadNames
  <1>6. live = LiveAfter(e + 1) /\ LiveAfter(e + 1)' = LiveAfter(e + 1)
    BY <1>1, <1>2, LiveIsReplayed DEF Through, Recording, LiveAfter, Added, Removed
  <1>7. Truthful(disk'[Truth(e)], asked', LiveAfter(e + 1)')
    BY <1>2, <1>5, <1>6
  <1>8. QED
    BY <1>1, <1>2, <1>4, <1>5, <1>7, EpochEnds

-----------------------------------------------------------------------------
\* With a manifest no step touches a file of the workload.
LEMMA StableStep ==
  ASSUME TypeInv, ManifestInv, Exists(Manifest), [Next]_vars
  PROVE  \A file \in WorkloadFiles : disk'[file] = disk[file]
PROOF
  <1> USE DEF genMemory, genDrawn
  <1>1. CASE Start
    BY <1>1 DEF Start, Starts
  <1>2. CASE QueriesDiffer
    BY <1>2 DEF QueriesDiffer, Fail
  <1>3. CASE StartCopies
    BY <1>3 DEF StartCopies
  <1>4. CASE Load /\ UNCHANGED starts
    BY <1>4 DEF Load, ManifestInv, Generating
  <1>5. CASE LoadFails /\ UNCHANGED starts
    BY <1>5 DEF LoadFails, ManifestInv, Generating
  <1>6. CASE WriteTable /\ UNCHANGED starts
    BY <1>6 DEF WriteTable, ManifestInv, Generating
  <1>7. CASE DrawEpoch /\ UNCHANGED starts
    BY <1>7 DEF DrawEpoch, ManifestInv, Generating
  <1>8. CASE WriteInserts /\ UNCHANGED starts
    BY <1>8 DEF WriteInserts, ManifestInv, Generating
  <1>9. CASE WriteDeletes /\ UNCHANGED starts
    BY <1>9 DEF WriteDeletes, ManifestInv, Generating
  <1>10. CASE KeepBest /\ UNCHANGED starts
    BY <1>10 DEF KeepBest, ManifestInv, Generating
  <1>11. CASE WriteTruth /\ UNCHANGED starts
    BY <1>11 DEF WriteTruth, ManifestInv, Generating
  <1>12. CASE WriteSnapshot /\ UNCHANGED starts
    BY <1>12 DEF WriteSnapshot, ManifestInv, Generating
  <1>13. CASE ComputeTruth /\ UNCHANGED starts
    BY <1>13 DEF ComputeTruth, ManifestInv, Generating
  <1>14. CASE ComputeFails /\ UNCHANGED starts
    BY <1>14 DEF ComputeFails, ManifestInv, Generating
  <1>15. CASE RemapTruth /\ UNCHANGED starts
    BY <1>15 DEF RemapTruth, ManifestInv, Generating
  <1>16. CASE RemoveSnapshot /\ UNCHANGED starts
    BY <1>16 DEF RemoveSnapshot, ManifestInv, Generating
  <1>17. CASE WriteManifest /\ UNCHANGED starts
    BY <1>17 DEF WriteManifest, ManifestInv, Generating
  <1>18. CASE OpenCopy /\ UNCHANGED starts
    <2>1. disk' = [disk EXCEPT ![ByteTmp(next)] = disk'[ByteTmp(next)]] /\ DOMAIN disk = Files
      BY <1>18 DEF OpenCopy, Staging, Written, TypeInv
    <2>2. \A file \in WorkloadFiles : file # ByteTmp(next)
      BY DEF WorkloadFiles, ByteTmp
    <2>3. QED
      BY <2>1, <2>2 DEF WorkloadFiles
  <1>19. CASE ConvertChunk /\ UNCHANGED starts
    <2>1. disk' = [disk EXCEPT ![ByteTmp(next)] = disk'[ByteTmp(next)]] /\ DOMAIN disk = Files
      BY <1>19 DEF ConvertChunk, Staging, Written, TypeInv
    <2>2. \A file \in WorkloadFiles : file # ByteTmp(next)
      BY DEF WorkloadFiles, ByteTmp
    <2>3. QED
      BY <2>1, <2>2 DEF WorkloadFiles
  <1>20. CASE ConvertStops /\ UNCHANGED starts
    <2>1. disk' = [disk EXCEPT ![ByteTmp(next)] = disk'[ByteTmp(next)]] /\ DOMAIN disk = Files
      BY <1>20 DEF ConvertStops, Staging, Written, TypeInv
    <2>2. \A file \in WorkloadFiles : file # ByteTmp(next)
      BY DEF WorkloadFiles, ByteTmp
    <2>3. QED
      BY <2>1, <2>2 DEF WorkloadFiles
  <1>21. CASE FinishCopy /\ UNCHANGED starts
    <2>1. \A file \in WorkloadFiles : file # ByteTmp(next) /\ file # ByteCopy(next)
      BY DEF WorkloadFiles, ByteTmp, ByteCopy
    <2>2. QED
      BY <1>21, <2>1 DEF FinishCopy, Staging, TypeInv, WorkloadFiles
  <1>22. CASE Kill
    <2>1. ~Generating
      BY DEF ManifestInv
    <2>2. Open = {}
      BY <2>1 DEF Open, Writes, Generating
    <2>3. QED
      BY <1>22, <2>2 DEF Kill
  <1>23. CASE StartAgain
    BY <1>23 DEF StartAgain
  <1>24. CASE UNCHANGED vars
    BY <1>24 DEF vars
  <1>25. QED
    BY <1>1, <1>2, <1>3, <1>4, <1>5, <1>6, <1>7, <1>8, <1>9, <1>10, <1>11, <1>12, <1>13, <1>14,
          <1>15, <1>16, <1>17, <1>18, <1>19, <1>20, <1>21, <1>22, <1>23, <1>24
    DEF Next, Run, Generate, Convert, Ended

\* Once the workload is complete a step that is not about to draw again keeps its files.
LEMMA CompleteKeeps ==
  ASSUME TypeInv, TypeInv', FilesInv, Exists(Manifest) \/ stage = "manifest",
         asked' = asked, drawn' = drawn, \A f \in WorkloadFiles : disk'[f] = disk[f],
         stage' \notin Recording \cup {"draw", "tables", "manifest"}
  PROVE  FilesInv' /\ WorkInv'
PROOF
  <1>1. Recorded = NEpochs
    BY DEF Recorded
  <1>2. Recorded' \in {0, NEpochs}
    BY DEF Recorded
  <1>3. QED
    BY <1>1, <1>2, QuietKeeps

\* A step that writes nothing and is not about to draw keeps them as well.
LEMMA IdleKeeps ==
  ASSUME TypeInv, TypeInv', FilesInv, asked' = asked, drawn' = drawn, disk' = disk,
         stage' \notin Recording \cup {"draw", "tables", "manifest"}
  PROVE  FilesInv' /\ WorkInv'
PROOF
  <1>1. CASE Exists(Manifest)
    BY <1>1, CompleteKeeps
  <1>2. CASE ~Exists(Manifest)
    <2>1. ~Exists(Manifest)'
      BY <1>2 DEF Exists
    <2>2. Recorded' = 0
      BY <2>1 DEF Recorded
    <2>3. QED
      BY <2>2, NothingRecorded
  <1>3. QED
    BY <1>1, <1>2

\* A kill tears at most the file being written, and then either no epoch counts or none is touched.
LEMMA KillKeeps ==
  ASSUME TypeInv, TypeInv', ManifestInv, FilesInv, Kill
  PROVE  FilesInv' /\ WorkInv'
PROOF
  <1>1. /\ stage' = "failed" /\ asked' = asked /\ drawn' = drawn
        /\ stage' \notin Recording \cup {"draw", "tables", "manifest"}
    BY DEF Kill, genDrawn, Recording
  <1>2. CASE disk' = disk
    BY <1>1, <1>2, IdleKeeps
  <1>3. CASE \E file \in Open : disk' = Written(file, Torn)
    <2>1. PICK file \in Open : disk' = Written(file, Torn)
      BY <1>3
    <2>2. file \in Files /\ Generating /\ (file = Manifest => stage = "manifest")
      <3>1. /\ Inserts(epoch) # Manifest /\ Deletes(epoch) # Manifest
            /\ Truth(epoch) # Manifest /\ Snapshot(epoch) # Manifest
        BY DEF Inserts, Deletes, Truth, Snapshot, Manifest
      <3>2. stage = "tables" => Tables[next] # Manifest
        BY DEF TypeInv, Tables, Vectors, Ids, Manifest
      <3>3. QED
        BY <3>1, <3>2 DEF Open, Writes, Generating
    <2>3. \A f \in Files : f # file => disk'[f] = disk[f]
      BY <2>1, <2>2, WrittenOnce
    <2>4. ~Exists(Manifest)
      BY <2>2 DEF ManifestInv
    <2>5. CASE stage = "manifest"
      <3>1. file = Manifest
        BY <2>1, <2>5 DEF Open, Writes
      <3>2. \A f \in WorkloadFiles : disk'[f] = disk[f]
        BY <2>3, <3>1, WorkloadNames
      <3>3. QED
        BY <1>1, <2>5, <3>2, CompleteKeeps
    <2>6. CASE stage # "manifest"
      <3>1. disk'[Manifest] = disk[Manifest]
        BY <2>2, <2>3, <2>6, FileNames
      <3>2. Recorded' = 0
        BY <1>1, <2>4, <3>1 DEF Recorded, Exists
      <3>3. QED
        BY <1>1, <3>2, NothingRecorded
    <2>7. QED
      BY <2>5, <2>6
  <1>4. QED
    BY <1>2, <1>3 DEF Kill

\* A step that changes nothing changes nothing here.
LEMMA StutterKeeps ==
  ASSUME FilesInv, WorkInv, UNCHANGED vars
  PROVE  FilesInv' /\ WorkInv'
PROOF
  <1> USE DEF vars, genMemory, genDrawn
  <1>1. Recorded' = Recorded
    BY DEF Recorded, Exists
  <1>2. \A n : EpochsGood(n)' = EpochsGood(n)
    BY DEF EpochsGood, LiveAfter, Added, Removed
  <1>3. TablesGood' = TablesGood /\ BaseWritten' = BaseWritten
    BY DEF TablesGood, BaseWritten, Ascending
  <1>4. PICK n : n = Recorded
    OBVIOUS
  <1>5. EpochsGood(Recorded)'
    <2>1. EpochsGood(n)'
      BY <1>2, <1>4 DEF FilesInv
    <2>2. QED
      BY <1>1, <1>4, <2>1 DEF EpochsGood
  <1>6. FilesInv'
    BY <1>1, <1>3, <1>5 DEF FilesInv
  <1>7. WorkInv'
    BY DEF WorkInv
  <1>8. QED
    BY <1>6, <1>7

\* Every step keeps what the files of the workload say, and what the next of them will say.
LEMMA FilesStep ==
  ASSUME TypeInv, TypeInv', ManifestInv, ManifestInv', EpochsInv, MemoryInv, FilesInv, WorkInv,
         [Next]_vars
  PROVE  FilesInv' /\ WorkInv'
PROOF
  <1> USE DEF genMemory, genDrawn
  <1>1. CASE Start
    <2>1. /\ asked' = asked /\ drawn' = drawn /\ disk' = disk
          /\ stage' \notin Recording \cup {"draw", "tables", "manifest"}
      BY <1>1 DEF Start, Starts, Recording
    <2>2. QED
      BY <2>1, IdleKeeps
  <1>2. CASE QueriesDiffer
    <2>1. /\ asked' = asked /\ drawn' = drawn /\ disk' = disk
          /\ stage' \notin Recording \cup {"draw", "tables", "manifest"}
      BY <1>2 DEF QueriesDiffer, Fail, Recording
    <2>2. QED
      BY <2>1, IdleKeeps
  <1>3. CASE StartCopies
    <2>1. /\ asked' = asked /\ drawn' = drawn /\ disk' = disk
          /\ stage' \notin Recording \cup {"draw", "tables", "manifest"}
      BY <1>3 DEF StartCopies, Recording
    <2>2. QED
      BY <2>1, IdleKeeps
  <1>4. CASE Load /\ UNCHANGED starts
    <2>1. stage' = "tables" /\ next' = 1
      BY <1>4 DEF Load
    <2>2. Recorded' = 0
      BY <2>1 DEF ManifestInv, Recorded, Generating, Recording
    <2>3. QED
      BY <2>1, <2>2, NothingRecorded DEF Recording
  <1>5. CASE LoadFails /\ UNCHANGED starts
    <2>1. /\ asked' = asked /\ drawn' = drawn /\ disk' = disk
          /\ stage' \notin Recording \cup {"draw", "tables", "manifest"}
      BY <1>5 DEF LoadFails, Fail, Recording
    <2>2. QED
      BY <2>1, IdleKeeps
  <1>6. CASE WriteTable /\ UNCHANGED starts
    BY <1>6, TablesWritten
  <1>7. CASE DrawEpoch /\ UNCHANGED starts
    BY <1>7, DrawnNext
  <1>8. CASE WriteInserts /\ UNCHANGED starts
    BY <1>8, InsertsWritten
  <1>9. CASE WriteDeletes /\ UNCHANGED starts
    BY <1>9, DeletesWritten
  <1>10. CASE KeepBest /\ UNCHANGED starts
    BY <1>10, BestKept
  <1>11. CASE WriteTruth /\ UNCHANGED starts
    BY <1>11, TruthWritten
  <1>12. CASE WriteSnapshot /\ UNCHANGED starts
    BY <1>12, SnapshotWritten
  <1>13. CASE ComputeTruth /\ UNCHANGED starts
    BY <1>13, ListsWritten
  <1>14. CASE ComputeFails /\ UNCHANGED starts
    <2>1. /\ asked' = asked /\ drawn' = drawn /\ disk' = disk
          /\ stage' \notin Recording \cup {"draw", "tables", "manifest"}
      BY <1>14 DEF ComputeFails, Fail, Recording
    <2>2. QED
      BY <2>1, IdleKeeps
  <1>15. CASE RemapTruth /\ UNCHANGED starts
    BY <1>15, Remapped
  <1>16. CASE RemoveSnapshot /\ UNCHANGED starts
    BY <1>16, SnapshotRemoved
  <1>17. CASE WriteManifest /\ UNCHANGED starts
    <2>1. /\ asked' = asked /\ drawn' = drawn /\ stage = "manifest"
          /\ stage' \notin Recording \cup {"draw", "tables", "manifest"}
      BY <1>17 DEF WriteManifest, Recording
    <2>2. \A f \in Files : f # Manifest => disk'[f] = disk[f]
      BY <1>17, WrittenOnce, WorkloadNames DEF WriteManifest
    <2>3. QED
      BY <2>1, <2>2, CompleteKeeps, WorkloadNames
  <1>18. CASE Convert /\ UNCHANGED starts
    <2>1. /\ asked' = asked /\ drawn' = drawn /\ Exists(Manifest)
          /\ stage' \notin Recording \cup {"draw", "tables", "manifest"}
      BY <1>18 DEF Convert, OpenCopy, ConvertChunk, ConvertStops, FinishCopy, Recording, ManifestInv
    <2>2. \A f \in WorkloadFiles : disk'[f] = disk[f]
      BY <2>1, StableStep
    <2>3. QED
      BY <2>1, <2>2, CompleteKeeps
  <1>19. CASE Kill
    BY <1>19, KillKeeps
  <1>20. CASE StartAgain
    <2>1. /\ asked' = asked /\ drawn' = drawn /\ disk' = disk
          /\ stage' \notin Recording \cup {"draw", "tables", "manifest"}
      BY <1>20 DEF StartAgain, Recording
    <2>2. QED
      BY <2>1, IdleKeeps
  <1>21. CASE UNCHANGED vars
    BY <1>21, StutterKeeps
  <1>22. QED
    BY <1>1, <1>2, <1>3, <1>4, <1>5, <1>6, <1>7, <1>8, <1>9, <1>10, <1>11, <1>12, <1>13, <1>14,
          <1>15, <1>16, <1>17, <1>18, <1>19, <1>20, <1>21
       DEF Next, Run, Generate, Ended
-----------------------------------------------------------------------------
(***************************************************************************)
(* The replay: what a driver computes from the files is what was live.     *)
(***************************************************************************)

\* Every non-empty set of naturals has a least element.
LEMMA LeastNatural == \A T \in SUBSET Nat : T # {} => \E m \in T : \A k \in T : m <= k
PROOF
  <1> SUFFICES ASSUME NEW T \in SUBSET Nat, T # {}
               PROVE  \E m \in T : \A k \in T : m <= k
    OBVIOUS
  <1> DEFINE less == {ss \in Nat \X Nat : ss[1] < ss[2]}
  <1>1. IsWellFoundedOn(less, Nat)
    BY NatLessThanWellFounded DEF OpToRel
  <1>2. \E m \in T : \A k \in T : <<k, m>> \notin less
    <2> HIDE DEF less
    <2>1. QED
      BY <1>1, WFMin
  <1>3. \A k, m \in Nat : <<k, m>> \notin less => m <= k
    OBVIOUS
  <1>4. QED
    <2> HIDE DEF less
    <2>1. QED
      BY <1>2, <1>3

\* A set that holds 0 and is closed under successor up to a bound holds every number below it.
LEMMA Induction ==
  \A bound \in Nat : \A S :
    0 \in S /\ (\A n \in 1 .. bound : n - 1 \in S => n \in S) => 0 .. bound \subseteq S
PROOF
  <1> SUFFICES ASSUME NEW bound \in Nat, NEW S, 0 \in S,
                      \A n \in 1 .. bound : n - 1 \in S => n \in S,
                      NEW x \in 0 .. bound, x \notin S
               PROVE  FALSE
    OBVIOUS
  <1> DEFINE out == (0 .. bound) \ S
  <1>1. out \in SUBSET Nat /\ out # {}
    OBVIOUS
  <1>2. PICK m \in out : \A k \in out : m <= k
    BY <1>1, LeastNatural
  <1>3. m \in 1 .. bound /\ m - 1 \notin S
    BY <1>2
  <1>4. m - 1 \in out /\ m - 1 < m
    BY <1>3
  <1>5. QED
    BY <1>2, <1>4

\* The file of the query rows lists every query drawn.
LEMMA AscendingAll ==
  ASSUME TypeInv, NEW queries \in Ascending(asked)
  PROVE  Range(queries) = asked
PROOF
  <1>1. PICK n \in Nat : n = Cardinality(asked) /\ IsFiniteSet(asked)
    BY QueriesFinite
  <1>2. /\ queries \in [1 .. n -> asked] /\ DOMAIN queries = 1 .. n
        /\ \A i, j \in 1 .. n : i < j => queries[i] < queries[j]
    BY <1>1 DEF Ascending
  <1>3. asked \subseteq Int
    BY DEF TypeInv, QueryRows
  <1>4. \A i, j \in 1 .. n : queries[i] = queries[j] => i = j
    <2>1. ASSUME NEW i \in 1 .. n, NEW j \in 1 .. n, i # j
          PROVE  queries[i] # queries[j]
      <3>1. i < j \/ j < i
        BY <2>1
      <3>2. queries[i] \in Int /\ queries[j] \in Int
        BY <1>2, <1>3
      <3>3. QED
        BY <1>2, <3>1, <3>2
    <2>2. QED
      BY <2>1
  <1>5. queries \in Injection(1 .. n, asked)
    BY <1>2, <1>4 DEF Injection, IsInjective
  <1>6. Cardinality(1 .. n) = n
    <2>1. \A b \in Int : Cardinality(1 .. b) = IF 1 > b THEN 0 ELSE b - 1 + 1
      BY FS_Interval
    <2> DEFINE size == Cardinality(1 .. n)
    <2>2. size = IF 1 > n THEN 0 ELSE n - 1 + 1
      BY <2>1
    <2> HIDE DEF size
    <2>3. size = n
      BY <2>2
    <2>4. QED
      BY <2>3 DEF size
  <1>7. queries \in Surjection(1 .. n, asked)
    BY <1>1, <1>5, <1>6, FS_Injection
  <1>8. QED
    BY <1>2, <1>7 DEF Surjection, Range

\* One epoch more: first its deletes, then its inserts, which no epoch before has deleted.
LEMMA LiveAfterOne ==
  ASSUME TypeInv, EpochsInv, NEW k \in Nat, k < Len(drawn)
  PROVE  LiveAfter(k + 1) = (LiveAfter(k) \ drawn[k + 1].dels) \cup drawn[k + 1].inss
PROOF
  <1>1. k + 1 \in DOMAIN drawn /\ k \in 0 .. Len(drawn) /\ (k + 1) - 1 = k
    BY DEF TypeInv
  <1>2. PICK c \in 0 .. PoolN : /\ Added(k) = BaseN .. BaseN + c - 1
                                /\ drawn[k + 1].inss = Offered(c)
                                /\ drawn[k + 1].dels \subseteq 0 .. BaseN + c - 1
    BY <1>1 DEF EpochsInv
  <1>3. Removed(k) \subseteq 0 .. BaseN + c - 1
    <2>1. c \in Nat
      OBVIOUS
    <2>2. QED
      BY <1>1, <1>2, <2>1, RemovedIds
  <1>4. \A id \in Offered(c) : id \in Int /\ id >= BaseN + c
    BY DEF Offered
  <1>5. \A id \in 0 .. BaseN + c - 1 : id \notin Offered(c)
    BY <1>4
  <1>6. 1 .. k + 1 = (1 .. k) \cup {k + 1}
    OBVIOUS
  <1>7. /\ Added(k + 1) = Added(k) \cup drawn[k + 1].inss
        /\ Removed(k + 1) = Removed(k) \cup drawn[k + 1].dels
    BY <1>6 DEF Added, Removed
  <1>8. drawn[k + 1].inss \cap (Removed(k) \cup drawn[k + 1].dels) = {}
    BY <1>2, <1>3, <1>5
  <1>9. QED
    BY <1>7, <1>8 DEF LiveAfter

\* The replay of a complete workload: after every epoch the ids that were live then.
LEMMA ReplayIsLive ==
  ASSUME TypeInv, EpochsInv, NEpochs <= Len(drawn), EpochsGood(NEpochs), BaseWritten
  PROVE  \A n \in 0 .. NEpochs : ReplayedTo[n] = LiveAfter(n)
PROOF
  <1> DEFINE Replays(g) ==
               g = [n \in 0 .. NEpochs |->
                      IF n = 0 THEN Range(disk[Ids(1)])
                      ELSE (g[n - 1] \ disk[Deletes(n - 1)]) \cup disk[Inserts(n - 1)]]
             lives == [n \in 0 .. NEpochs |-> LiveAfter(n)]
             good == {n \in 0 .. NEpochs : ReplayedTo[n] = LiveAfter(n)}
  <1>1. LiveAfter(0) = Range(disk[Ids(1)])
    <2>1. Added(0) = {} /\ Removed(0) = {}
      BY DEF Added, Removed
    <2>2. LiveAfter(0) = 0 .. BaseN - 1
      BY <2>1 DEF LiveAfter
    <2>3. PICK ids : ids = [i \in 1 .. BaseN |-> i - 1]
      OBVIOUS
    <2>4. ASSUME NEW x \in 0 .. BaseN - 1
          PROVE  \E i \in 1 .. BaseN : ids[i] = x
      <3>1. x + 1 \in 1 .. BaseN /\ (x + 1) - 1 = x
        OBVIOUS
      <3>2. QED
        BY <2>3, <3>1
    <2>5. DOMAIN ids = 1 .. BaseN /\ \A i \in 1 .. BaseN : ids[i] \in 0 .. BaseN - 1
      BY <2>3
    <2>6. Range(ids) = 0 .. BaseN - 1
      <3>1. Range(ids) = {ids[i] : i \in 1 .. BaseN}
        BY <2>5 DEF Range
      <3>2. QED
        BY <2>4, <2>5, <3>1
    <2>7. QED
      BY <2>2, <2>3, <2>6 DEF BaseWritten
  <1>2. ASSUME NEW n \in 1 .. NEpochs
        PROVE  LiveAfter(n) = (LiveAfter(n - 1) \ disk[Deletes(n - 1)]) \cup disk[Inserts(n - 1)]
    <2>1. PICK k \in 0 .. NEpochs - 1 : k = n - 1
      OBVIOUS
    <2>2. k + 1 = n /\ k \in Nat /\ k < Len(drawn)
      BY <2>1 DEF TypeInv
    <2>3. disk[Inserts(k)] = drawn[k + 1].inss /\ disk[Deletes(k)] = drawn[k + 1].dels
      BY <2>1 DEF EpochsGood
    <2>4. LiveAfter(k + 1) = (LiveAfter(k) \ drawn[k + 1].dels) \cup drawn[k + 1].inss
      BY <2>2, LiveAfterOne
    <2>5. QED
      BY <2>1, <2>2, <2>3, <2>4
  <1>3. Replays(lives)
    <2>1. \A n \in 0 .. NEpochs : n # 0 => n \in 1 .. NEpochs /\ n - 1 \in 0 .. NEpochs
      OBVIOUS
    <2>2. ASSUME NEW n \in 0 .. NEpochs
          PROVE  lives[n] = IF n = 0 THEN Range(disk[Ids(1)])
                            ELSE (lives[n - 1] \ disk[Deletes(n - 1)]) \cup disk[Inserts(n - 1)]
      BY <1>1, <1>2, <2>1
    <2>3. QED
      BY <2>2
  <1>4. Replays(ReplayedTo)
    <2> HIDE DEF lives
    <2>1. \E g : Replays(g)
      BY <1>3
    <2>2. QED
      BY <2>1, Zenon DEF ReplayedTo
  <1>5. 0 \in good
    BY <1>1, <1>4
  <1>6. ASSUME NEW n \in 1 .. NEpochs, n - 1 \in good
        PROVE  n \in good
    <2>1. ReplayedTo[n] = (ReplayedTo[n - 1] \ disk[Deletes(n - 1)]) \cup disk[Inserts(n - 1)]
      BY <1>4
    <2>2. ReplayedTo[n - 1] = LiveAfter(n - 1)
      BY <1>6
    <2>3. ReplayedTo[n] = LiveAfter(n)
      BY <1>2, <2>1, <2>2
    <2>4. QED
      BY <2>3
  <1>7. 0 .. NEpochs \subseteq good
    <2> HIDE DEF good
    <2>1. QED
      BY <1>5, <1>6, Induction
  <1>8. QED
    BY <1>7

\* With the manifest written the files are those of a complete workload.
LEMMA CompleteWorkload ==
  ASSUME TypeInv, EpochsInv, FilesInv
  PROVE  TruthReplayable
PROOF
  <1> SUFFICES ASSUME Exists(Manifest), NEW k \in Epochs, IsCheckpoint(k)
               PROVE  /\ Whole(Truth(k))
                      /\ DOMAIN disk[Truth(k)] = Range(disk[Vectors(3)])
                      /\ \A q \in DOMAIN disk[Truth(k)] :
                           IsTruth(q, ReplayedTo[k + 1], disk[Truth(k)][q])
    BY DEF TruthReplayable
  <1>1. Recorded = NEpochs
    BY DEF Recorded
  <1>2. NEpochs <= Len(drawn) /\ EpochsGood(NEpochs) /\ TablesGood
    BY <1>1 DEF FilesInv, EpochsGood
  <1>3. Truthful(disk[Truth(k)], asked, LiveAfter(k + 1))
    BY <1>2 DEF EpochsGood, Epochs
  <1>4. ReplayedTo[k + 1] = LiveAfter(k + 1)
    <2>1. k + 1 \in 0 .. NEpochs
      BY DEF Epochs
    <2>2. QED
      BY <1>2, <2>1, ReplayIsLive DEF TablesGood
  <1>5. Range(disk[Vectors(3)]) = asked
    BY <1>2, AscendingAll DEF TablesGood
  <1>6. Whole(Truth(k))
    BY <1>3, ListsAssumption DEF Truthful, TypeInv, Whole
  <1>7. QED
    BY <1>3, <1>4, <1>5, <1>6 DEF Truthful
-----------------------------------------------------------------------------
\* What a drawing run has in memory is the state of the abstract generator.
LEMMA MappedState ==
  ASSUME NEW d \in Seq(Draws), NEW c \in Nat,
         UNION {d[k].inss : k \in 1 .. Len(d)} = BaseN .. BaseN + c - 1
  PROVE  /\ Cardinality(UNION {e.inss : e \in Range(d)}) = c
         /\ ((0 .. BaseN - 1) \cup UNION {e.inss : e \in Range(d)})
              \ UNION {e.dels : e \in Range(d)}
              = (0 .. BaseN + c - 1) \ UNION {d[k].dels : k \in 1 .. Len(d)}
PROOF
  <1>1. DOMAIN d = 1 .. Len(d)
    OBVIOUS
  <1>2. /\ UNION {e.inss : e \in Range(d)} = BaseN .. BaseN + c - 1
        /\ UNION {e.dels : e \in Range(d)} = UNION {d[k].dels : k \in 1 .. Len(d)}
    BY <1>1 DEF Range
  <1>3. Cardinality(BaseN .. BaseN + c - 1) = c
    <2>1. \A a, b \in Int : Cardinality(a .. b) = IF a > b THEN 0 ELSE b - a + 1
      BY FS_Interval
    <2>2. BaseN \in Int /\ BaseN + c - 1 \in Int
      OBVIOUS
    <2> DEFINE size == Cardinality(BaseN .. BaseN + c - 1)
    <2>3. size = IF BaseN > BaseN + c - 1 THEN 0 ELSE (BaseN + c - 1) - BaseN + 1
      BY <2>1, <2>2
    <2> HIDE DEF size
    <2>4. size = c
      BY <2>3
    <2>5. QED
      BY <2>4 DEF size
  <1>4. (0 .. BaseN - 1) \cup (BaseN .. BaseN + c - 1) = 0 .. BaseN + c - 1
    OBVIOUS
  <1>5. QED
    BY <1>2, <1>3, <1>4

\* An epoch drawn for the first time is an epoch of the abstract generator, and nothing else is.
LEMMA DrawImplements ==
  ASSUME TypeInv, TypeInv', EpochsInv, MemoryInv, MemoryInv', [Next]_vars
  PROVE  [W!Generate]_(W!workloadVars)
PROOF
  <1>1. CASE drawn' = drawn
    BY <1>1 DEF W!workloadVars
  <1>2. CASE DrawEpoch /\ epoch = Len(drawn)
    <2> DEFINE mappedLive == ((0 .. BaseN - 1) \cup UNION {e.inss : e \in Range(drawn)})
                               \ UNION {e.dels : e \in Range(drawn)}
               mappedCursor == Cardinality(UNION {e.inss : e \in Range(drawn)})
    <2>1. /\ drawn \in Seq(Draws) /\ drawn' \in Seq(Draws)
          /\ poolCursor \in Nat /\ poolCursor' \in Nat
      BY DEF TypeInv
    <2>2. Through = Len(drawn) /\ stage = "draw"
      BY <1>2 DEF DrawEpoch, Through, Recording
    <2>3. mappedLive = live /\ mappedCursor = poolCursor
      <3>1. /\ Added(Through) = BaseN .. BaseN + poolCursor - 1
            /\ live = (0 .. BaseN + poolCursor - 1) \ Removed(Through)
        BY <2>2 DEF MemoryInv
      <3>2. QED
        BY <2>1, <2>2, <3>1, MappedState DEF Added, Removed
    <2>4. PICK dels \in Samples :
            /\ live' = (live \ dels) \cup Fresh
            /\ drawn' = Append(drawn, [dels |-> dels, inss |-> Fresh,
                                       active |-> IF IsCheckpoint(epoch) THEN live' ELSE {-1}])
      <3>1. PICK dels \in Samples :
              /\ live' = (live \ dels) \cup Fresh
              /\ drawn' = IF epoch < Len(drawn) THEN drawn
                          ELSE Append(drawn, [dels |-> dels, inss |-> Fresh,
                                              active |-> IF IsCheckpoint(epoch) THEN live'
                                                         ELSE {-1}])
        BY <1>2 DEF DrawEpoch
      <3>2. ~(epoch < Len(drawn))
        BY <1>2, <2>1
      <3>3. QED
        BY <3>1, <3>2
    <2>5. Through' = Len(drawn') /\ stage' = "inserts"
      BY <1>2, <2>1, <2>4 DEF DrawEpoch, Through, Recording
    <2>6. mappedLive' = live' /\ mappedCursor' = poolCursor'
      <3>1. /\ UNION {drawn'[k].inss : k \in 1 .. Len(drawn')} = BaseN .. BaseN + poolCursor' - 1
            /\ live' = (0 .. BaseN + poolCursor' - 1)
                         \ UNION {drawn'[k].dels : k \in 1 .. Len(drawn')}
        BY <2>5 DEF MemoryInv, Added, Removed, Recording
      <3>2. QED
        BY <2>1, <3>1, MappedState
    <2>7. poolCursor' = poolCursor + Taken /\ Len(drawn) < NEpochs
      BY <1>2, <2>1 DEF DrawEpoch, TypeInv, Epochs
    <2> HIDE DEF mappedLive, mappedCursor
    <2>8. /\ W!Samples = Samples /\ W!Fresh = Fresh /\ W!Advanced = poolCursor + Taken
          /\ W!Checkpoint(epoch) = IsCheckpoint(epoch)
      <3>1. W!Take = Taken
        BY <2>3 DEF W!Take, Taken, Least, mappedCursor
      <3>2. W!Samples = Samples
        <4>1. \A S : W!Cardinality(S) = Cardinality(S)
          BY Zenon DEF Cardinality, W!Cardinality
        <4>2. W!Samples = IF del_per > 0 /\ Cardinality(mappedLive) > del_per
                          THEN kSubset(del_per, mappedLive) ELSE {{}}
          BY <4>1 DEF W!Samples, W!kSubset, kSubset, mappedLive
        <4>3. QED
          BY <2>3, <4>2 DEF Samples
      <3>3. W!Fresh = Fresh /\ W!Advanced = poolCursor + Taken
        BY <2>3, <3>1 DEF W!Fresh, Fresh, W!Advanced, mappedCursor
      <3>4. QED
        BY <3>2, <3>3 DEF W!Checkpoint, IsCheckpoint
    <2>9. \E chosen \in W!Samples :
            /\ mappedLive' = (mappedLive \ chosen) \cup W!Fresh
            /\ drawn' = Append(drawn, [dels |-> chosen, inss |-> W!Fresh,
                                       active |-> IF W!Checkpoint(Len(drawn)) THEN mappedLive'
                                                  ELSE W!NoTruth])
      BY <1>2, <2>3, <2>4, <2>6, <2>8 DEF W!NoTruth
    <2>10. mappedCursor' = W!Advanced
      BY <2>6, <2>7, <2>8
    <2>11. W!Generate
      BY <2>7, <2>9, <2>10 DEF W!Generate, mappedLive, mappedCursor
    <2>12. QED
      BY <2>11
  <1>3. DrawEpoch => drawn' = drawn \/ epoch = Len(drawn)
    BY DEF DrawEpoch, TypeInv, Epochs
  <1>4. drawn' = drawn \/ DrawEpoch
    BY DEF Next, Run, Generate, Convert, Ended, vars, genDrawn, Start, QueriesDiffer, Fail,
      StartCopies, Load, LoadFails, WriteTable, WriteInserts, WriteDeletes, KeepBest, WriteTruth,
      WriteSnapshot, ComputeTruth, ComputeFails, RemapTruth, RemoveSnapshot, WriteManifest,
      OpenCopy, ConvertChunk, ConvertStops, FinishCopy, Kill, StartAgain
  <1>5. QED
    BY <1>1, <1>2, <1>3, <1>4
-----------------------------------------------------------------------------
IInv ==
  /\ TypeInv /\ ManifestInv /\ CopyInv
  /\ EpochsInv /\ MemoryInv /\ FilesInv /\ WorkInv

\* The invariant holds when the script is started first.
LEMMA InitInv == Init => IInv
PROOF
  <1> SUFFICES ASSUME Init
               PROVE  IInv
    OBVIOUS
  <1>1. TypeInv
    BY DEF Init, TypeInv, Epochs
  <1>2. disk[Manifest] = Absent /\ \A i \in 1 .. 3 : disk[ByteCopy(i)] = Absent
    BY FileNames DEF Init
  <1>3. ManifestInv /\ CopyInv
    BY <1>2 DEF Init, ManifestInv, CopyInv, Exists, Generating
  <1>4. EpochsInv /\ MemoryInv
    BY DEF Init, EpochsInv, MemoryInv, Recording
  <1>5. FilesInv /\ WorkInv
    <2>1. stage = "prep" /\ Recorded = 0
      BY <1>2 DEF Init, Recorded, Recording, Exists
    <2>2. EpochsGood(Recorded) /\ Recorded <= Len(drawn)
      BY <1>1, <2>1 DEF EpochsGood, TypeInv
    <2>3. QED
      BY <2>1, <2>2 DEF FilesInv, WorkInv, Recording
  <1>6. QED
    BY <1>1, <1>3, <1>4, <1>5 DEF IInv

\* The invariant is kept by every step.
LEMMA NextInv == IInv /\ [Next]_vars => IInv'
PROOF
  <1> SUFFICES ASSUME IInv, [Next]_vars
               PROVE  IInv'
    OBVIOUS
  <1>1. TypeInv'
    BY TypeStep DEF IInv
  <1>2. ManifestInv' /\ CopyInv'
    BY ManifestStep, CopyStep DEF IInv
  <1>3. EpochsInv' /\ MemoryInv'
    BY <1>1, DrawStep DEF IInv
  <1>4. FilesInv' /\ WorkInv'
    BY <1>1, <1>2, FilesStep DEF IInv
  <1>5. QED
    BY <1>1, <1>2, <1>3, <1>4 DEF IInv

LEMMA AlwaysIInv == Spec => []IInv
PROOF
  <1>1. QED
    BY InitInv, NextInv, PTL DEF Spec

\* Every byte copy is the vector file it was made of, and the copy of the queries, which the script
\* takes for all three, comes last, whatever was killed on the way (CopiesSound).
THEOREM CopiesCorrect == Spec => []CopiesSound
PROOF
  <1>1. IInv => CopiesSound
    BY DEF IInv, TypeInv, CopyInv, CopiesSound, CopiesExact, TypeOK
  <1>2. QED
    BY <1>1, AlwaysIInv, PTL

\* Nothing writes to the files of a workload that has its manifest, neither another start of the
\* script nor the converter nor a kill (WorkloadStable).
THEOREM WorkloadKept == Spec => WorkloadStable
PROOF
  <1>1. IInv /\ [Next]_vars =>
          [Exists(Manifest) => \A file \in WorkloadFiles : disk'[file] = disk[file]]_vars
    BY StableStep DEF IInv
  <1>2. QED
    BY <1>1, AlwaysIInv, PTL DEF Spec, WorkloadStable

\* The epochs on disk are epochs of the abstract generator, each drawn where the one before left
\* the index and the pool, also when several runs had to be started to draw them (DrawsWorkload).
THEOREM DrawsSame == Spec => DrawsWorkload
PROOF
  <1>1. Init => W!InitWorkload
    <2>1. Init => Range(drawn) = {}
      BY DEF Init, Range
    <2>2. Cardinality({}) = 0
      BY FS_EmptySet
    <2>3. QED
      BY <2>1, <2>2 DEF Init, W!InitWorkload
  <1>2. IInv /\ IInv' /\ [Next]_vars => [W!Generate]_(W!workloadVars)
    BY DrawImplements DEF IInv
  <1>3. QED
    BY <1>1, <1>2, AlwaysIInv, PTL DEF Spec, DrawsWorkload

\* Whoever replays a workload that has its manifest finds in the truth file of every checkpoint, for
\* every query, the nearest of the ids that are in the index then, the closest first, whatever was
\* killed and started again while it was made (TruthReplayable).
THEOREM TruthCorrect == Spec => []TruthReplayable
PROOF
  <1>1. IInv => TruthReplayable
    BY CompleteWorkload DEF IInv
  <1>2. QED
    BY <1>1, AlwaysIInv, PTL
=============================================================================
