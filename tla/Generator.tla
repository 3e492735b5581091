------------------------------- MODULE Generator -------------------------------
(***************************************************************************)
(* gen_workload.py: loads a dataset, writes the vector files, then epoch   *)
(* after epoch the two id lists and, at a checkpoint, the exact neighbours *)
(* over the ids that are live, and last of all the manifest.               *)
(*                                                                         *)
(* The random draws are seeded: a second run with the same arguments draws *)
(* what the first one drew, which drawn and asked remember.                *)
(***************************************************************************)
EXTENDS TraceFiles, Groundtruth

CONSTANTS
  Sources,     \* the datasets and flags a run may be started with
  Ratio,       \* "rins", "r9010" or "custom"
  InsTenths,   \* custom: ins_frac and del_frac, in tenths of ops
  DelTenths,
  OpsDivisor,  \* ops is this part of N: 100 in the code
  GtInterval,  \* gt_interval
  MaxQueries,  \* max_queries; 0 keeps all
  RawAbove     \* rows above which bvecs stay bytes: 30 million in the code

ASSUME GeneratorAssumption ==
  /\ OpsDivisor \in Nat \ {0} /\ GtInterval \in Nat \ {0}
  /\ {InsTenths, DelTenths, MaxQueries, RawAbove} \subseteq Nat
  /\ Ratio \in {"custom", "rins", "r9010"}
  /\ \A s \in Sources : s.queries \in Nat

VARIABLES
  source,      \* the arguments: never change
  stage,       \* where the pipeline is
  live,        \* the ids in the index after the epochs generated so far
  poolCursor,  \* pool_cursor
  epoch,       \* k
  next,        \* the next file of a group of files, or position of a block
  best,        \* best_i: per query, the ids kept so far
  asked,       \* the query rows drawn, once they were
  drawn        \* the epochs drawn so far, by this run or an earlier one

genMemory == <<live, poolCursor, epoch, next, best>>
genDrawn == <<asked, drawn>>
-----------------------------------------------------------------------------
Least(a, b) == IF a < b THEN a ELSE b
Most(a, b) == IF a < b THEN b ELSE a

\* round() of Python: halves go to the even neighbour.
Tenths(n) ==
  LET q == n \div 10
      r == n % 10
  IN IF r < 5 \/ (r = 5 /\ q % 2 = 0) THEN q ELSE q + 1

ops == Most(1, BaseN \div OpsDivisor)
\* What an epoch inserts and deletes, by ratio.
Shares ==
  LET most == Most(1, Tenths(9 * ops))
  IN [custom |-> [ins |-> Tenths(InsTenths * ops), del |-> Tenths(DelTenths * ops)],
      rins   |-> [ins |-> ops, del |-> 0],
      r9010  |-> [ins |-> most, del |-> Most(0, ops - most)]]
ins_per == Shares[Ratio].ins
del_per == Shares[Ratio].del

IsCheckpoint(k) == k % GtInterval = 0 \/ k = NEpochs - 1

\* The formats with a header name their rows there and are read whole or not at all; the others are
\* read row by row, as many as there are.
Headered == {"fbin", "i8bin"}
RowsRead(s) == Least(IF s.format \in Headered THEN s.header ELSE s.rows, BaseN + PoolN)
UsesRaw(s) == s.format = "bvecs" /\ (s.lowMem \/ BaseN + PoolN > RawAbove)
Loads(s) ==
  \/ s.format = "synthetic"
  \/ /\ s.format \in Headered \cup {"fvecs", "bvecs"}
     /\ ~(UsesRaw(s) /\ s.method # "diskann")
     /\ s.format \in Headered => RowsRead(s) <= s.rows
     /\ RowsRead(s) >= BaseN + PoolN

QueryRows(s) == 0 .. s.queries - 1

ASSUME DistanceAssumption ==
  \A s \in Sources : \A q \in QueryRows(s), r \in Gids : Distance[<<q, r>>] \in Int
ASSUME ListsAssumption ==
  \A s \in Sources : \A rows \in SUBSET QueryRows(s) :
    {Absent, Torn} \cap [rows -> Seq(Int)] = {}

Subsamples(s) ==
  IF MaxQueries > 0 /\ s.queries > MaxQueries THEN kSubset(MaxQueries, QueryRows(s)) ELSE {QueryRows(s)}

Fail == stage' = "failed" /\ UNCHANGED <<source, disk, genMemory, genDrawn>>

Load ==
  /\ stage = "load" /\ Loads(source)
  /\ \E sample \in Subsamples(source) :
       /\ asked # {} => sample = asked
       /\ asked' = sample
  /\ stage' = "tables" /\ next' = 1
  /\ UNCHANGED <<source, disk, live, poolCursor, epoch, best, drawn>>

LoadFails == stage = "load" /\ ~Loads(source) /\ Fail

\* The files in the order they are written, with the rows or ids they get.
Tables == <<Vectors(1), Ids(1), Vectors(2), Ids(2), Vectors(3)>>
Ascending(S) ==
  {rows \in [1 .. Cardinality(S) -> S] : \A i, j \in DOMAIN rows : i < j => rows[i] < rows[j]}
Contents(queries) ==
  LET base == [i \in 1 .. BaseN |-> i - 1]
      pool == [i \in 1 .. PoolN |-> BaseN + i - 1]
  IN <<base, base, pool, pool, queries>>

WriteTable ==
  /\ stage = "tables"
  /\ \E queries \in Ascending(asked) : disk' = Written(Tables[next], Contents(queries)[next])
  /\ IF next < Len(Tables)
     THEN next' = next + 1 /\ UNCHANGED <<stage, live, poolCursor, epoch>>
     ELSE /\ stage' = "draw" /\ next' = 1
          /\ live' = 0 .. BaseN - 1 /\ poolCursor' = 0 /\ epoch' = 0
  /\ UNCHANGED <<source, best, genDrawn>>
-----------------------------------------------------------------------------
\* The next ids of the pool; fewer, and in the end none, when it runs out.
Taken == Least(ins_per, PoolN - poolCursor)
Fresh == BaseN + poolCursor .. BaseN + poolCursor + Taken - 1

\* No deletions once there are too few live ids left to sample from.
SamplesLate ==
  IF del_per > 0 /\ Cardinality(live) > del_per THEN kSubset(del_per, live \cup Fresh) ELSE {{}}
Samples ==
  IF del_per > 0 /\ Cardinality(live) > del_per THEN kSubset(del_per, live) ELSE {{}}

\* The sample is taken of the ids that are live before the epoch's own are added.
DrawEpoch ==
  /\ stage = "draw"
  /\ \E dels \in Samples :
       /\ epoch < Len(drawn) => dels = drawn[epoch + 1].dels
       /\ live' = (live \ dels) \cup Fresh
       /\ drawn' = IF epoch < Len(drawn) THEN drawn
                   ELSE Append(drawn, [dels |-> dels, inss |-> Fresh,
                                       active |-> IF IsCheckpoint(epoch) THEN live' ELSE {-1}])
  /\ poolCursor' = poolCursor + Taken
  /\ stage' = "inserts"
  /\ UNCHANGED <<source, disk, epoch, next, best, asked>>

WriteInserts ==
  /\ stage = "inserts"
  /\ disk' = Written(Inserts(epoch), drawn[epoch + 1].inss)
  /\ stage' = "deletes"
  /\ UNCHANGED <<source, genMemory, genDrawn>>

\* With the lists written an epoch is over, unless it is a checkpoint.
NextEpoch ==
  IF epoch + 1 < NEpochs
  THEN stage' = "draw" /\ epoch' = epoch + 1
  ELSE stage' = "manifest" /\ UNCHANGED epoch

WriteDeletes ==
  /\ stage = "deletes"
  /\ disk' = Written(Deletes(epoch), drawn[epoch + 1].dels)
  /\ IF IsCheckpoint(epoch)
     THEN /\ stage' = IF source.method = "diskann" THEN "snapshot" ELSE "blocks"
          /\ next' = 0 /\ best' = [q \in asked |-> {}]
          /\ UNCHANGED epoch
     ELSE NextEpoch /\ UNCHANGED <<next, best>>
  /\ UNCHANGED <<source, live, poolCursor, genDrawn>>

\* One block of the brute force, for all queries.
NextBlockStays == next
NextBlock == next + BaseChunk
KeepBest ==
  /\ stage = "blocks" /\ next < Cardinality(live)
  /\ best' \in [asked -> SUBSET live]
  /\ \A q \in asked : best'[q] \in Kept(q, live, best[q], Block(live, next))
  /\ next' = NextBlock
  /\ UNCHANGED <<source, disk, stage, live, poolCursor, epoch, genDrawn>>

WriteTruth ==
  /\ stage = "blocks" /\ next >= Cardinality(live)
  /\ disk' = Written(Truth(epoch), [q \in asked |-> Ranked(q, live, best[q])])
  /\ NextEpoch
  /\ UNCHANGED <<source, live, poolCursor, next, best, genDrawn>>
-----------------------------------------------------------------------------
\* The other way to the truth: the active rows are written out for an external tool, which names
\* its neighbours by position; the file is then rewritten with global ids.
WriteSnapshot ==
  /\ stage = "snapshot"
  /\ disk' = Written(Snapshot(epoch), ActiveIds(live))
  /\ stage' = "compute"
  /\ UNCHANGED <<source, genMemory, genDrawn>>

ToolLists(q) ==
  {list \in [1 .. Wanted(live) -> 0 .. Cardinality(live) - 1] :
     IsTruth(q, live, [i \in DOMAIN list |-> disk[Snapshot(epoch)][list[i] + 1]])}

ComputeTruth ==
  /\ stage = "compute" /\ Whole(Snapshot(epoch))
  /\ \E lists \in [asked -> UNION {ToolLists(q) : q \in asked}] :
       /\ \A q \in asked : lists[q] \in ToolLists(q)
       /\ disk' = Written(Truth(epoch), lists)
  /\ stage' = "remap"
  /\ UNCHANGED <<source, genMemory, genDrawn>>

\* check=True: a tool that fails ends the generator.
ComputeFails == stage = "compute" /\ Fail

GlobalIdsPositional(lists) == lists
GlobalIds(lists) == [q \in asked |-> [i \in DOMAIN lists[q] |-> IdAt(live, lists[q][i])]]
RemapTruth ==
  /\ stage = "remap"
  /\ disk' = Written(Truth(epoch), GlobalIds(disk[Truth(epoch)]))
  /\ stage' = "cleanup"
  /\ UNCHANGED <<source, genMemory, genDrawn>>

RemoveSnapshot ==
  /\ stage = "cleanup"
  /\ disk' = Written(Snapshot(epoch), Absent)
  /\ NextEpoch
  /\ UNCHANGED <<source, live, poolCursor, next, best, genDrawn>>

WriteManifest ==
  /\ stage = "manifest"
  /\ disk' = Written(Manifest, [epochs |-> NEpochs, queries |-> Cardinality(asked)])
  /\ stage' = "copy" /\ next' = 1
  /\ UNCHANGED <<source, live, poolCursor, epoch, best, genDrawn>>

Generate ==
  \/ Load \/ LoadFails \/ WriteTable
  \/ DrawEpoch \/ WriteInserts \/ WriteDeletes
  \/ KeepBest \/ WriteTruth
  \/ WriteSnapshot \/ ComputeTruth \/ ComputeFails \/ RemapTruth \/ RemoveSnapshot
  \/ WriteManifest
=============================================================================
