------------------------------ MODULE Groundtruth ------------------------------
(***************************************************************************)
(* The exact neighbours of a query.  The brute force walks the active set  *)
(* in blocks and keeps, per query, the best it has seen: a partition of    *)
(* the best so far and the block, which of rows at equal distance stay is  *)
(* up to the partition.                                                    *)
(***************************************************************************)
EXTENDS Integers, Sequences, FiniteSets, SequencesExt

CONSTANTS
  GtK,        \* gt_K: neighbours wanted
  BaseChunk,  \* base_chunk: rows of a block
  Distance    \* Distance[<<q, r>>]: from the query row q to the row r, squared

ASSUME TruthAssumption == GtK \in Nat \ {0} /\ BaseChunk \in Nat \ {0}

\* The sets of k of the rows (of all rows, if they are fewer) such that no row left out is nearer.
Nearest(q, k, rows) ==
  {near \in SUBSET rows :
     /\ Cardinality(near) = IF k < Cardinality(rows) THEN k ELSE Cardinality(rows)
     /\ \A u \in near, v \in rows \ near : Distance[<<q, u>>] <= Distance[<<q, v>>]}

\* A position p of the active set holds the id active_ids[p]: the ids in ascending order.
IdAt(live, p) == CHOOSE u \in live : Cardinality({v \in live : v < u}) = p
ActiveIds(live) == [i \in 1 .. Cardinality(live) |-> IdAt(live, i - 1)]

\* The block that starts at s, by position.
Block(live, s) ==
  s .. (IF s + BaseChunk < Cardinality(live) THEN s + BaseChunk ELSE Cardinality(live)) - 1
\* K: never more than there are rows.
Wanted(live) == IF GtK < Cardinality(live) THEN GtK ELSE Cardinality(live)
\* What may be kept of the best so far and the rows of a block.
Kept(q, live, best, block) == Nearest(q, Wanted(live), best \cup {IdAt(live, p) : p \in block})

\* The order of the file: by distance, then by id.  An entry no row was found for is still
\* position 0 at an infinite distance.
Ahead(q, u, v) ==
  \/ Distance[<<q, u>>] < Distance[<<q, v>>]
  \/ Distance[<<q, u>>] = Distance[<<q, v>>] /\ u < v
RankAt(q, best, p) == CHOOSE u \in best : Cardinality({v \in best : Ahead(q, v, u)}) = p
Ranked(q, live, best) ==
  [i \in 1 .. Wanted(live) |->
     IF i <= Cardinality(best) THEN RankAt(q, best, i - 1) ELSE IdAt(live, 0)]

\* What a reader of the file may rely on: the nearest rows, the closest first.
IsTruth(q, rows, list) ==
  /\ {list[i] : i \in DOMAIN list} \in Nearest(q, GtK, rows)
  /\ Len(list) = Cardinality({list[i] : i \in DOMAIN list})
  /\ \A i, j \in DOMAIN list : i < j => Distance[<<q, list[i]>>] <= Distance[<<q, list[j]>>]
=============================================================================
