------------------------------ MODULE ShardedBuild ------------------------------
(***************************************************************************)
(* BuildShardedKnnGraph: workers pull chunks of points from a shared       *)
(* cursor and push each point into their own buckets, one per centroid;    *)
(* the buckets become sorted shards; oversized shards are split; every     *)
(* shard is built alone and its neighbor lists spilled to a file in the    *)
(* order of its members; the files are merged id by id into one CSR graph. *)
(*                                                                         *)
(* The per-shard builder is code outside the repository: it returns, for   *)
(* each member, other members by ascending distance.  A point whose        *)
(* distances all overflow is near no centroid.  I/O faults strike where    *)
(* the code checks for them, and where it does not.                        *)
(***************************************************************************)
EXTENDS Integers, Sequences, FiniteSets, SequencesExt

CONSTANTS
  N,           \* n: points are 0 .. N - 1
  K,           \* k: centroids, after the clamp to n / 2
  Overlap,     \* overlap, after the clamp to 1 .. k
  R,           \* rnnd_R
  Threads,     \* num_threads
  Chunk,       \* chunk_size of parallel_for
  SkewTenths,  \* the skew allowed before a shard is split, in tenths: 13 in the code
  MaxEdges,    \* the int32 limit of a shard's own CSR
  Rows,        \* the distances to the centroids a point may have
  Overflow,    \* a distance that is not below FLT_MAX
  Dist,        \* distance between two points
  Full,        \* does the per-shard builder always fill its lists?
  Faults       \* the I/O faults that may strike, out of FaultKinds

Points == 0 .. N - 1
Centroids == 1 .. K
FaultKinds == {"write", "header", "body"}
Final == {"done", "missing", "trailing", "too large", "io"}

\* parallel_for runs on the caller alone, from first to last, when there is a single chunk or thread.
Workers == IF Threads <= 1 \/ N <= Chunk THEN {1} ELSE 1 .. Threads

ASSUME SizesAssumption ==
  /\ {N, R, Threads, Chunk, SkewTenths, MaxEdges} \subseteq Nat \ {0}
  /\ K \in Nat \ {0, 1} /\ Overlap \in Centroids
ASSUME RowsAssumption == Rows \subseteq [Centroids -> Nat \cup {Overflow}] /\ Overflow \notin Nat
ASSUME DistAssumption == Dist \in [Points \X Points -> Nat]
ASSUME FaultsAssumption == Faults \subseteq FaultKinds /\ Full \in BOOLEAN

VARIABLES
  row,        \* the distances of each point to the centroids
  phase,      \* the stage the build is in, or how it ended
  cursor,     \* cursor of parallel_for
  todo,       \* the rest of the chunk each worker is on
  tid,        \* tid_tl of each worker, -1 until its first point
  tcounter,   \* tcounter
  bucket,     \* tl: per thread id and centroid, the points pushed
  shard,      \* members
  at,         \* the shard the loop is at
  files,      \* the spilled files: records of a gid and its list of neighbors
  pos,        \* the record each reader holds
  ok,         \* ok of each reader
  expect,     \* the id the merge is at
  offsets, neighbors

inputVars == <<row>>
assignVars == <<cursor, todo, tid, tcounter, bucket>>
mergeVars == <<pos, ok, expect, offsets, neighbors>>
vars == <<inputVars, phase, assignVars, shard, at, files, mergeVars>>

Fail(how) ==
  /\ phase' = how
  /\ UNCHANGED <<inputVars, assignVars, shard, at, files, mergeVars>>

-----------------------------------------------------------------------------
\* The `overlap` nearest centroids; on equal distances the one met first.
Reached(p) == {c \in Centroids : row[p][c] # Overflow}
Nearer(p, c, d) == row[p][c] < row[p][d] \/ (row[p][c] = row[p][d] /\ c < d)
ChosenUntied(p) == {c \in Reached(p) : Cardinality({d \in Reached(p) : row[p][d] <= row[p][c]}) <= Overlap}
Chosen(p) == {c \in Reached(p) : Cardinality({d \in Reached(p) : Nearer(p, d, c)}) < Overlap}

ChunkFrom(c) == [i \in 1 .. (IF c + Chunk < N THEN Chunk ELSE N - c) |-> c + i - 1]

Claim(w) ==
  /\ phase = "assign" /\ todo[w] = <<>> /\ cursor < N
  /\ todo' = [todo EXCEPT ![w] = ChunkFrom(cursor)]
  /\ cursor' = cursor + Chunk
  /\ UNCHANGED <<inputVars, phase, tid, tcounter, bucket, shard, at, files, mergeVars>>

\* The thread id is handed out at the first point; the buckets of a thread id are its owner's alone.
TidOfShared(w) == 0
TidOf(w) == IF tid[w] < 0 THEN tcounter % Threads ELSE tid[w]

Place(w) ==
  /\ phase = "assign" /\ todo[w] # <<>>
  /\ tid' = [tid EXCEPT ![w] = TidOf(w)]
  /\ tcounter' = IF tid[w] < 0 THEN tcounter + 1 ELSE tcounter
  /\ bucket' = [bucket EXCEPT ![TidOf(w)] =
       [c \in Centroids |-> IF c \in Chosen(Head(todo[w])) THEN Append(@[c], Head(todo[w])) ELSE @[c]]]
  /\ todo' = [todo EXCEPT ![w] = Tail(@)]
  /\ UNCHANGED <<inputVars, phase, cursor, shard, at, files, mergeVars>>

\* The state of parallel_for lives no longer than its threads.
NoWorkers(c, d, i, n, b) ==
  /\ c = 0 /\ n = 0
  /\ d = [w \in Workers |-> <<>>]
  /\ i = [w \in Workers |-> -1]
  /\ b = [t \in 0 .. Threads - 1 |-> [k \in Centroids |-> <<>>]]

\* All workers joined: concatenate the buckets of each centroid over the threads, and sort.
Reorders(s) == {[i \in DOMAIN s |-> s[perm[i]]] : perm \in Bijection(DOMAIN s, DOMAIN s)}
Sorted(s) == CHOOSE t \in Reorders(s) : \A i \in 1 .. Len(t) - 1 : t[i] <= t[i + 1]
GatheredUnsorted(c) == FlattenSeq([t \in 1 .. Threads |-> bucket[t - 1][c]])
Gathered(c) == Sorted(FlattenSeq([t \in 1 .. Threads |-> bucket[t - 1][c]]))

Gather ==
  /\ phase = "assign" /\ cursor >= N /\ \A w \in Workers : todo[w] = <<>>
  /\ shard' = [c \in Centroids |-> Gathered(c)]
  /\ phase' = "split" /\ at' = 1
  /\ NoWorkers(cursor', todo', tid', tcounter', bucket')
  /\ UNCHANGED <<inputVars, files, mergeVars>>

-----------------------------------------------------------------------------
Cap == (SkewTenths * N * Overlap) \div (10 * K) + 1

\* splitShard: 2-means sends each member to one side, keeping their order; when it fails to
\* separate them, the list is halved.
Ascending(S) ==
  [n \in 1 .. Cardinality(S) |-> CHOOSE x \in S : Cardinality({y \in S : y < x}) = n - 1]
Side(s, side, b) ==
  LET picked == Ascending({i \in DOMAIN s : side[i] = b})
  IN [n \in DOMAIN picked |-> s[picked[n]]]
Separated(s, side) == Side(s, side, 0) # <<>> /\ Side(s, side, 1) # <<>>
Kept(s, side) ==
  IF Separated(s, side) THEN Side(s, side, 0) ELSE SubSeq(s, 1, Len(s) \div 2)
SpilledUnchecked(s, side) == Side(s, side, 1)
Spilled(s, side) ==
  IF Separated(s, side) THEN Side(s, side, 1) ELSE SubSeq(s, Len(s) \div 2 + 1, Len(s))

\* The guard looks at the same shard again, and at the spilled half when its turn comes.
Oversized == phase = "split" /\ at <= Len(shard) /\ Len(shard[at]) > Cap
Split ==
  /\ Oversized
  /\ \E side \in [DOMAIN shard[at] -> {0, 1}] :
       shard' = Append([shard EXCEPT ![at] = Kept(shard[at], side)], Spilled(shard[at], side))
  /\ UNCHANGED <<inputVars, phase, assignVars, at, files, mergeVars>>

NextShard ==
  /\ phase = "split" /\ ~Oversized
  /\ IF at <= Len(shard) THEN at' = at + 1 /\ UNCHANGED phase ELSE at' = 1 /\ phase' = "build"
  /\ UNCHANGED <<inputVars, assignVars, shard, files, mergeVars>>

-----------------------------------------------------------------------------
Ascends(u, list) ==
  \A i \in 1 .. Len(list) - 1 : Dist[<<u, list[i]>>] <= Dist[<<u, list[i + 1]>>]

\* What RNNDescentBuilder may return for member u of a shard.
Lists(u, members) ==
  LET others == members \ {u}
      most == IF Cardinality(others) < R THEN Cardinality(others) ELSE R
  IN {list \in UNION {[1 .. k -> others] : k \in IF Full THEN {most} ELSE 0 .. most} :
        Ascends(u, list) /\ IsInjective(list)}

\* The files a shard may be spilled to: a record per member, in member order.
Spills(members) ==
  LET mayGet == [i \in DOMAIN members |-> Lists(members[i], ToSet(members))]
  IN {[i \in DOMAIN members |-> [gid |-> members[i], list |-> got[i]]] :
        got \in {got \in [DOMAIN members -> UNION Range(mayGet)] :
                   \A i \in DOMAIN members : got[i] \in mayGet[i]}}

\* One shard: the size check, the build, the spill; empty shards are skipped.
BuildShard ==
  /\ phase = "build" /\ at <= Len(shard) /\ Len(shard[at]) * R <= MaxEdges
  /\ at' = at + 1
  /\ IF shard[at] = <<>> THEN UNCHANGED files
     ELSE \E file \in Spills(shard[at]) : files' = Append(files, file)
  /\ UNCHANGED <<inputVars, phase, assignVars, shard, mergeVars>>

TooLarge ==
  phase = "build" /\ at <= Len(shard) /\ Len(shard[at]) * R > MaxEdges /\ Fail("too large")

\* An open or short write is noticed when the file is closed.
WriteFault ==
  /\ "write" \in Faults /\ phase = "build" /\ at <= Len(shard) /\ shard[at] # <<>>
  /\ Fail("io")

-----------------------------------------------------------------------------
\* ShardFileReader::next over the readers in S.  The end of the file, and a fault in the header
\* of a record, both end the reader quietly; a fault in the body throws.
Advanced(S, p) == [f \in DOMAIN p |-> IF f \in S THEN p[f] + 1 ELSE p[f]]
More(f, p) == p <= Len(files[f])
Stopping(S) == {H \in SUBSET S : H = {} \/ ("header" \in Faults /\ Cardinality(H) = 1)}

OpenReaders ==
  /\ phase = "build" /\ at > Len(shard)
  /\ phase' = "merge" /\ expect' = 0
  /\ shard' = <<>>
  /\ pos' = [f \in DOMAIN files |-> 1]
  /\ \E H \in Stopping(DOMAIN files) : ok' = [f \in DOMAIN files |-> f \notin H]
  /\ UNCHANGED <<inputVars, assignVars, at, files, offsets, neighbors>>

Holding(u) == {f \in DOMAIN files : ok[f] /\ files[f][pos[f]].gid = u}

\* std::sort by distance leaves equal distances in any order.
Candidates(u) ==
  FlattenSeq([f \in DOMAIN files |-> IF f \in Holding(u) THEN files[f][pos[f]].list ELSE <<>>])
Orders(u, cand) == {s \in Reorders(cand) : Ascends(u, s)}

\* Walk the sorted candidates: skip the point itself and what was taken before, stop at R.
TakenTwice(u, sorted) ==
  LET taken[i \in 0 .. Len(sorted)] ==
        IF i = 0 THEN <<>>
        ELSE IF sorted[i] = u \/ Len(taken[i - 1]) >= R THEN taken[i - 1]
        ELSE Append(taken[i - 1], sorted[i])
  IN taken[Len(sorted)]
Take(u, taken, v) ==
  IF v = u \/ v \in ToSet(taken) \/ Len(taken) >= R THEN taken ELSE Append(taken, v)
Taken(u, sorted) ==
  LET taken[i \in 0 .. Len(sorted)] ==
        IF i = 0 THEN <<>> ELSE Take(u, taken[i - 1], sorted[i])
  IN taken[Len(sorted)]

MergeOne ==
  /\ phase = "merge" /\ expect < N
  /\ Holding(expect) # {}
  /\ \E sorted \in Orders(expect, Candidates(expect)) :
       neighbors' = neighbors \o Taken(expect, sorted)
  /\ offsets' = Append(offsets, Len(neighbors'))
  /\ pos' = Advanced(Holding(expect), pos)
  /\ \E H \in Stopping(Holding(expect)) :
       ok' = [f \in DOMAIN ok |-> IF f \in Holding(expect) THEN More(f, pos'[f]) /\ f \notin H ELSE ok[f]]
  /\ expect' = expect + 1
  /\ UNCHANGED <<inputVars, phase, assignVars, shard, at, files>>

\* Two consistency checks end the merge: an id in no file, and records left after the last id.
GiveUp ==
  /\ phase = "merge"
  /\ IF expect < N THEN Holding(expect) = {} ELSE \E f \in DOMAIN ok : ok[f]
  /\ Fail(IF expect < N THEN "missing" ELSE "trailing")

\* A record is read when its file is opened, and when the one before it was merged.
Reading ==
  \/ phase = "build" /\ at > Len(shard) /\ files # <<>>
  \/ phase = "merge" /\ expect < N /\ \E f \in Holding(expect) : More(f, pos[f] + 1)
BodyFault == "body" \in Faults /\ Reading /\ Fail("io")

\* The spill files go only when the whole merge succeeded.
Finish ==
  /\ phase = "merge" /\ expect = N /\ \A f \in DOMAIN ok : ~ok[f]
  /\ Fail("done")

Ended == phase \in Final /\ UNCHANGED vars

-----------------------------------------------------------------------------
Init ==
  /\ row \in [Points -> Rows]
  /\ phase = "assign"
  /\ NoWorkers(cursor, todo, tid, tcounter, bucket)
  /\ shard = <<>> /\ at = 1 /\ files = <<>>
  /\ pos = <<>> /\ ok = <<>> /\ expect = 0
  /\ offsets = <<0>> /\ neighbors = <<>>

Next ==
  \/ \E w \in Workers : Claim(w) \/ Place(w)
  \/ Gather
  \/ Split \/ NextShard
  \/ BuildShard \/ TooLarge \/ WriteFault
  \/ OpenReaders \/ MergeOne \/ GiveUp \/ BodyFault \/ Finish
  \/ Ended

Spec == Init /\ [][Next]_vars
-----------------------------------------------------------------------------
TypeOK ==
  /\ row \in [Points -> Rows]
  /\ phase \in {"assign", "split", "build", "merge"} \cup Final
  /\ cursor \in 0 .. N + Chunk * Threads
  /\ \A w \in Workers : ToSet(todo[w]) \subseteq Points /\ tid[w] \in -1 .. Threads - 1
  /\ \A t \in 0 .. Threads - 1, c \in Centroids : ToSet(bucket[t][c]) \subseteq Points
  /\ \A s \in DOMAIN shard : ToSet(shard[s]) \subseteq Points
  /\ \A f \in DOMAIN pos : pos[f] \in 1 .. Len(files[f]) + 1 /\ ok[f] \in BOOLEAN
  /\ expect \in 0 .. N
  /\ ToSet(offsets) \subseteq Nat /\ ToSet(neighbors) \subseteq Points

\* No two workers push into the same buckets: the tid each draws is its own ("Per-thread
\* buckets, concatenated after -- no locks on the hot path").
BucketsPrivate ==
  \A v, w \in Workers : tid[v] = tid[w] /\ tid[v] # -1 => v = w

\* While the points are assigned, no worker is ever in another's way (both of the above).
AssignmentSound == TypeOK /\ BucketsPrivate

\* Whatever worker placed which point, and however shards were split afterwards, every shard is
\* ascending without repeats, and each point is in exactly as many shards as it chose centroids
\* ("Sharding/assignment is seed-deterministic"; splitShard: "each member goes to exactly one half").
Times(p) == Cardinality({s \in DOMAIN shard : p \in ToSet(shard[s])})
ShardsCover ==
  phase \in {"split", "build"} =>
    /\ \A s \in DOMAIN shard : \A i \in 1 .. Len(shard[s]) - 1 : shard[s][i] < shard[s][i + 1]
    /\ \A p \in Points : Times(p) = Cardinality(Chosen(p))

\* The skew guard leaves no shard over the limit, and the loop that splits is sure to end: every
\* split makes two shards that are not empty, so there are never more than one per assignment.
SplitBounded ==
  /\ phase = "build" => \A s \in DOMAIN shard : Len(shard[s]) <= Cap
  /\ Len(shard) <= K + N * Overlap
  /\ \A s \in K + 1 .. Len(shard) : shard[s] # <<>>

\* The graph row of a merged point is exactly its R nearest among all the neighbors its shards
\* recorded, by ascending distance, without itself and without repeats (B4: "union, dedup,
\* top-R by distance").
Offered(u) ==
  UNION {UNION {ToSet(r.list) : r \in {r \in ToSet(file) : r.gid = u}} : file \in ToSet(files)}
RowOf(u) == SubSeq(neighbors, offsets[u + 1] + 1, offsets[u + 2])
RowsExact ==
  phase \in {"merge", "done"} =>
    \A u \in 0 .. expect - 1 :
      /\ Ascends(u, RowOf(u)) /\ IsInjective(RowOf(u))
      /\ ToSet(RowOf(u)) \subseteq Offered(u) \ {u}
      /\ Len(RowOf(u)) < R => ToSet(RowOf(u)) = Offered(u) \ {u}
      /\ Len(RowOf(u)) <= R
      /\ \A v \in Offered(u) \ ({u} \cup ToSet(RowOf(u))), i \in DOMAIN RowOf(u) :
           Dist[<<u, RowOf(u)[i]>>] <= Dist[<<u, v>>]

\* The merge gives up on coverage only when some point really reached no centroid, and a build
\* that ends well has merged a record of every point: the order in which the files are read
\* never makes an id look missing or trailing.
GivesUpOnlyUncovered ==
  /\ phase = "missing" => \E p \in Points : Reached(p) = {}
  /\ phase # "trailing"
  /\ phase = "done" => Len(offsets) = N + 1 /\ \A p \in Points : Reached(p) # {}

\* A build that ends well has merged every record that was spilled; an I/O failure on the way ends
\* it with an exception instead (lsm_vec_sharded_build.h: "Throws std::runtime_error on I/O
\* failure or coverage violations").
FaultsThrow == phase = "done" => \A f \in DOMAIN files : pos[f] = Len(files[f]) + 1
=============================================================================
