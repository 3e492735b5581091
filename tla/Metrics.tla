-------------------------------- MODULE Metrics --------------------------------
(***************************************************************************)
(* What the scripts read out of the raw files of one system: the rows its  *)
(* driver wrote, one per epoch, and its memory samples, each with a time,  *)
(* a tag and a size.  None stands for a value that is null or missing.     *)
(* Means are whole: the numbers of a model are multiples of their counts.  *)
(***************************************************************************)
EXTENDS Integers, Sequences, FiniteSets, FiniteSetsExt, SequencesExt

CONSTANT None

\* x.get(k, d) where the value may also be null.
Get(x, k, d) == IF x[k] = None THEN d ELSE x[k]

\* The elements of a sequence at the places S, and those that pass a test, in their order.
Kept(xs, S) ==
  LET kept[n \in 0 .. Len(xs)] ==
        IF n = 0 THEN <<>> ELSE IF n \in S THEN Append(kept[n - 1], xs[n]) ELSE kept[n - 1]
  IN kept[Len(xs)]
Keep(xs, Test(_)) == Kept(xs, {i \in DOMAIN xs : Test(xs[i])})

\* The values of a column that are there, and what is made of them.
Column(xs, k) == Keep([i \in DOMAIN xs |-> xs[i][k]], LAMBDA v : v # None)
Total(v) ==
  LET total[n \in 0 .. Len(v)] == IF n = 0 THEN 0 ELSE total[n - 1] + v[n]
  IN total[Len(v)]
mean(v)   == IF v = <<>> THEN None ELSE Total(v) \div Len(v)
LastOf(v) == IF v = <<>> THEN None ELSE Last(v)
MaxOf(v)  == IF v = <<>> THEN None ELSE Max(ToSet(v))

Every(v) == v
\* The values but for the zeros, where there was nothing to measure.
Positive(v) == Keep(v, LAMBDA x : x > 0)

\* The samples of the build and those of the stream.
Building(mem) == {x \in ToSet(mem) : x.epoch = -1}
Served(mem) == Keep(mem, LAMBDA x : x.epoch >= 0)

\* The time of the last sample of the build, and the largest sample of the stream.
build_time_s(mem) == IF Building(mem) = {} THEN None ELSE Max({x.t : x \in Building(mem)})
peak_rss_mb(mem) == MaxOf(Column(Served(mem), "rss"))
=============================================================================
