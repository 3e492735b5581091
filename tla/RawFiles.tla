------------------------------- MODULE RawFiles -------------------------------
(***************************************************************************)
(* The raw files of the systems of one cell, as the drivers write them     *)
(* that sample their own memory (bench_stream_merge, bench_streaming).     *)
(* The memory file is opened when the driver starts, the file of the       *)
(* epochs only once the index is built, so for the hours of a build that   *)
(* is repeated the two belong to different runs.  A leg may be killed.     *)
(***************************************************************************)
EXTENDS Metrics

CONSTANTS
  Systems,   \* the systems of the cell
  Tagged,    \* those whose page-cache sampler is given the epoch file
  Absent,    \* no such file
  Sizes,     \* sizes a process can have
  Grain,     \* what sizes, rates and latencies are multiples of
  Measures,  \* what an epoch can measure: records without the epoch
  NEpochs,   \* epochs of the workload
  MaxCached, \* bound: page-cache samples of a system
  Skew,      \* bound: intervals by which the clocks of the two samplers differ
  Records    \* bound: how many records are written, and commands given, in all

\* The keys of a row that some script reads.
Fields == {"epoch", "lat_mean_ms", "lat_p50_ms", "lat_p99_ms", "qps", "ins_ops_s", "recall10", "rss_mb",
           "rss_anon_mb", "query_page_miss_per_query", "disk_graph_mb", "mem_upper_hnsw_mb",
           "mem_sa_sketch_mb", "mem_graph_cache_mb", "mem_vec_cache_mb", "mem_update_buf_mb"}

\* What one line of each file says.
Tags == -1 .. NEpochs - 1
Row == [Fields -> Nat \cup {None}]
MemSample == [t : Nat, epoch : Tags, rss : Sizes, anon : Nat]
CachePoint == [t : Nat, cached : Nat, after : Nat, epoch : Tags]
ASSUME AbsentAssumption == Absent \notin Seq(Row) \cup Seq(MemSample) \cup Seq(CachePoint)

\* An epoch may have no queries, whose latencies and rate are then 0, or no inserts.
ASSUME MeasuresAssumption ==
  /\ None \notin Nat
  /\ Measures \subseteq Row
  /\ \A m \in Measures :
       /\ {m["lat_mean_ms"], m["lat_p99_ms"], m["qps"], m["ins_ops_s"], m["rss_mb"]} \subseteq Nat
       /\ m["lat_mean_ms"] = 0 <=> m["lat_p99_ms"] = 0
ASSUME BoundsAssumption == Records \in Nat /\ NEpochs \in Nat /\ MaxCached \in Nat /\ Skew \in Nat

\* A whole number stands for a decimal: the grain is fine enough for the mean over any epochs, and
\* for that of means over any samples.  (Two of the records are a start and a line of another file.)
ASSUME GrainAssumption ==
  /\ Grain \in Nat \ {0}
  /\ \A k \in 1 .. NEpochs : \E q \in 1 .. Grain : Grain = q * k
  /\ \A n \in 1 .. Records - 2, k \in 1 .. NEpochs : \E q \in 1 .. Grain : Grain = q * (n * k)
  /\ Sizes \subseteq Nat /\ \A size \in Sizes : \E q \in 0 .. size : size = 2 * (q * Grain)
  /\ \A m \in Measures, c \in {"rss_anon_mb", "ins_ops_s", "lat_p99_ms"} :
       m[c] # None => \E q \in 0 .. m[c] : m[c] = q * Grain

VARIABLES
  rows,   \* the rows of each system, or Absent
  mem,    \* its memory samples, or Absent
  cache,  \* its page-cache samples, or Absent
  leg,    \* what its driver does
  older,  \* whether its rows are those of an earlier run than its memory is
  epoch,  \* the tag of the next memory sample
  written \* the records written and commands given so far

fileVars == <<rows, mem, cache, older>>
rawVars  == <<rows, mem, cache, older, leg, epoch, written>>

\* A driver that goes on with the memory file it finds.
StartLegAppends(s) ==
  /\ leg[s] = "off" /\ written < Records
  /\ leg' = [leg EXCEPT ![s] = "build"]
  /\ mem' = [mem EXCEPT ![s] = IF mem[s] = Absent THEN <<>> ELSE mem[s]]
  /\ cache' = [cache EXCEPT ![s] = <<>>]
  /\ older' = [older EXCEPT ![s] = rows[s] # Absent]
  /\ written' = written + 1
  /\ UNCHANGED <<rows, epoch>>

\* A leg starts anew whatever an earlier one left; only its rows survive the build.
StartLeg(s) ==
  /\ leg[s] = "off" /\ written < Records
  /\ leg' = [leg EXCEPT ![s] = "build"]
  /\ mem' = [mem EXCEPT ![s] = <<>>]
  /\ cache' = [cache EXCEPT ![s] = <<>>]
  /\ older' = [older EXCEPT ![s] = rows[s] # Absent]
  /\ written' = written + 1
  /\ UNCHANGED <<rows, epoch>>

StartStream(s) ==
  /\ leg[s] = "build"
  /\ leg' = [leg EXCEPT ![s] = "stream"]
  /\ rows' = [rows EXCEPT ![s] = <<>>]
  /\ older' = [older EXCEPT ![s] = FALSE]
  /\ UNCHANGED <<mem, cache, epoch, written>>

Announce(s) ==
  /\ leg[s] = "stream"
  /\ epoch[s] + 1 = Len(rows[s]) /\ epoch[s] + 1 < NEpochs
  /\ epoch' = [epoch EXCEPT ![s] = epoch[s] + 1]
  /\ UNCHANGED <<fileVars, leg, written>>

WriteRow(s) ==
  /\ leg[s] = "stream" /\ written < Records
  /\ epoch[s] = Len(rows[s])
  /\ \E m \in Measures :
       rows' = [rows EXCEPT ![s] = Append(rows[s], [m EXCEPT !.epoch = epoch[s]])]
  /\ written' = written + 1
  /\ UNCHANGED <<mem, cache, older, leg, epoch>>

\* A sample in every interval since the driver started.  The anonymous part is the smaller.
Clock(s) == Len(mem[s])
Sample(s) ==
  /\ leg[s] # "off" /\ written < Records
  /\ \E size \in Sizes :
       mem' = [mem EXCEPT ![s] = Append(mem[s],
                 [t |-> Clock(s), epoch |-> epoch[s], rss |-> size, anon |-> size \div 2])]
  /\ written' = written + 1
  /\ UNCHANGED <<rows, cache, older, leg, epoch>>

\* The page-cache sampler is another process with a clock of its own, a little before or behind,
\* and rounds its time.  (after: how many samples of the memory came before.)
CacheSample(s) ==
  /\ leg[s] # "off" /\ written < Records /\ Len(cache[s]) < MaxCached
  /\ \E t \in (Clock(s) - 1 - Skew .. Clock(s) + Skew) \cap Nat :
       /\ cache[s] # <<>> => t > Last(cache[s]).t
       /\ cache' = [cache EXCEPT ![s] = Append(cache[s],
                      [t |-> t, cached |-> Grain * (t + 1), after |-> Len(mem[s]),
                       epoch |-> IF s \in Tagged THEN epoch[s] ELSE -1])]
  /\ written' = written + 1
  /\ UNCHANGED <<rows, mem, older, leg, epoch>>

StopLeg(s) ==
  /\ leg[s] # "off"
  /\ leg' = [leg EXCEPT ![s] = "off"]
  /\ epoch' = [epoch EXCEPT ![s] = -1]
  /\ UNCHANGED <<fileVars, written>>

InitRaw ==
  /\ rows = [s \in Systems |-> Absent]
  /\ mem = [s \in Systems |-> Absent]
  /\ cache = [s \in Systems |-> Absent]
  /\ older = [s \in Systems |-> FALSE]
  /\ leg = [s \in Systems |-> "off"]
  /\ epoch = [s \in Systems |-> -1]
  /\ written = 0

NextRaw ==
  \E s \in Systems :
    \/ StartLeg(s) \/ StartStream(s) \/ Announce(s) \/ StopLeg(s)
    \/ WriteRow(s) \/ Sample(s) \/ CacheSample(s)

\* What a script finds in a file that may not be there.
Found(file) == IF file = Absent THEN <<>> ELSE file
=============================================================================
