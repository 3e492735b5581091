-------------------------------- MODULE Reports --------------------------------
(***************************************************************************)
(* The scripts beside bench.py that read the raw files themselves, each in *)
(* its own way: the parameter sweeps, the ablation, the breakdowns, the    *)
(* analyses of the revision and the reconstruction of the merges.          *)
(***************************************************************************)
EXTENDS Metrics

CONSTANTS
  Queries,   \* queries of an epoch
  Inserted,  \* inserts of an epoch
  Floor      \* what a merge takes at least

ASSUME ReportsAssumption == {Queries, Inserted, Floor} \subseteq Nat

MEM_COMPS == <<"mem_upper_hnsw_mb", "mem_sa_sketch_mb", "mem_graph_cache_mb", "mem_vec_cache_mb",
               "mem_update_buf_mb">>
Larger(a, b) == IF a >= b THEN a ELSE b
Rows(xs, k) == Keep(xs, LAMBDA x : x[k] # None)
\* The mean where a missing value counts as nothing.
MeanOr0(xs, k) == Total(Column(xs, k)) \div Len(xs)

-----------------------------------------------------------------------------
\* plot_param.py: one run of a sweep, and one of the sweep over M, which needs a recall.
LastRecall(r) == Column(r, "recall10")
param_last(r) ==
  [recall |-> LastOf(LastRecall(r)),
   pmiss |-> Get(Last(r), "query_page_miss_per_query", 0),
   p99 |-> MeanOr0(r, "lat_p99_ms"),
   ins |-> LET v == Positive(Column(r, "ins_ops_s")) IN Total(v) \div Larger(1, Len(v))]
msweep(r) ==
  [recall |-> Last(Column(r, "recall10")),
   p99 |-> MeanOr0(r, "lat_p99_ms"),
   graph |-> Get(Last(r), "disk_graph_mb", 0),
   ins |-> LET v == Positive(Column(r, "ins_ops_s")) IN IF v = <<>> THEN 0 ELSE mean(v)]

\* plot_ablation.py: the last value that is there, or the mean of those that are.
ablation_load(r) ==
  [k \in {"recall10", "query_page_miss_per_query", "lat_p99_ms"} |->
     IF k = "lat_p99_ms" THEN mean(Column(r, k)) ELSE LastOf(Column(r, k))]

\* plot_adjratio.py: a run of the sweep over the ratio of adjacent layers.
adjratio_row(r, mem) ==
  [recall |-> LastOf(Column(r, "recall10")),
   sketch_mb |-> Get(Last(r), "mem_sa_sketch_mb", 0),
   rss |-> LET v == Column(Served(mem), "rss") IN IF v = <<>> THEN 0 ELSE MaxOf(v),
   lat |-> MeanOr0(r, "lat_mean_ms")]

-----------------------------------------------------------------------------
\* plot_breakdown.py: the peak of the stream, the stack of the components and what they leave of
\* the peak, and a variant of the cache in its own figure.
peak_rss(mem) == LET v == Column(Served(mem), "rss") IN IF v = <<>> THEN 0 ELSE MaxOf(v)
Identified(row) == Total([i \in DOMAIN MEM_COMPS |-> Get(row, MEM_COMPS[i], 0)])
other_mb(r, mem) == Larger(0, peak_rss(mem) - Identified(Last(r)))
stacked_mem(r, mem) == Identified(Last(r)) + other_mb(r, mem)
cache_variant(r) ==
  [p99 |-> MeanOr0(r, "lat_p99_ms"),
   miss |-> Get(Last(r), "query_page_miss_per_query", 0),
   recall |-> LastOf(Column(r, "recall10"))]

\* plot_exp2_memory.py: what the components leave of each row's own size, and the curve of the
\* stream from its first sample on.
residual(r) == [i \in DOMAIN r |-> Larger(0, r[i]["rss_mb"] - Identified(r[i]))]
rss_series(mem) ==
  LET wl == Served(mem)
  IN [i \in DOMAIN wl |-> [t |-> wl[i].t - wl[1].t, rss |-> wl[i].rss]]

-----------------------------------------------------------------------------
\* refine_diskann_insert_latency.py: an epoch lasts from its first sample to that of the next one;
\* what queries and inserts do not explain of it was a merge.
first_t(mem, e) == LET at == {x \in ToSet(mem) : x.epoch = e} IN Min({x.t : x \in at})
Sampled(mem) == {x.epoch : x \in ToSet(Served(mem))}
wallToEnd(mem, e) == Last(mem).t - first_t(mem, e)
wall(mem, e) ==
  (IF e + 1 \in Sampled(mem) THEN first_t(mem, e + 1) ELSE Last(mem).t) - first_t(mem, e)
delta_s(row) == Inserted \div row["ins_ops_s"]
merge_s(row, mem, e) ==
  IF 0 \in {row["ins_ops_s"], row["qps"]} THEN 0
  ELSE Larger(0, wall(mem, e) - Queries \div row["qps"] - delta_s(row))
is_merge(row, mem, e) == merge_s(row, mem, e) > Floor
Refined(r, mem) == {e \in 0 .. Len(r) - 1 : e \in Sampled(mem)}

-----------------------------------------------------------------------------
\* Values by epoch, and the mean over the epochs.
ByEpoch(pairs) ==
  [e \in {p.epoch : p \in ToSet(pairs)} |->
     mean(Column(Keep(pairs, LAMBDA p : p.epoch = e), "value"))]
MeanOver(by) ==
  IF DOMAIN by = {} THEN None
  ELSE Total([n \in 1 .. Max(DOMAIN by) + 1 |-> IF n - 1 \in DOMAIN by THEN by[n - 1] ELSE 0])
         \div Cardinality(DOMAIN by)
OfEpoch(by, e) == IF e \in DOMAIN by THEN by[e] ELSE None

\* analyze_byte_step1.py: a page-cache sample belongs to the epoch it is tagged with; a file
\* without tags is laid on the time line of the memory samples, which ascends.
bisectFromZero(mem, t) == Cardinality({i \in DOMAIN mem : mem[i].t < t})
bisect_left(mem, t) == 1 + Cardinality({i \in DOMAIN mem : mem[i].t < t})
filed(mem, c) == Min({bisect_left(mem, c.t), Len(mem)})
per_epoch_cache(cache, mem) ==
  LET tagged == Keep(cache, LAMBDA c : c.epoch >= 0)
      laid == [i \in DOMAIN cache |->
                 [epoch |-> mem[filed(mem, cache[i])].epoch, value |-> cache[i].cached]]
  IN IF tagged # <<>>
       THEN ByEpoch([i \in DOMAIN tagged |-> [epoch |-> tagged[i].epoch, value |-> tagged[i].cached]])
     ELSE IF mem = <<>> THEN <<>>
     ELSE ByEpoch(Keep(laid, LAMBDA p : p.epoch >= 0))

\* The rows' own measure where there is one, otherwise the samples.
per_epoch_anon(r, mem) ==
  IF \E i \in DOMAIN r : Get(r[i], "rss_anon_mb", 0) # 0
    THEN ByEpoch([i \in DOMAIN Rows(r, "rss_anon_mb") |->
                    LET x == Rows(r, "rss_anon_mb")[i] IN [epoch |-> x.epoch, value |-> x["rss_anon_mb"]]])
    ELSE ByEpoch([i \in DOMAIN Served(mem) |->
                    LET x == Served(mem)[i] IN [epoch |-> x.epoch, value |-> x.anon]])

\* Mean and last value of the measures; the total is taken per epoch, where both parts are known.
summarize(r, mem, cache) ==
  LET ep   == Rows(r, "lat_mean_ms")
      last == Max({x.epoch : x \in ToSet(ep)})
      anon == per_epoch_anon(ep, mem)
      disk == per_epoch_cache(cache, mem)
      tot  == [e \in DOMAIN anon \cap DOMAIN disk |-> anon[e] + disk[e]]
  IN [recall |-> <<mean(Column(ep, "recall10")), LastOf(Column(ep, "recall10"))>>,
      p99 |-> mean(Column(ep, "lat_p99_ms")),
      ins |-> mean(Column(ep, "ins_ops_s")),
      anon |-> <<MeanOver(anon), OfEpoch(anon, last)>>,
      cache |-> <<MeanOver(disk), OfEpoch(disk, last)>>,
      total |-> <<MeanOver(tot), OfEpoch(tot, last)>>]

\* analyze_footprint.py and analyze_phase_c.py: the total is the sum of the two means.  The rate of
\* the inserts counts, here and above, the epochs without any.
Plus(a, b) == IF None \in {a, b} THEN None ELSE a + b
footprint_leg(r, mem, cache) ==
  LET anon == MeanOver(per_epoch_anon(r, mem))
      disk == MeanOver(per_epoch_cache(cache, mem))
  IN [anon |-> anon, cache |-> disk, total |-> Plus(anon, disk),
      recall |-> mean(Column(r, "recall10")), p99 |-> MeanOr0(r, "lat_p99_ms"),
      ins |-> MeanOr0(r, "ins_ops_s")]
phase_c_stats(r, mem, cache) ==
  LET ep == Rows(r, "lat_mean_ms")
      anon == MeanOver(per_epoch_anon(ep, mem))
      disk == MeanOver(per_epoch_cache(cache, mem))
  IN [r0 |-> Head(Column(ep, "recall10")), r49 |-> Last(Column(ep, "recall10")),
      p99 |-> mean(Column(ep, "lat_p99_ms")), ins |-> mean(Column(ep, "ins_ops_s")),
      total |-> Plus(anon, disk)]

\* analyze_e4.py: epochs without queries or without inserts have no part in their table.
e4_query(r) == mean(Column(Keep(r, LAMBDA x : Get(x, "lat_mean_ms", 0) > 0), "lat_p99_ms"))
e4_update(r) == mean(Column(Keep(r, LAMBDA x : Get(x, "ins_ops_s", 0) > 0), "ins_ops_s"))
=============================================================================
