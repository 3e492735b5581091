------------------------------- MODULE MCResults -------------------------------
\* Two systems, and epochs with queries and inserts, with queries alone and with inserts alone.
EXTENDS Results

Base == [k \in Fields |-> None]
Plain == [Base EXCEPT !["lat_mean_ms"] = 2, !["lat_p50_ms"] = 2, !["lat_p99_ms"] = 72, !["qps"] = 8,
                      !["ins_ops_s"] = 72, !["rss_mb"] = 210,
                      !["mem_sa_sketch_mb"] = 100, !["mem_graph_cache_mb"] = 100]
MCMeasures ==
  {[Plain EXCEPT !["recall10"] = 90],
   [Plain EXCEPT !["lat_p99_ms"] = 144, !["ins_ops_s"] = 0],
   [Plain EXCEPT !["lat_mean_ms"] = 0, !["lat_p50_ms"] = 0, !["lat_p99_ms"] = 0, !["qps"] = 0]}

MCOrder == <<"ours", "theirs">>
MCRegistered == <<"latency_epoch", "mem_time", "recall_latency_pareto", "build_time">>
MCGiven ==
  {[cmd |-> "run", names |-> <<"latency_epoch", "build_time">>], [cmd |-> "run", names |-> <<"recall_latency_pareto">>],
   [cmd |-> "plot", names |-> <<"mem_time">>],
   [cmd |-> "clean", names |-> <<"all">>], [cmd |-> "clean", names |-> <<"mem_time", "unknown">>]}
MCSystems == ToSet(MCOrder)
MCTagged == {"theirs"}
=============================================================================
