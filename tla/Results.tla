-------------------------------- MODULE Results --------------------------------
(***************************************************************************)
(* bench.py: the raw files of a cell become one table for each experiment  *)
(* and each table a figure in two formats.  A command works through the    *)
(* experiments it names, one file after the other, while drivers may be    *)
(* writing the raw files, and may be killed at any moment.                 *)
(***************************************************************************)
EXTENDS RawFiles, Figures, Reports

CONSTANTS
  Order,       \* the systems, in the order of the registry
  Registered,  \* the experiments of the cell, in the order of the registry
  Given        \* the commands that are given: what to do, with which names

ASSUME OrderAssumption ==
  /\ Order \in Seq(Systems) /\ ToSet(Order) = Systems
  /\ \A i, j \in DOMAIN Order : Order[i] = Order[j] => i = j
ASSUME NamesAssumption == {None, nan} \cap Systems = {} /\ nan \notin Nat \cup {None}
ASSUME RegisteredAssumption == Registered \in Seq(Names)
ASSUME GivenAssumption == \A c \in Given : c.cmd \in {"run", "plot", "clean"} /\ c.names \in Seq(STRING)
\* No epoch has more samples than the axis of the memory curves has places for it.
ASSUME UnitAssumption == Unit \in Nat /\ Records <= Unit
VARIABLES
  dat,      \* the table of each experiment, or Absent
  fig,      \* its figure in each format, or Absent
  job,      \* the command in progress
  fresh     \* experiments run to the end since which no raw file changed

resultVars == <<dat, fig, job, fresh>>
vars == <<rawVars, resultVars>>

Experiments == ToSet(Registered)
Idle == [cmd |-> "none", todo |-> <<>>, step |-> "next", at |-> 1, table |-> <<>>, stable |-> FALSE]

\* "all" is every experiment; one unknown name and nothing is done.
Unknown(names) == \E i \in DOMAIN names : names[i] \notin Experiments
Resolved(names) ==
  IF names = <<"all">> THEN Registered ELSE IF Unknown(names) THEN <<>> ELSE names

Begin ==
  /\ job.cmd = "none" /\ written + 2 <= Records
  /\ \E c \in Given : job' = [Idle EXCEPT !.cmd = c.cmd, !.todo = Resolved(c.names)]
  /\ written' = written + 2
  /\ UNCHANGED <<fileVars, leg, epoch, dat, fig, fresh>>

f == Head(job.todo)
Source == FAMILIES[f].source
At(step) == job.cmd # "none" /\ job.todo # <<>> /\ job.step = step
Following == [job EXCEPT !.todo = Tail(job.todo), !.step = "next"]

AggregatesOnce == IF dat[f] = Absent THEN {"run", "plot"} ELSE {"run"}
\* What `plot` does is what `run` does: it aggregates again.
Aggregates == {"run", "plot"}
TakeUp ==
  /\ At("next")
  /\ job' = [job EXCEPT !.step = IF job.cmd \in Aggregates THEN "read"
                                 ELSE IF job.cmd = "clean" THEN "dat" ELSE "pdf",
                        !.at = 1, !.table = <<>>, !.stable = TRUE]
  /\ fresh' = fresh \ {f}
  /\ UNCHANGED <<dat, fig>>

\* The files of one system, read one at a time: a summary reads three.
ReadDone(table, step) ==
  /\ job' = [job EXCEPT !.table = table, !.step = step,
                        !.at = IF step = "read" THEN job.at + 1 ELSE job.at]
  /\ UNCHANGED <<dat, fig, fresh>>
Filled(column, value) == [job.table EXCEPT ![Len(job.table)][column] = value]

ReadSystem ==
  /\ At("read") /\ job.at <= Len(Order)
  /\ LET s == Order[job.at] IN
       \/ /\ Source = "epoch"
          /\ ReadDone(job.table \o aggregate_epoch(s, Found(rows[s])), "read")
       \/ /\ Source = "mem"
          /\ ReadDone(job.table \o aggregate_mem(s, Served(Found(mem[s]))), "read")
       \/ /\ Source = "summary" /\ rows[s] = Absent
          /\ ReadDone(job.table, "read")
       \/ /\ Source = "summary" /\ rows[s] # Absent
          /\ ReadDone(Append(job.table,
                        [system |-> s, build_time_s |-> None, peak_rss_mb |-> None,
                         mean_ins_ops_s |-> mean_ins_ops_s(rows[s]),
                         end_recall10 |-> end_recall10(rows[s])]), "build")
ReadBuild ==
  /\ At("build")
  /\ ReadDone(Filled("build_time_s", build_time_s(Found(mem[Order[job.at]]))), "peak")
ReadPeak ==
  /\ At("peak")
  /\ ReadDone(Filled("peak_rss_mb", peak_rss_mb(Found(mem[Order[job.at]]))), "read")

\* Without rows the experiment is passed over, and what there was of it stays.
Aggregated == At("read") /\ job.at > Len(Order)
Skip ==
  /\ Aggregated /\ job.table = <<>>
  /\ job' = Following
  /\ UNCHANGED <<dat, fig, fresh>>

OpenDat ==
  /\ Aggregated /\ job.table # <<>>
  /\ dat' = [dat EXCEPT ![f] = Empty]
  /\ job' = [job EXCEPT !.step = "write"]
  /\ UNCHANGED <<fig, fresh>>

WriteDat ==
  /\ At("write")
  /\ dat' = [dat EXCEPT ![f] = write_dat(Columns(Source), job.table)]
  /\ job' = [job EXCEPT !.step = "pdf"]
  /\ UNCHANGED <<fig, fresh>>

\* The plotter reads the table from its file and saves what it drew twice.
Saved(format) == [fig EXCEPT ![f][format] = Draw(f, read_dat(dat[f]))]
SavePdf ==
  /\ At("pdf") /\ job.cmd # "clean"
  /\ fig' = Saved("pdf")
  /\ job' = [job EXCEPT !.step = "svg"]
  /\ UNCHANGED <<dat, fresh>>
SaveSvg ==
  /\ At("svg") /\ job.cmd # "clean"
  /\ fig' = Saved("svg")
  /\ job' = Following
  /\ fresh' = IF job.stable THEN fresh \cup {f} ELSE fresh
  /\ UNCHANGED <<dat>>

\* Cleaning removes the three files, and never a raw one.
RemoveDat ==
  /\ At("dat")
  /\ dat' = [dat EXCEPT ![f] = Absent]
  /\ job' = [job EXCEPT !.step = "pdf"]
  /\ UNCHANGED <<fig, fresh>>
RemoveFig(format, step) ==
  /\ At(format) /\ job.cmd = "clean"
  /\ fig' = [fig EXCEPT ![f][format] = Absent]
  /\ job' = IF step = "next" THEN Following ELSE [job EXCEPT !.step = step]
  /\ UNCHANGED <<dat, fresh>>

\* A command ends with its last experiment, or is killed before.
End ==
  /\ job.cmd # "none"
  /\ job' = Idle
  /\ UNCHANGED <<dat, fig, fresh>>

Command ==
  \/ TakeUp
  \/ ReadSystem \/ ReadBuild \/ ReadPeak
  \/ Skip \/ OpenDat \/ WriteDat \/ SavePdf \/ SaveSvg
  \/ RemoveDat \/ RemoveFig("pdf", "svg") \/ RemoveFig("svg", "next")
  \/ End

\* A driver that writes a file makes the figures drawn from it old.
Raw ==
  /\ NextRaw
  /\ UNCHANGED <<dat, fig>>
  /\ IF <<rows', mem'>> = <<rows, mem>>
       THEN UNCHANGED <<job, fresh>>
       ELSE /\ job' = [job EXCEPT !.stable = FALSE]
            /\ fresh' = {}

Init ==
  /\ InitRaw
  /\ dat = [x \in Experiments |-> Absent]
  /\ fig = [x \in Experiments |-> [pdf |-> Absent, svg |-> Absent]]
  /\ job = Idle /\ fresh = {}

Next ==
  \/ Raw
  \/ Begin
  \/ Command /\ UNCHANGED rawVars

\* Nothing moves once the last command ended and no driver runs.
Ended ==
  /\ job = Idle /\ written + 1 >= Records
  /\ \A s \in Systems : leg[s] = "off"
  /\ UNCHANGED vars

Spec == Init /\ [][Next \/ Ended]_vars
-----------------------------------------------------------------------------
\* What the raw files of this moment say of an experiment, as sets.
Points(curve) == ToSet(curve)
EpochPoints(s, x, y) ==
  {[x |-> r[x], y |-> r[y]] : r \in {r \in ToSet(Found(rows[s])) : r[x] # None /\ r[y] # None}}
MemPoints(s) ==
  LET m == Served(Found(mem[s]))
      among(i) == {j \in DOMAIN m : m[j].epoch = m[i].epoch}
  IN {[x |-> Unit * m[i].epoch + Nearest(Unit * (i - Min(among(i))), Cardinality(among(i))), y |-> m[i].rss]
        : i \in DOMAIN m}
CurvesShow(curves, points(_)) ==
  /\ DOMAIN curves = {s \in Systems : points(s) # {}}
  /\ \A s \in DOMAIN curves : Points(curves[s]) = points(s)

Shows(x, picture) ==
  LET p == FAMILIES[x]
      top(s) == EpochPoints(s, p.x, p.y)
      bottom(s) == EpochPoints(s, p.x, p.below)
      built(s) == {m.t : m \in {m \in ToSet(Found(mem[s])) : m.epoch = -1}}
      both(s) == {r \in ToSet(Found(rows[s])) : None \notin {r[p.x], r[p.y]}}
      inserts(s) == {r["ins_ops_s"] : r \in ToSet(Found(rows[s]))} \ {None, 0}
  IN CASE p.source = "mem" -> CurvesShow(picture, MemPoints)
       [] p.plot = "series" /\ p.source = "epoch" -> CurvesShow(picture, top)
       [] p.plot = "dual" -> CurvesShow(picture[1], top) /\ CurvesShow(picture[2], bottom)
       [] p.plot = "pareto" ->
            /\ DOMAIN picture = {s \in Systems : top(s) # {}}
            /\ \A s \in DOMAIN picture :
                 \E r \in both(s) : /\ picture[s] = [x |-> r[p.x], y |-> r[p.y]]
                                   /\ \A q \in both(s) : q["epoch"] <= r["epoch"]
       [] p.y = "build_time_s" ->
            /\ DOMAIN picture = {s \in Systems : rows[s] # Absent /\ built(s) # {}}
            /\ \A s \in DOMAIN picture : picture[s] = Max(built(s))
       [] OTHER -> DOMAIN picture = {s \in Systems : inserts(s) # {}}

\* An experiment that was run to its end while no driver wrote shows, in both formats, exactly what
\* the raw files hold: every system that has something to show and every value that is not null,
\* whatever commands were killed before and whatever older tables and figures were left.
FiguresCurrent ==
  \A x \in fresh : \A format \in {"pdf", "svg"} : Shows(x, fig[x][format])

\* In every figure, also one drawn while the drivers write, each curve goes forward: a memory sample
\* has its own place on the axis, inside its epoch.
Forward(curves) ==
  \A s \in DOMAIN curves : \A i \in 1 .. Len(curves[s]) - 1 : curves[s][i].x < curves[s][i + 1].x
CurvesForward ==
  \A x \in Experiments : \A format \in {"pdf", "svg"} :
    fig[x][format] # Absent =>
      /\ FAMILIES[x].plot = "series" => Forward(fig[x][format])
      /\ FAMILIES[x].plot = "dual" => Forward(fig[x][format][1]) /\ Forward(fig[x][format][2])

\* While a build is repeated, or after it was killed, a cell has the rows of an earlier run beside
\* the memory of the later one.  Memory then has no sample of a stream: peaks and memory curves are
\* never those of another run than the rows, only the time of the build is.
OneRun == \A s \in Systems : older[s] => Served(Found(mem[s])) = <<>>

\* Scripts that report the same quantity report the same number, though each reads the raw files in
\* its own way: the peak of the stream, the recall at its end, the tail latency.  Of the rate of the
\* inserts there are two: bench.py, the sweeps and analyze_e4 average the epochs that have inserts;
\* analyze_byte_step1, _footprint and _phase_c all epochs, which is less by the share of the others.
\* The tail latency of analyze_e4 is over epochs with queries, that of the others over all epochs.
Diluted(all, some, r, k) == all * Len(r) = some * Cardinality({i \in DOMAIN r : r[i][k] # 0})
ReportsAgree ==
  \A s \in Systems :
    LET r == Found(rows[s])
        m == Found(mem[s])
        peak == Get([rss |-> peak_rss_mb(m)], "rss", 0)
        end == end_recall10(r)
        rate == Get([ins |-> mean_ins_ops_s(r)], "ins", 0)
        param == param_last(r)
        load == ablation_load(r)
        ratio == adjratio_row(r, m)
        variant == cache_variant(r)
        sum == summarize(r, m, <<>>)
        legs == footprint_leg(r, m, <<>>)
    IN /\ \A x \in {peak_rss(m)} \cup {Max({0} \cup {q.rss : q \in ToSet(rss_series(m))})} : x = peak
       /\ r # <<>> =>
            /\ ratio.rss = peak
            /\ stacked_mem(r, m) = Larger(peak, Identified(Last(r)))
            /\ \A i \in DOMAIN r :
                 LET known == Identified(r[i])
                 IN residual(r)[i] + known = Larger(r[i]["rss_mb"], known)
            /\ \A x \in {param.recall, load["recall10"], ratio.recall, variant.recall, sum.recall[2]} : x = end
            /\ param.ins = rate
            /\ Get([ins |-> e4_update(r)], "ins", 0) = rate
            /\ legs.ins = sum.ins
            /\ Diluted(sum.ins, rate, r, "ins_ops_s")
            /\ \A x \in {variant.p99, load["lat_p99_ms"], sum.p99, legs.p99} : x = param.p99
            /\ Diluted(sum.p99, Get([p99 |-> e4_query(r)], "p99", 0), r, "lat_mean_ms")
            /\ end # None =>
                 LET sweep == msweep(r)
                     stats == phase_c_stats(r, m, <<>>)
                 IN /\ sweep.recall = end /\ stats.r49 = end
                    /\ sweep.ins = rate  /\ stats.ins = sum.ins
                    /\ sweep.p99 = sum.p99 /\ stats.p99 = sum.p99

\* A page-cache sample without a tag is filed with a memory sample that is no further from it than
\* the clocks of the two samplers differ; and where every epoch has both parts, the two ways to take
\* the total agree.
FootprintFiled ==
  \A s \in Systems :
    LET r == Found(rows[s])
        m == Found(mem[s])
        c == Found(cache[s])
        both == DOMAIN per_epoch_cache(c, m) = DOMAIN per_epoch_anon(r, m)
        total == footprint_leg(r, m, c).total
    IN /\ m # <<>> => \A i \in DOMAIN c :
            filed(m, c[i]) \in (c[i].after - Skew .. c[i].after + 1 + Skew) \cap DOMAIN m
       /\ r # <<>> /\ both =>
            /\ summarize(r, m, c).total[1] = total
            /\ end_recall10(r) # None => phase_c_stats(r, m, c).total = total

\* The times the reconstruction gives two epochs do not overlap, but for an epoch that is followed by
\* one without samples: it lasts to the end of the samples, so that later epochs count twice.  Where
\* every epoch has a sample the times tile the stream.  No merge is longer than its epoch.
MergesTile ==
  \A s \in Systems :
    LET r == Found(rows[s])
        m == Found(mem[s])
        epochs == Refined(r, m)
        ended(e) == first_t(m, e) + wall(m, e)
    IN /\ \A d \in epochs : \A e \in {e \in epochs : d < e} :
            IF d + 1 \in Sampled(m) THEN ended(d) <= first_t(m, e) ELSE ended(e) <= ended(d)
       /\ r # <<>> /\ epochs = 0 .. Len(r) - 1 /\ Sampled(m) = epochs =>
            Total([n \in 1 .. Len(r) |-> wall(m, n - 1)]) = Last(m).t - first_t(m, 0)
       /\ \A e \in epochs :
            /\ merge_s(r[e + 1], m, e) \in 0 .. wall(m, e)
            /\ is_merge(r[e + 1], m, e) => wall(m, e) > Floor
=============================================================================
