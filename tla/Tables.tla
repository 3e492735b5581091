-------------------------------- MODULE Tables --------------------------------
(***************************************************************************)
(* From raw files to tables: what bench.py aggregates for each kind of     *)
(* experiment, and the file a table is written to and read from.           *)
(***************************************************************************)
EXTENDS Metrics

CONSTANTS
  nan,    \* the cell of a value that is missing
  Unit    \* the places of an epoch on the axis of the memory curves: 100000, a decimal has five

\* The families of figures: where the rows come from and how they are drawn.
Family(source, plot, x, y, below) == [source |-> source, plot |-> plot, x |-> x, y |-> y, below |-> below]
Names == {"recall_epoch", "latency_epoch", "insert_tput_epoch", "mem_time",
          "recall_latency_pareto", "build_time", "insert_tput"}
FAMILIES ==
  [x \in Names |->
     CASE x = "recall_epoch"          -> Family("epoch", "series", "epoch", "recall10", "")
       [] x = "latency_epoch"         -> Family("epoch", "dual", "epoch", "lat_p99_ms", "lat_p50_ms")
       [] x = "insert_tput_epoch"     -> Family("epoch", "series", "epoch", "ins_ops_s", "")
       [] x = "mem_time"              -> Family("mem", "series", "epoch_frac", "rss_mb", "")
       [] x = "recall_latency_pareto" -> Family("epoch", "pareto", "lat_mean_ms", "recall10", "")
       [] x = "build_time"            -> Family("summary", "bar", "system", "build_time_s", "")
       [] x = "insert_tput"           -> Family("summary", "bar", "system", "mean_ins_ops_s", "")]

EPOCH_COLS == <<"epoch", "system", "recall10", "lat_mean_ms", "lat_p50_ms", "lat_p99_ms", "ins_ops_s">>
MEM_COLS == <<"epoch_frac", "system", "rss_mb", "t_sec", "epoch">>
SUMMARY_COLS == <<"system", "build_time_s", "mean_ins_ops_s", "peak_rss_mb", "end_recall10">>
Columns(source) ==
  IF source = "mem" THEN MEM_COLS ELSE IF source = "summary" THEN SUMMARY_COLS ELSE EPOCH_COLS

aggregate_epoch(s, epochs) ==
  [i \in DOMAIN epochs |->
     [c \in ToSet(EPOCH_COLS) |-> IF c = "system" THEN s ELSE epochs[i][c]]]

PlaceNone(samples, i) == 0
\* A sample lies as far into its epoch as its place among the samples of that epoch,
\* rounded to the places of the axis (a tie up; which way it goes matters to no property).
Nearest(a, n) == (2 * a + n) \div (2 * n)
Place(samples, i) ==
  LET same(n) == {j \in 1 .. n : samples[j].epoch = samples[i].epoch}
  IN Nearest(Unit * Cardinality(same(i - 1)), Cardinality(same(Len(samples))))
epoch_frac(samples, i) == samples[i].epoch * Unit + Place(samples, i)

aggregate_mem(s, samples) ==
  [i \in DOMAIN samples |->
     [epoch_frac |-> epoch_frac(samples, i), system |-> s, rss_mb |-> samples[i].rss,
      t_sec |-> samples[i].t, epoch |-> samples[i].epoch]]

\* The scalars of a system that its rows give: rows without inserts do not count.
end_recall10(epochs) == LastOf(Column(epochs, "recall10"))
mean_ins_ops_s(epochs) == mean(Positive(Column(epochs, "ins_ops_s")))

\* The file of a table: its column names and lines of cells.
cell(v) == IF v = None THEN nan ELSE v
write_dat(columns, table) ==
  [columns |-> columns,
   lines |-> [i \in DOMAIN table |-> [j \in DOMAIN columns |-> cell(table[i][columns[j]])]]]
Empty == [columns |-> <<>>, lines |-> <<>>]

\* Lines with more or fewer cells than there are columns are passed over.
whole(file) == Keep(file.lines, LAMBDA line : Len(line) = Len(file.columns))
cellOf(file, line, c) == line[CHOOSE j \in DOMAIN line : file.columns[j] = c]
read_dat(file) ==
  [i \in DOMAIN whole(file) |-> [c \in ToSet(file.columns) |-> cellOf(file, whole(file)[i], c)]]

fnan(v) == IF v = nan THEN None ELSE v
rows_by_system(table) ==
  [s \in {table[i].system : i \in DOMAIN table} |-> Keep(table, LAMBDA r : r.system = s)]
=============================================================================
