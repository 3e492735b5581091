# A TLA+ model of lsm-vec-benchmark

The repository compares streaming vector indexes: an LSM-based graph index (lsm-vec over the Aster
graph store), SPFresh, and two variants of DiskANN.  Its own logic is of three kinds: the storage and
the graph build inside `src/patches/lsm-vec-sa-resident-sketch.patch`; the programs that prepare one
recorded workload and replay it against every system; and the pipeline that samples the runs and turns
raw files into tables, figures and reports.  This directory models the parts of that logic that keep
state or decide what a number means, checks them with TLC and proves the central properties with
TLAPS.

In this text `P:` is the lsm-vec patch, `S:` is `src/driver/spfresh_driver.cpp`, `G:` is
`src/driver/gen_workload.py` and `B:` is `src/bench.py`, each followed by a line.

## 1. Inventory

### 1.1 lsm-vec: storage and caches

**Paged vector storage** (P:279-706, `PagedVectorStorage`).
State: the file; for each id its page and slot; for each page its section; per section one write
buffer that is a zero-filled image of a whole page; a page cache (slot arena, page-to-slot index,
rotating hand).  Operations: store, delete, single and batch read, flush of the buffers, change of
the cache limit, reopening.
Hard: a record can be in the buffer, in the cache and in the file at once with different ages;
a buffer covers a whole page, so starting one over a page in use erases records; a batch may evict
pages it still needs; `encodeRec` may throw half-way.
Correct when: a read answers the record last stored, no operation moves another id's record, a
cached page equals the file, the cache tables are inverse, the hand evicts first-in first-out.

**Edge cache** (P:817-1131, `EdgeLRUCache`; test at P:4006).
State: an arena of slots, a doubly linked list, a free list, an open-addressing table with linear
probing and backward-shift deletion.  Operations: get, put, erase.
Hard: deletion from a probe run that wraps around the table; four structures change together.
Correct when: it is a least-recently-used map, every entry stays reachable, each slot is on exactly
one list.

**Visited set** of `searchLayer` (P:2000-2040).
State: a 16-bit epoch, a dense array that grows, a map for ids beyond it.
Hard: after 65535 searches the epoch wraps; the array grows in the middle of a search.
Correct when: every search starts with an empty set and loses nothing it marked.

**Sketch record store** (P:1278-1377, `SketchVecStore`).
State: chunks, id table, free stack, counters.  Operations: `setRecordSize`, `insert`, `erase`,
`find`, `findMutable`, `clear`.
Correct when: it is a map from ids to records, no slot is used twice, `size()` is exact.

**Coupled node store, graph links** (P:80-278, P:1853-2003): vectors staged in memory until the next
write of their node's record; linking, pruning and deleting rewrite edge lists and erase their cached
copies.  **SA resident sketch and SA-tree** (P:1204-1277, P:2254-2372, P:2831-3027), **bulk build**
(P:1378-1650), **Aster minimal mode** (`aster.patch`:99-969): fragments of, or calls into, code that
the repository does not contain (section 6).

### 1.2 lsm-vec: sharded graph build

**`BuildShardedKnnGraph`** (P:1150-1203, P:2404-2830; tests at P:4187).
State: shared cursor, per-thread buckets, shards, spill files, one reader per file, the CSR rows.
Stages: k-means, assignment by worker threads, gathering, splitting of oversized shards, one build
and one spill per shard, merge by id.
Hard: the schedule decides which thread places which point; splitting must end; the merge relies on
the order in every file; a short read looks like the end of a file.
Correct when: shards do not depend on the schedule, every point is in as many shards as it chose
centroids, a row is the R nearest of what the shards offered, and failures raise exceptions.

### 1.3 The workload and its replay

**Trace generator** (G; format in `trace_format.md`).
State: the live ids, the pool cursor, the files written so far.  Per epoch: a sample of live ids to
delete, fresh ids from the pool; at checkpoints the ground truth over the live ids, by blocks in
memory or by an external tool over a snapshot; the manifest last.
Hard: several input formats with headers; ties at a block's edge; the tool's positions must become
ids; a run killed in the middle leaves files that a second run overwrites.
Correct when: an id is inserted at most once and deleted at most once; a workload with a manifest is
whole, and its ground truth is that of the state a replay reaches.

**Byte copies** (`fbin_to_byte.py`) and the **preparation script** (`prep_100m.sh`): conversion in
chunks under a temporary name; guards on what is already there.
Correct when: a copy is its vector file, and a finished workload never changes.

**SPFresh driver** (S): replays the trace; maps ids to positions of the index and back; counts live
ids; waits for the background jobs; looks for deleted ids in results.  A concurrent mode mixes
writes and queries and does not wait.
Hard: adds and deletes that fail; positions that are never forgotten; polling loops.
Correct when: the two maps and the live flags agree, `live_n` is right, a surfaced deleted id is
always counted and never invented, recall is measured over the right ids, the trace is replayed.

**DiskANN merge driver** (`bench_stream_merge.cpp`), **DiskANN in-place driver**
(`bench_stream_diskann.cpp`), **streaming harness of lsm-vec** (P:3028, P:3914): the same replay
against other indexes; they sample their own memory and write the same kinds of raw files.

### 1.4 Samplers and run scripts

**Memory sampler** (`mem_sampler.py`): launches a command and appends time, tag and memory until it
ends.  **Page-cache sampler** (`cache_sampler.py`): walks a store until killed.  Both read the tag
from an *epoch file* that the driver truncates and rewrites.
**Run scripts** (`run_byte_step1.sh`, `run_spfresh.sh` and lists of such legs): skip what is measured,
clean, start the samplers, build, replay, join the two memory streams.
Hard: four processes share one file without locks; a campaign is killed and repeated.
Correct when: a sample's tag was announced, and not before its value was read; the joined stream
belongs to the rows beside it and is in order; the sampler and the leg end.

### 1.5 From raw files to figures

**bench.py, experiments.py, plot/** : `run` and `plot` aggregate the raw files of a cell into a table
per experiment and draw it in two formats; `clean` removes both.
**Analysis scripts** (`analyze_*.py`, `plot_param.py`, `plot_ablation.py`, `plot_adjratio.py`,
`plot_breakdown.py`, `plot_exp2_memory.py`, `refine_diskann_insert_latency.py`): read the raw files
themselves, each in its own way.
Hard: drivers write while figures are drawn; commands are killed between two files; null, zero and
missing values are treated differently; samples are placed on an axis of epochs.
Correct when: a figure drawn while nothing wrote shows exactly the raw files, curves go forward, and
scripts that report one quantity report one number, or numbers that differ for a known reason.

### 1.6 How the parts interact

The generator writes files; the drivers replay them: deletes of an epoch, inserts, then queries.
The drivers tell the samplers the epoch through the epoch file, and both write the raw files that
`bench.py` and the analyses read; nobody locks anything.  Inside lsm-vec the index calls the vector
storage, the edge cache and the visited set synchronously; the resident sketch keeps its records in the
record store; the sharded build runs once, before the stream.  Shared state between threads exists in
two places: the buckets and the cursor of the sharded build, and the index under the SPFresh driver,
whose background jobs run while the driver waits.

## 2. Modules

| Module | Part | Role |
|---|---|---|
| `VectorMap` | vector storage | abstract: a map from ids to records |
| `FifoPages` | page cache | abstract: a queue of resident pages |
| `VectorStore`, `VectorStoreProofs` | vector storage | detailed; implements both; proofs |
| `LruMap` | edge cache | abstract: keys in order of use |
| `EdgeCache`, `EdgeCacheProofs` | edge cache | detailed; implements `LruMap`; proofs |
| `FreshSet` | visited set | abstract: a set emptied by every search |
| `VisitedSet`, `MemoryProofs` | visited set | detailed; implements `FreshSet`; proofs |
| `RecordMap` | sketch store | abstract: a map from ids to records |
| `SketchStore`, `MemoryProofs` | sketch store | detailed; implements `RecordMap`; proofs |
| `ShardedBuild`, `ShardedBuildProofs` | sharded build | threads, stages, files, faults; proofs |
| `Workload` | trace | abstract generator: one action per epoch |
| `SpfreshDriver`, `SpfreshProofs` | SPFresh driver | extends `Workload`, replays its trace; proofs |
| `TraceFiles` | trace format | the files of a workload |
| `Groundtruth` | generator | nearest ids: reference, blocks, ranking |
| `Generator` | `gen_workload.py` | detailed generator over `TraceFiles`; implements `Workload` |
| `ByteCopies` | `fbin_to_byte.py` | extends `Generator` |
| `Preparation`, `PreparationProofs` | `prep_100m.sh` | composes generator and converter; kills, restarts; proofs |
| `MeteredRun` | build and driver | the command a sampler watches, and the epoch file |
| `MemSampler` | `mem_sampler.py` | extends `MeteredRun` |
| `CacheSampler` | `cache_sampler.py` | extends `MemSampler` |
| `SpfreshLeg`, `SpfreshLegProofs` | run scripts | composes command, samplers and script; kills, restarts; proofs |
| `Metrics` | scripts | columns, means, the two common readings of a memory stream |
| `RawFiles` | drivers | who writes which raw file, and when |
| `Tables` | `bench.py`, `datfile.py` | raw files to table, table to file and back |
| `Figures` | `plot/` | table to curves, bars and points |
| `Reports` | analysis scripts | what each computes of the raw files |
| `Results`, `ResultsProofs` | `bench.py` | composes drivers, commands, tables and figures; kills; proofs |
| `MC*` | | symmetry, tables of distances and record contents for TLC |

Definitions whose name extends another one (`AdvanceStuck` beside `Advance`) are faulty variants of
it.  No specification uses them; putting one in place of the original must break the property it was
written for, which shows that the property looks at that code.

### 2.1 VectorStore

`pageOf`/`slotOf` are `idToPage_`/`idToSlotInPage_`; `bufPage`/`bufData` one section buffer each;
`slotPage`, `slotData`, `index`, `hand`, `cap` are the fields of `FlatPageCache`.  One action per
operation: `Store`, `StoreThrows` (the encoding raises), `Delete`, `FlushWrites`,
`SetMaxCachedPages`, `Deserialize`, `ReadOne`.  A batch read is three actions (`BatchBegin`,
`BatchLoad` per missing page, `BatchDecode`) so that pages are loaded in any order; nothing else runs
between them, because the class is used by one thread.

The slot allocator, `deleteVector` and `flushWrites` are context lines the repository does not
contain.  They are modelled from their use: a section hands out its open slot, a fresh page, or a slot
freed before (`sectionFreeSlots_`, P:676).  `RecyclesSlotZero` says whether the last may be slot 0.
Page numbers are taken to stay in int32: the two refusals beyond it (`store` raises `overflow_error`,
P:618; `deserialize` answers false, P:690) are left out, because no property is about a file of 2^31 pages
or one that a store did not write.

Record contents are model values.  `encodeRec` is the table `RecordOf`; a page is a function from
slots to records, and the overlay of a buffer replaces the whole page, as the code's `memcpy` does.

### 2.2 EdgeCache, VisitedSet, SketchStore

`EdgeCache`: one action per call.  The hash of an id is an arbitrary function, chosen once, into
`Homes`; the model walks the table bucket by bucket, including the backward shift of `tableErase`.
Encoded lists are model values.

`VisitedSet`: `BeginSearch` advances the counter and clears both stores when it wraps;
`VisitedInsert` is the test-and-mark, with the growth of the dense array and the map beyond it.
`Epochs` stands for the 2^16 values of the counter and `DenseLimit` for the size where the map takes
over.  Its specification operators carry the name of the set (`InitVisited`, `NextVisited`,
`SpecVisited`), so that `MemoryProofs` can extend both this module and `SketchStore`.

`SketchStore`: one action per call.  New chunk bytes are `Garbage` until written.  The dense table
and the map fallback for large ids answer alike and are one function.

### 2.3 ShardedBuild

Workers claim chunks from the cursor and place points one by one, in every interleaving.  The k-means
is an arbitrary table of distances per point (`Rows`), where `Overflow` is a distance that is not below
`FLT_MAX`; ties are in the table.  The per-shard builder, outside the repository, returns any
ascending list of other members, full or not (`Full`).  2-means inside `splitShard` may send members to
either side (`Split`'s `side`).  `std::sort` may leave equal distances in any order (`Orders`).
Faults: a write that fails (noticed at close), a read that fails in a record's header (treated as the
end of the file) or elsewhere (an exception).

### 2.4 Workload and SpfreshDriver

`Generate` is one turn of the generator's epoch loop.  The driver's actions are `BeginEpoch`,
`SkipDelete`, `DeleteOne`, `InsertOne`, `InsertFails`, `EndWrites` (which waits for the jobs in normal
mode) and `Measure`.  `concurrent` is the mode, chosen at the start.  The index is external: an add
hands out a position not used before and may leave work to background jobs (`Job`); a delete removes the
position from the search; both may fail.  Deletes of an epoch are taken in any order, inserts in
ascending order, which is the order of the trace.

### 2.5 Generator, ByteCopies, Preparation

`disk` maps file names to contents, with `Absent` and `Torn` (its writer was killed).  Vectors are rows
of a table `Distance`; a row of the dataset is the id it has.  `stage` is the program counter across
the three programs: `Load` (formats, headers, the raw reader for large or low-memory `bvecs`, query
subsample), one `WriteTable` per vector file, then per epoch `DrawEpoch`, `WriteInserts`,
`WriteDeletes`; at a checkpoint either `KeepBest` block by block and `WriteTruth`, or
`WriteSnapshot`, `ComputeTruth` (the external tool, which answers positions), `RemapTruth`,
`RemoveSnapshot`; `WriteManifest` last.  Draws are seeded: `drawn` and `asked` remember what the first run
drew and a second run draws the same.  `np.argpartition` may keep any of rows at equal distance
(`Nearest` is a set of sets).  Counts come from the ratio in tenths (`Tenths`).

`OpenCopy`, `ConvertChunk`, `ConvertStops` (a value that a byte cannot hold) and `FinishCopy` are the
converter; `Start`, `QueriesDiffer`, `StartCopies` the guards of the script.  `Kill` may come at any
moment and may leave the file being written torn (`Open`); `StartAgain` runs the script again.

### 2.6 MeteredRun, MemSampler, CacheSampler, SpfreshLeg

`MeteredRun` is the build, then the driver: `Truncate` and `Announce` are the two halves of `setEpoch`
(S:200), placed after the writes in normal mode and before them in concurrent mode.  A command that
ended is a *zombie* until the sampler's `poll` reaps it.  The sampler's loop is cut where other
processes may run: `ReadRss`, `Poll`, `WriteSample` (which reads the tag), `Wake`.  Each sample also
carries what was announced (`from`) and begun (`begun`) when its memory was read; these are history, not
part of the program.  `SpfreshLeg` is the script: `SkipLeg`, `StartLeg`, `ResetEpoch`, `Launch`, `Collected`,
`Merge`, `EndLeg`, with `Kill` and `StartAgain` around it.

### 2.7 Metrics, RawFiles, Tables, Figures, Reports, Results

`RawFiles` lets the drivers of a cell open, append, finish, die and start over in any order.  The
page-cache sampler is another process: its clock may be up to `Skew` intervals before or behind that of
the memory sampler.  `older` is history: whether the rows are those of an earlier run than the memory.
`Tables` and `Figures` are functions: rows in, table out; file out and in (`write_dat`, `read_dat` with
`nan` cells); points, bars and Pareto points drawn.  `Results` is the command: experiments one after
the other, `ReadSystem`/`ReadBuild`/`ReadPeak` one file at a time, `OpenDat` and `WriteDat` apart
because opening empties the table, one action per figure format, `End` at any point (the command is
killed, or done).  `Reports` holds what ten scripts compute of the same files; the script's own
treatment of null, zero, empty and missing is kept operator by operator.

Numbers are whole: sizes are multiples of `Grain`, which every product of a number of samples and a
number of epochs divides, so that a mean over epochs of means over samples leaves no rest.  `Kept`,
`Keep` and `Total` (the list comprehension with a condition, and the sum) are recursive functions, which
can be proved about.  An epoch may have no queries or no inserts; its latencies or its rate are then 0, as
the drivers write them.  `epoch_frac` is rounded to `Unit` places of an epoch as `bench.py` rounds it
(B:138: five decimals, `Unit` = 100000).  Where `refine_diskann_insert_latency.py` divides by a tiny number
in place of a zero rate, the quotient exceeds any epoch and the merge is 0 (`merge_s`).

## 3. What TLC checks

| Run | Question | Result | Distinct states |
|---|---|---|---|
| `VectorStore` | Does every read return the record last stored, through buffers, cache, file and failed encodings? | holds | 1.2 M |
| `VectorStoreEviction` | Is the flat cache a FIFO cache with inverse tables, under every resize? | holds | 5.8 k |
| `EdgeCache` | Is the cache an LRU map, with colliding and wrapping homes? | holds | 35 k |
| `VisitedSet` | Does every search start from an empty set, across wraps? | holds | 20 k |
| `SketchStore` | Is the chunked store a map from ids to records? | holds | 2.4 k |
| `ShardedBuild` | Do the shards cover every assignment under every schedule, are rows the R nearest of the union, does the merge give up only for cause? | holds | 221 k |
| `ShardedBuildLoss` | Does every read failure raise an exception? | violated | |
| `SpfreshDriver` | Do maps, counts, leak check and replay agree, with failing calls, in both modes? | holds | 1.1 M |
| `Preparation` | Is a workload with a manifest whole, true and unchanging, however often the script is killed, and does the generator implement `Workload`? | holds | 776 k |
| `SpfreshLeg` | Are samples tagged honestly, is the joined stream that of its rows and in order, and does the leg end? | holds | 2.9 M |
| `SpfreshLegTags` | Does the tag -1 mean "pre-stream / build", where epochs are announced before they begin? | violated | |
| `Results` | Do figures show the raw files, do curves go forward, are runs not mixed and do the scripts agree? | holds | 1.8 M |

The properties beside the types, by the hazard they are about:

- *Refinement*: `ImplementsVectorMap`, `ImplementsFifoPages`, `ImplementsLruMap`,
  `ImplementsFreshSet`, `ImplementsRecordMap`, and `DrawsWorkload` (the detailed generator, with its
  kills and restarts, draws what `Workload` draws).
- *Schedules*: `AssignmentSound`, `ShardsCover`, `TagsHonest`, `SeenToTheEnd`, `CurvesForward`.
- *Kills and repeats*: `TruthReplayable`, `CopiesSound`, `WorkloadStable`, `MergedSound`,
  `FiguresCurrent`, `OneRun`.
- *Failing calls*: `StoredReadable`, `OthersUntouched`, `MapsAgree`, `LeaksDetected`, `LeaksReal`,
  `LiveCounted`, `GivesUpOnlyUncovered`.
- *Limits and arithmetic*: `CacheIndexExact`, `TableSound`, `ArenaPartitioned`, `NoFutureEpoch`,
  `SlotsAccounted`, `SplitBounded`, `RowsExact`, `IdsOnce`, `MeasuresActive`,
  `ReportsAgree`, `FootprintFiled`, `MergesTile`.
- *Liveness*: `Replayed`, `Ends`, `LegEnds`.

What three properties of `Results` say, since their names say less:

- `ReportsAgree`: one peak, one end recall, one tail latency.  Of the mean rate of the inserts the scripts
  have two: `bench.py` (B:173), `plot_param.py` (:30, :93) and `analyze_e4.py` (:40) average the epochs
  with inserts, `analyze_byte_step1.py` (:77), `analyze_footprint.py` (:25) and `analyze_phase_c.py` (:21)
  all epochs.  The property says that the scripts of each group agree and that the second mean is the first
  times the share of the epochs with inserts (`Diluted`): equal when every epoch has inserts, smaller
  otherwise.  The tail latency of `analyze_e4.py` (:27, epochs with queries) stands to that of the others
  in the same way.  Section 5 lists this as a disagreement.
- `OneRun`: while a build is repeated, or after one that was killed, the rows of a cell are those of an
  earlier run than its memory.  The memory then has samples of a build only, so peaks and memory curves
  never mix two runs.  `build_time_s` does: it is of the later run.
- `MergesTile`: the time `refine_diskann_insert_latency.py` gives an epoch ends where the next sampled one
  starts, unless the epoch after it has no sample: then it reaches to the end of the file (:51) and the
  times of all later epochs are counted twice.  Where every epoch has a sample, the times tile the stream.

### 3.1 Bounds

- `VectorStore`: 3 ids (one whose encoding throws), 2 sections, 2 pages of 2 slots, a one-page cache.
  Two pages and one cache slot give evictions between any two reads; two slots give direct writes in
  the middle of a page; two sections give two open buffers.  Ids, sections and pages are symmetric.
- `VectorStoreEviction`: 3 pages of one slot and capacities 0, 1 and 2: the hand wraps and the oldest
  page differs from the newest; the cache is resized, disabled and enabled.
- `EdgeCache`: capacity 3, a table of 8 buckets, 4 ids with homes 0, 6 and 7: probe runs collide and
  wrap around the end, and the fourth id evicts.
- `VisitedSet`: 5 epochs, 3 dense ids and 2 beyond: several wraps and every growth.
- `SketchStore`: 4 ids, chunks of 2 slots, 2 record sizes: chunks are added and slots reused.
- `ShardedBuild`: 5 points, 3 centroids, overlap 2, R = 2, 2 threads with chunks of 2, so both threads
  claim chunks and the last is short; rows with ties for the second place, one centroid in reach, and
  none; a split limit that skewed shards pass, and an edge limit some shards pass; R is smaller than
  what the shards offer; writes fail, and reads fail inside a record.
- `SpfreshDriver`: 3 base ids and a pool of 4 over 3 epochs of at most 2 inserts and 1 delete, so the
  pool ends in the middle of the last epochs, deletes reach inserted ids, and the id table must grow
  (`Slack` 0, `Growth` 1).  One query with one result per epoch is enough to surface a leak.
- `Preparation`: 3 base rows and a pool of 3 over 3 epochs with checkpoints at 0 and 2, so the last
  epoch's inserts run out; `GtK` 4 above the number of live ids at times, blocks of 2, rows at equal
  distance; 5 datasets (formats with and without a header that lies, too small ones, both ways to the
  ground truth, values that do not fit a byte); 1 of 2 queries kept; 3 starts of the script.
- `SpfreshLeg`: 2 epochs, both modes, 2 attempts, 2 ticks of the clock, 1 sample of the build and 2 of
  the stream while they run (and one more when they end), 1 walk of the page cache.
- `Results`: 2 systems, 3 epochs, 6 raw records in all, sizes 144 and 288 with `Grain` 72, epochs with a
  recall, queries and inserts, with queries only and with inserts only, 4 experiments (one of each kind of
  table and plot), 1 page-cache sample per system on a clock that differs by up to 1 interval.  72 is
  divided by every product of at most 4 samples and 3 epochs.  7 places per epoch, so that positions of
  halves and thirds are rounded both ways.  Six records are enough for an epoch that exceeds its queries and inserts by
  a merge, for an unsampled epoch between two sampled ones, and for a build repeated over older rows.

Bounds that are not in the code: `VidGap` (positions the index may skip), `JobsPerAdd`, `TopK`,
`MaxStarts`, `MaxAttempts`, `MaxTime`, `BuildSamples`, `RunSamples`, `MaxWalks`, `Records`,
`MaxCached`, `Skew`, and `Grain`, which replaces fractions.  The other constants are parameters of the programs, made small.

### 3.2 Fairness

- `SpfreshDriver`: weak fairness of the generator, of the driver and of the background jobs.  The
  first two are loops that wait for nothing but the jobs, and the driver sleeps between polls of
  `AllFinished`, so the threads of the index run.  A single add causes a bounded amount of background
  work; that bound belongs to the index.
- `Preparation`: weak fairness of `Run`, the script and what it calls: sequential programs that never
  wait.  Nothing makes anybody start the script again.
- `SpfreshLeg`: weak fairness of the script, the measured command, the memory sampler and the clock:
  four processes the operating system schedules, none of which holds a lock.  Neither a kill, nor a
  second attempt, nor the page-cache sampler is assumed to run.

Every other run checks safety only.  `CHECK_DEADLOCK` is on everywhere: the stores can always take
another call, and the other systems have an explicit last step (`Ended`).

## 4. What is proved

All theorems hold for every value of the constants, under the named `ASSUME`s of the modules.

**VectorStoreProofs.**  `TypeCorrect`; `IndexExact` (the cache tables are inverse); `Coherent` (a cached
page equals the file), for a store whose limit is never switched between 0 and another value;
`ReadYourWrites` and `NobodyClobbered`, for an allocator that does not recycle slot 0; `Refinement`:
under both conditions the store implements `VectorMap`; `EvictsOldest` (`ImplementsFifoPages`).
The invariant: types; the slots of stored ids are distinct and handed out (`SlotsApart`); tables
inverse; a page that is buffered belongs to the section that buffers it; cached pages equal the file
where no buffer covers them; a running batch's answers so far are still what the map holds
(`BatchSound`).  Coherence needs `SlotsApart` and the inverse tables because a write updates the cache
through the index and must hit one slot of one page; `BatchSound` is needed since a batch answers in
several steps.
`EvictsOldest` needs one more invariant, `FilledInOrder`: since the last reset the hand has filled the
arena from slot 0 upwards, so either the pages are in the slots below the hand or all slots are
taken; the queue is the slots read from the hand onwards, and the step shows that filling a slot
appends to that queue and taking one over drops its head.

**EdgeCacheProofs.**  `TableAlwaysSound` (`TableSound`), `ArenaAlwaysPartitioned`
(`ArenaPartitioned`) and `Refinement` (`ImplementsLruMap`), for any hash, capacity, ids and lists and any
table of at least twice the capacity, as the constructor makes it.
The invariant: types; `Probeable` (every entry of the table is an id's own slot, and no bucket on the way
from its home to it is empty); and the arena as two sequences without repeats and without a common slot,
whose union is the arena: `used`, along which `next` and `prev` are inverse, and `free`, along which `next`
leads to the end.  `Probeable` must say *on the way*, bucket by bucket, because the backward-shift
deletion moves entries one at a time: the proof is an induction over its rounds, in which exactly one
hole is left and no run crosses it except those of entries still to be looked at.  The refinement reads
the used list from its head as the order of use.

**ShardedBuildProofs.**  For any points, rows of distances, number of threads, chunk size, overlap,
limits and schedule: `WorkersApart` (`AssignmentSound`), `ShardsAlwaysCover` (`ShardsCover`) and
`SplitsBounded` (`SplitBounded`), whatever fails; `MergeCovers` (`GivesUpOnlyUncovered`) and
`RowsAlwaysExact` (`RowsExact`), if no header of a record is lost (`"header" \notin Faults`).
The invariant follows the stages: `AssignInv` (thread ids are handed out once), `PlaceInv` (a point waits
in one place or is in one bucket of each centroid it chose), `ShardInv` (every shard comes from one
centroid, shards of one centroid share no point, and together they hold the points that chose it),
`FileInv` (the files ascend and hold the points of the shards built so far), `ReadersInv` and `CsrInv` for the
merge.  `SplitBounded` follows by charging each shard beyond the K first to the assignment of its
first member.  The merge needs `MergeInv`: every reader has passed exactly the records below the next id,
and the rows so far are the nearest of what the shards offered.  It is not an invariant when a header
can be lost: a reader then ends although records are left, which is what `ShardedBuildLoss` shows.
`FaultsOfHeadersOnly` says that this is the only fault of that kind: the property that run refutes holds
for every other one.

**SpfreshProofs.**  `TypeCorrect`, `TraceUnambiguous` (`IdsOnce`), `MapsCorrect` (`MapsAgree`),
`NoHiddenLeak` (`LeaksDetected`), `ReportExact` (`LiveCounted`), `NoFalseAlarm` (the action property
`LeaksReal`) and `RecallExact` (`MeasuresActive`), in both modes and whatever fails.
The invariant has five parts: types; `StageInv` (what is left of an epoch is part of that epoch's
record); `TraceInv` (live ids were never deleted before, inserts are pool ids below the cursor, hence
`IdsOnce`); `MapInv` (`MapsAgree`, `LeaksDetected`, and `NamesPast`: no position names an id that the
trace still has to insert); `CountInv` (the counters, also in the middle of an epoch).  `NamesPast` is
the heart: an insert cannot bring back a dead id whose old position is still searchable, because
every insert is of an id that no position was ever named after.
`RecallExact` adds two invariants: `ActiveInv`, on the trace (an active set is the base and all inserts
up to there, without all deletes), and `ReplayInv`, on the driver (the live ids are the ids ever named,
without the deletes done so far).  At the end of an epoch the deletes done are those of the trace, so
the two sets differ only by ids that were never named.  `IdsOnce` is needed on both sides: an id
inserted now must not be among those deleted before.

**MemoryProofs.**  Of the sketch store `TypeCorrect`, `SlotsNeverShared` (`SlotsAccounted`), `SizeCorrect`
(`SizeExact`) and `Refinement` (`RecordMap`), for any ids and chunk size.  The invariant says slot by
slot what `SlotsAccounted` says of sets: stored ids and free-list entries have distinct slots below
`next`, none is lost, and `next` fits the chunks.  `SizeExact` is part of it because the counter is
unsigned: an erase must find it above zero.
Of the visited set `VisitedTyped`, `PastOnly` (no entry is ahead of the counter) and `VisitedRefinement`
(`FreshSet`).  `PastOnly` makes a new search's set empty: an entry counts only if it equals the new
counter, and the wrap clears everything.

**SpfreshLegProofs.**  `TagsKept` (`TagsHonest`), `MergeSound` (`MergedSound`) and `SeenWhole`
(`SeenToTheEnd`), for any number of epochs, samples, walks, ticks and attempts, in both modes, whatever
fails or is killed.
The invariant: types; `Control` (a command and its sampler exist only in the two steps of the script
that launch one, and before the driver nothing is announced); `TagInv` (while something is measured the
epoch file is empty or holds the last number announced, and no value in flight is newer than that
number); `RowsInv` (the rows are those of the epochs replayed so far, and a joined stream stands only
beside all of them); `OrderInv` (times and tags of each stream ascend, no sample is later than now, and
the samples of the build are untagged).  `TagInv` is why a file left by a killed attempt does no harm:
the file is removed and rewritten before anything is measured.  `RowsInv` is why a leg that is
measured again never leaves a joined stream of another attempt: it is only measured again while rows are
missing, and then there is no joined stream yet.  The join is in order by a lemma about two ordered
streams of which the first is untagged and the second is shifted by the last time of the first.
`SeenWhole` adds `EndInv`, on the loop of the sampler: while it is between two samples every sample so far has
a size, and once it has seen the command end, the sample it then takes is the last and not earlier than
that end.

**PreparationProofs.**  `CopiesCorrect` (`CopiesSound`), `WorkloadKept` (`WorkloadStable`),
`DrawsSame` (`DrawsWorkload`) and `TruthCorrect` (`TruthReplayable`), for any dataset, ratio, number of
epochs, distances, block and chunk sizes, and however often the script is started and killed.
The invariant: types; `ManifestInv` (no manifest while the generator is at work, and always one while
copies are made), from which `WorkloadKept` follows; `CopyInv` (a temporary copy is a beginning of the
vector file, and copies appear in the order base, pool, query); `EpochsInv` (every epoch recorded
inserts the ids right after those inserted before it and deletes only ids below the pool's
position); `MemoryInv` (a run that draws has in memory what the epochs it has been through leave).
The last two are what makes a run that draws again after a kill end up where the first one was: by
`SamePosition` the pool's position is determined by the ids inserted so far.

`TruthCorrect` adds `FilesInv` (the files of the epochs recorded so far say what was drawn for them, and
each truth file names the neighbours among the ids live after its epoch) and `WorkInv` (what the epoch
under way has written, and that `best` is the nearest of the rows of the blocks seen so far).  Blocks
compose by `BlocksCompose`: the k nearest of the k nearest of A together with C are k nearest of A and C,
also when rows at the block's edge are equally far.  `BestByRank` shows that ranks by distance, then id,
put the kept rows in order, and `IdsByPosition` that the tool's positions name each live id once.
`ReplayIsLive` is the replay: what a driver computes from the files is what the generator had in memory,
because an epoch inserts no id that was deleted before it.  A kill tears the file being written, but
`FilesInv` counts an epoch only while the run that wrote it is at work, or once there is a manifest; a run
that starts anew writes all files again.  Two assumptions are on the data: distances are numbers
(`DistanceAssumption`), and a list of neighbours is not one of the marks for a missing or torn file
(`ListsAssumption`).

**ResultsProofs.**  `FilesSound` (`RawInv`, about the files), `EpochTimesBounded` (`MergesTile`),
`RunsApart` (`OneRun`), `FootprintsAgree` (`FootprintFiled`), `ScriptsAgree` (`ReportsAgree`), `FiguresForward`
(`CurvesForward`) and `FiguresStayCurrent` (`FiguresCurrent`), for any systems, experiments, commands and
measures, any number of epochs and records, and any schedule of drivers, commands and kills.
`RawInv` says what the drivers can have written, system by system: the epochs of the rows are 0, 1, 2 ...
without a gap; memory samples ascend in time and in epoch and never run ahead of the tag;
a page-cache sample's time is within `Skew` of the memory samples around it; sizes are multiples of the grain; and what is there
was counted, which bounds it by `Records`.  Three properties of the raw files follow from it; `OneRun`
needs `OlderInv` as well: rows can be older than the memory only while the later run has not come to its stream,
when nothing but its build has been sampled.
`ScriptsAgree` is about scripts that group, filter and average in different orders: they agree because the
samples of an epoch are consecutive (`ByEpoch`), because each script's treatment of a missing
value meets no missing one where the other would meet it, and because the means divide without rest.
`MeansDiluted` is the lemma about leaving out zeros: the sum stays, the number of summands does not.
`FootprintsAgree` bounds where `bisect_left` puts a page-cache sample by the difference of the clocks.
`EpochTimesBounded` goes by induction over the epochs.
`WorkInv` is about the command in progress: the table read so far lists systems in the order of the
registry; while no raw file has changed since the experiment was begun (`stable`) it says what the
files say of the systems before `at`, and the files it has still to read are there as it will find them;
then the `dat` file is that table, and the second format of the figure is drawn after the first.  It is
needed because a table is read file by file and written in two steps, between which a driver may write
and the command be killed.
`CurvesForward` is inductive with it: `PictureForward` says that whatever `read_dat` finds, also an empty or
an older table, the figure drawn of it goes forward (`PlotSeries`: the samples of an epoch lie on the axis
inside that epoch's unit; `NearestGrows`: rounding keeps two of them apart).  `FiguresCurrent` is inductive with `WorkInv` too: `FreshChanges` shows that an
experiment becomes current only by drawing its last format from a stable table, and `PictureShown`, with one lemma
for each kind of table and plot, that the figure drawn then shows each value that is not null.
The assumptions: a file is not the mark of a missing one (`AbsentAssumption`); the latencies, rates
and size of a row are never null, and an epoch whose mean latency is 0 is one whose tail latency is
(`MeasuresAssumption`); numbers are whole (`GrainAssumption`, see 2.7); the registry names each system once
(`OrderAssumption`); a name is neither null nor `nan` (`NamesAssumption`); the experiments and commands are
of the kinds the program knows (`RegisteredAssumption`, `GivenAssumption`); and the axis has a place for
every sample of an epoch (`UnitAssumption`: the code's axis has five decimals, 100000 places).

Several of these proofs use induction over numbers (the rounds of a deletion, the steps of a list, the
epochs of a replay).  The library's induction rule takes a predicate, which the provers cannot
instantiate; the modules prove it for sets instead (`LeastNatural`, `Induction`, from the
well-foundedness of the naturals).  Recursion is over functions.

Model-checked only: the liveness properties `Replayed`, `Ends` and `LegEnds` (temporal reasoning under
fairness is out of the prover's reach).  Every other property of a passing run is stated by a theorem.
Of the sketch store's counter (`SizeExact`) there is only the proof.

## 5. Where code and documentation differ

Shown by a run:

1. `ShardedBuildLoss`: a read failure in a record's header (P:2607) ends its file quietly, although the
   header promises `std::runtime_error` on I/O failure (P:1197).  With overlap the merge may then end
   well without the lost records.
2. `SpfreshLegTags`: `driver/mem_sampler.py`:10 says `-1 means "pre-stream / build"`.  `setEpoch`
   truncates the epoch file before it writes it (S:202), and a sampler that reads in between falls back to
   -1, whatever epoch is under way.  The property is stated of the concurrent mode, which announces an
   epoch before it begins it (S:339), so that nothing but this race can violate it.  In normal mode the
   order alone does: an epoch is announced when its writes are over (S:438), so every sample of the writes of
   epoch 0 carries -1.  `bench.py` takes the build time and the stream's peak by that tag.

Seen while modelling, without a run:

3. `updateCacheAfterWrite` (P:559) skips cached pages while the limit is 0, but a limit of 0 does not
   empty the cache; raised again, it would serve old bytes.  No caller in the repository lowers the limit.
   The theorem `Coherent` names the condition.
4. A buffer "may only be started at slot 0 of a fresh page" (P:417); the guard (P:420) checks the
   slot, not that the page is fresh.  This matters only if the allocator recycles slot 0, which is
   outside the repository; `RecyclesSlotZero` is the condition of the theorems.
5. `trace_format.md`:82 says the harness asserts the active-set size every epoch; nothing does, and
   an insert that fails (S:420) makes the reported size differ.
6. B:6 says that `plot` re-renders from existing tables; it aggregates again like `run`, and an
   experiment without raw files is skipped even when its table is there.
7. G:262 says that the chosen queries are recorded in the manifest; the manifest has no such key.
8. The scripts report two different insert rates under one name, and `analyze_e4.py` another tail latency
   than the rest, when epochs have no inserts or no queries (`ReportsAgree` in section 3 names the lines).
   No document says which is meant, so this is stated as a law rather than as a violation.
9. In a cell whose build was repeated and killed, a summary row has the build time of the later run beside
   the rates and the recall of the earlier one (B:85, B:173).
10. `refine_diskann_insert_latency.py`:51 counts time twice around an epoch without samples.
11. `analyze_byte_step1.py`:8 says that the page-cache sampler and the run start together; they are two
   processes, and a sample may be filed with a neighbour of the memory sample it was taken beside
   (`FootprintFiled` bounds how far).
12. `sys_sampler.py`:9 promises page-cache residency of each file; what it takes from
   `cached_bytes` (:100) is the first element of the pair.

## 6. Not modelled, and why

- *Code outside the repository.*  The coupled node store, the graph links with their invalidation of
  the edge cache, the bulk build, the routing of the resident sketch, Aster's minimal mode: the patches
  hold fragments of functions whose other lines, and whose storage, are in libraries that are not here.
  Two hazards in them are listed without a property (a staged vector lost in a crash; a cached list that
  is not erased).
- *The DiskANN drivers* as replays: every step calls an index library that is not here, and their
  replay loop is that of the SPFresh driver.  As writers of raw files they are in `RawFiles`.  One hazard
  without a property: the set of deleted ids is cleared after a merge, also of a delete the merge did not
  carry out.
- *The streaming harness*: the replay loop of the SPFresh driver with other calls; its files are in
  `RawFiles`, the rest is measurement.
- *Numeric code*: k-means, RNN-descent, distances, quantisation; arbitrary tables stand for them.
- *`serialize` and the deleted flags of the vector storage*: I/O around code outside the repository.
- *Measurement and wording*: latency percentiles, cache protocol, ef sweep and report layout of the
  drivers; colours, labels and layout of the plots; `bench.py list`.
- *`sys_sampler.py`, `lsm_inspect`, the one-off figures, the build patches*: counters copied to a
  file, a printer of statistics, drawings of constants, build files.
