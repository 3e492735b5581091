------------------------------ MODULE Preparation ------------------------------
(***************************************************************************)
(* The preparation script: generates a workload unless its manifest is     *)
(* there, then makes the byte copies unless the last of them is there.     *)
(* The script may be killed at any moment, the file being written is then  *)
(* torn; it is started again until it is content with what it finds.       *)
(***************************************************************************)
EXTENDS ByteCopies

CONSTANT MaxStarts  \* bound: how often the script is started

ASSUME StartsAssumption == MaxStarts \in Nat \ {0}

VARIABLE starts

vars == <<source, disk, stage, genMemory, genDrawn, starts>>

\* A generated workload is not generated again.
StartsAlways == "load"
Starts == IF Exists(Manifest) THEN "copy" ELSE "load"

Start ==
  /\ stage = "prep"
  /\ stage' = Starts
  /\ UNCHANGED <<source, disk, genMemory, genDrawn, starts>>

CopiesMade == Exists(ByteCopy(3))

\* The queries must be those of the smaller workload, a file this script does not make.
QueriesDiffer == stage = "copy" /\ Fail /\ UNCHANGED starts

StartCopies ==
  /\ stage = "copy"
  /\ IF CopiesMade
     THEN stage' = "done" /\ UNCHANGED next
     ELSE stage' = "open" /\ next' = 1
  /\ UNCHANGED <<source, disk, live, poolCursor, epoch, best, genDrawn, starts>>

\* The files being written: what a kill may tear.  A temporary copy is a prefix at any time.
Writes(file) ==
  \/ stage = "tables" /\ file = Tables[next]
  \/ stage = "inserts" /\ file = Inserts(epoch)
  \/ stage = "deletes" /\ file = Deletes(epoch)
  \/ stage = "blocks" /\ next >= Cardinality(live) /\ file = Truth(epoch)
  \/ stage = "snapshot" /\ file = Snapshot(epoch)
  \/ stage \in {"compute", "remap"} /\ file = Truth(epoch)
  \/ stage = "manifest" /\ file = Manifest
Open == {file \in Files : Writes(file)}

Stopped == stage \in {"done", "failed"}

\* What the process held is gone.
Forget ==
  live' = {} /\ poolCursor' = 0 /\ epoch' = 0 /\ next' = 0 /\ best' = <<>>

Kill ==
  /\ ~Stopped /\ starts < MaxStarts
  /\ disk' \in {disk} \cup {Written(file, Torn) : file \in Open}
  /\ stage' = "failed" /\ Forget
  /\ UNCHANGED <<source, genDrawn, starts>>

StartAgain ==
  /\ Stopped /\ starts < MaxStarts
  /\ starts' = starts + 1
  /\ stage' = "prep" /\ Forget
  /\ UNCHANGED <<source, disk, genDrawn>>

Ended == Stopped /\ starts = MaxStarts /\ UNCHANGED vars

Init ==
  /\ source \in Sources
  /\ disk = [file \in Files |-> Absent]
  /\ stage = "prep" /\ starts = 1
  /\ live = {} /\ poolCursor = 0 /\ epoch = 0 /\ next = 0 /\ best = <<>>
  /\ asked = {} /\ drawn = <<>>

Run == Start \/ QueriesDiffer \/ StartCopies \/ ((Generate \/ Convert) /\ UNCHANGED starts)

Next == Run \/ Kill \/ StartAgain \/ Ended

Spec == Init /\ [][Next]_vars

\* A started process gets to run.  Nobody need start the script again.
FairSpec == Spec /\ WF_vars(Run)
-----------------------------------------------------------------------------
\* The ids in the index after n epochs, replayed from the files as every driver replays them.
ReplayedTo[n \in 0 .. NEpochs] ==
  IF n = 0 THEN Range(disk[Ids(1)])
  ELSE (ReplayedTo[n - 1] \ disk[Deletes(n - 1)]) \cup disk[Inserts(n - 1)]

TypeOK ==
  /\ source \in Sources /\ starts \in 1 .. MaxStarts
  /\ DOMAIN disk = Files
  /\ stage \in {"prep", "load", "tables", "draw", "inserts", "deletes", "blocks", "snapshot",
                "compute", "remap", "cleanup", "manifest", "copy", "open", "convert", "done",
                "failed"}
  /\ live \subseteq Gids /\ poolCursor \in 0 .. PoolN /\ epoch \in Epochs /\ next \in Nat
  /\ asked \subseteq QueryRows(source) /\ Len(drawn) <= NEpochs

\* A workload with a manifest can be measured on: after the writes of a checkpoint have been
\* replayed from its files, the neighbours in its truth file are the nearest ids then live, each
\* once and the closest first, for every query of the query file, however often the generator was
\* killed and started again.
TruthReplayable ==
  Exists(Manifest) =>
    \A k \in {j \in Epochs : IsCheckpoint(j)} :
      /\ Whole(Truth(k))
      /\ DOMAIN disk[Truth(k)] = Range(disk[Vectors(3)])
      /\ \A q \in DOMAIN disk[Truth(k)] : IsTruth(q, ReplayedTo[k + 1], disk[Truth(k)][q])

\* A byte copy is the vector file it was made of, and the copy of the queries is only there with
\* the two others: the script takes it for all three.
CopiesExact ==
  /\ \A i \in 1 .. 3 : Exists(ByteCopy(i)) => disk[ByteCopy(i)] = disk[Vectors(i)]
  /\ Exists(ByteCopy(3)) => Exists(ByteCopy(1)) /\ Exists(ByteCopy(2))

\* The files are what their names say and the copies exact, whatever was killed (both of the above).
CopiesSound == TypeOK /\ CopiesExact

\* Once a workload has its manifest its files stay as they are, although the script may be started
\* again and again: every system measured so far replayed the same trace.
WorkloadFiles == {file \in Files : file[1] \in {"fbin", "ids", "ins", "del", "gt"}}
WorkloadStable ==
  [][Exists(Manifest) => \A file \in WorkloadFiles : disk'[file] = disk[file]]_vars

\* The epochs drawn are those of the abstract generator, through kills and restarts: deletes of
\* ids that are live, inserts of ids never used.
W == INSTANCE Workload WITH
       InsPer <- ins_per, DelPer <- del_per, trace <- drawn,
       poolCursor <- Cardinality(UNION {e.inss : e \in Range(drawn)}),
       live <- ((0 .. BaseN - 1) \cup UNION {e.inss : e \in Range(drawn)})
                 \ UNION {e.dels : e \in Range(drawn)}
DrawsWorkload == W!InitWorkload /\ [][W!Generate]_(W!workloadVars)

\* The script comes to an end each time: neither the blocks of the ground truth nor the epochs nor
\* the chunks of a copy go on for ever, and no stage waits for a file that will not come.
Ends == <>[]Stopped
=============================================================================
