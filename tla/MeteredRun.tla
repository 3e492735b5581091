------------------------------ MODULE MeteredRun ------------------------------
(***************************************************************************)
(* The command a sampler watches and the epoch file between them: the      *)
(* build of the base index, or the SPFresh driver, which overwrites the    *)
(* file whenever it gets to an epoch.  Opening the file for writing        *)
(* empties it, so a reader may find nothing in it.                         *)
(***************************************************************************)
EXTENDS Integers, Sequences

CONSTANTS
  NEpochs,  \* --epochs
  Absent,   \* the content of a file that does not exist
  MaxTime   \* bound: the clock stops here

ASSUME RunAssumption ==
  NEpochs \in Nat \ {0} /\ MaxTime \in Nat /\ Absent \notin Seq(Nat)

VARIABLES
  now,         \* the clock of all processes
  concurrent,  \* --concurrent: never changes
  file,        \* the epoch file: Absent, empty, or the one number in it
  process,     \* the command: not there, running, ended but not waited for, or waited for
  failed,      \* it ended with an error
  phase, e,    \* what the command is doing, and in which epoch
  announced,   \* the last number it wrote to the epoch file
  ended,       \* when it ended
  rows         \* the epochs in its output file, in the order written, or Absent

runVars == <<concurrent, file, process, failed, phase, e, announced, ended, rows>>

Tags == -1 .. NEpochs - 1

Launched(command) ==
  /\ process' = "running" /\ failed' = FALSE
  /\ phase' = command /\ e' = -1 /\ announced' = -1 /\ ended' = 0

\* setEpoch opens the file, which empties it, and then writes the number.
Truncate ==
  /\ process = "running" /\ phase = "tag"
  /\ file' = <<>>
  /\ phase' = "announce"
  /\ UNCHANGED <<now, concurrent, process, failed, e, announced, ended, rows>>

Announce ==
  /\ process = "running" /\ phase = "announce"
  /\ file' = <<e>> /\ announced' = e
  /\ phase' = IF e = -1 THEN "load" ELSE IF concurrent THEN "writes" ELSE "queries"
  /\ UNCHANGED <<now, concurrent, process, failed, e, ended, rows>>

\* The normal mode announces an epoch when its writes are over, the concurrent mode before them.
BeginEpoch(k) == e' = k /\ phase' = IF concurrent THEN "tag" ELSE "writes"

\* The index is loaded, then the output file is opened anew.
LoadIndex ==
  /\ process = "running" /\ phase = "load"
  /\ rows' = <<>>
  /\ BeginEpoch(0)
  /\ UNCHANGED <<now, concurrent, file, process, failed, announced, ended>>

WriteEpoch ==
  /\ process = "running" /\ phase = "writes"
  /\ phase' = IF concurrent THEN "queries" ELSE "tag"
  /\ UNCHANGED <<now, concurrent, file, process, failed, e, announced, ended, rows>>

QueryEpoch ==
  /\ process = "running" /\ phase = "queries"
  /\ rows' = Append(rows, e)
  /\ IF e + 1 < NEpochs
     THEN BeginEpoch(e + 1) /\ UNCHANGED <<process, ended>>
     ELSE process' = "zombie" /\ ended' = now /\ UNCHANGED <<e, phase>>
  /\ UNCHANGED <<now, concurrent, file, failed, announced>>

FinishBuild ==
  /\ process = "running" /\ phase = "build"
  /\ process' = "zombie" /\ ended' = now
  /\ UNCHANGED <<now, concurrent, file, failed, phase, e, announced, rows>>

\* The command may also fail, in the middle of anything that takes long.
Fail ==
  /\ process = "running" /\ phase \in {"build", "load", "writes", "queries"}
  /\ process' = "zombie" /\ failed' = TRUE /\ ended' = now
  /\ UNCHANGED <<now, concurrent, file, phase, e, announced, rows>>

Work ==
  Truncate \/ Announce \/ LoadIndex \/ WriteEpoch \/ QueryEpoch \/ FinishBuild \/ Fail

Tick ==
  /\ now < MaxTime
  /\ now' = now + 1
  /\ UNCHANGED runVars

\* The epoch whose stream operations have begun; none before the stream starts.
Begun == IF concurrent /\ e >= 0 /\ phase \in {"tag", "announce"} THEN e - 1 ELSE e
=============================================================================
