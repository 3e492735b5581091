------------------------------ MODULE ByteCopies ------------------------------
(***************************************************************************)
(* fbin_to_byte.py: a byte copy of each vector file of a finished          *)
(* workload, written chunk by chunk under a temporary name and renamed     *)
(* when it is whole.                                                       *)
(***************************************************************************)
EXTENDS Generator

CONSTANT ChunkRows  \* chunk_rows: rows converted at a time

ASSUME CopiesAssumption == ChunkRows \in Nat \ {0}

StagingNone(i) == ByteCopy(i)
Staging(i) == ByteTmp(i)

\* The rows of the next chunk, and those of them that are no integers or out of the range of a
\* byte; query rows are exact unless the data is synthetic.
Chunk(i) ==
  LET rows == disk[Vectors(i)]
      s0 == Len(disk[Staging(i)])
  IN SubSeq(rows, s0 + 1, Least(s0 + ChunkRows, Len(rows)))
Lossy(i, rows) ==
  {r \in Range(rows) : source.format = "synthetic" \/ (i < 3 /\ r \in source.lossy)}

OpenCopy ==
  /\ stage = "open"
  /\ disk' = Written(Staging(next), <<>>)
  /\ stage' = "convert"
  /\ UNCHANGED <<source, genMemory, genDrawn>>

MoreRows(i) == Len(disk[Staging(i)]) < Len(disk[Vectors(i)])

ConvertChunk ==
  /\ stage = "convert" /\ MoreRows(next)
  /\ Lossy(next, Chunk(next)) = {}
  /\ disk' = Written(Staging(next), disk[Staging(next)] \o Chunk(next))
  /\ UNCHANGED <<source, stage, genMemory, genDrawn>>

\* The half-written file is removed and the converter exits.
ConvertStops ==
  /\ stage = "convert" /\ MoreRows(next)
  /\ Lossy(next, Chunk(next)) # {}
  /\ disk' = Written(Staging(next), Absent)
  /\ stage' = "done"
  /\ UNCHANGED <<source, genMemory, genDrawn>>

FinishCopy ==
  /\ stage = "convert" /\ ~MoreRows(next)
  /\ disk' = [disk EXCEPT ![Staging(next)] = Absent,
                          ![ByteCopy(next)] = disk[Staging(next)]]
  /\ IF next < 3
     THEN stage' = "open" /\ next' = next + 1
     ELSE stage' = "done" /\ UNCHANGED next
  /\ UNCHANGED <<source, live, poolCursor, epoch, best, genDrawn>>

Convert == OpenCopy \/ ConvertChunk \/ ConvertStops \/ FinishCopy
=============================================================================
