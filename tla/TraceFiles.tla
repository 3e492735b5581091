------------------------------ MODULE TraceFiles ------------------------------
(***************************************************************************)
(* The directory a workload is kept in: one file per vector set, per list  *)
(* of ids and per checkpoint.  A row of the dataset is the global id it    *)
(* has, so the row r of the data is the payload of the id r.               *)
(***************************************************************************)
EXTENDS Integers, Sequences

CONSTANTS
  BaseN,     \* N: rows of the base index
  PoolN,     \* n_pool: rows that follow
  NEpochs,   \* n_epochs
  Absent,    \* the content of a file that does not exist
  Torn       \* the content of a file whose writer was killed

ASSUME FilesAssumption ==
  /\ BaseN \in Nat \ {0} /\ PoolN \in Nat /\ NEpochs \in Nat \ {0}
  /\ Absent \notin Seq(Int) /\ Absent \notin [epochs : Nat, queries : Nat]

Gids == 0 .. BaseN + PoolN - 1
Epochs == 0 .. NEpochs - 1

\* The vector files, in the order base, pool, query.
Vectors(i) == <<"fbin", i>>
ByteCopy(i) == <<"byte", i>>
ByteTmp(i) == <<"tmp", i>>
Ids(i) == <<"ids", i>>
Inserts(k) == <<"ins", k>>
Deletes(k) == <<"del", k>>
Snapshot(k) == <<"active", k>>
Truth(k) == <<"gt", k>>
Manifest == <<"manifest", 0>>

Files ==
  {Vectors(i) : i \in 1 .. 3} \cup {ByteCopy(i) : i \in 1 .. 3} \cup {ByteTmp(i) : i \in 1 .. 3}
    \cup {Ids(i) : i \in 1 .. 2} \cup {Inserts(k) : k \in Epochs} \cup {Deletes(k) : k \in Epochs}
    \cup {Snapshot(k) : k \in Epochs} \cup {Truth(k) : k \in Epochs} \cup {Manifest}

VARIABLE disk

Written(file, content) == [disk EXCEPT ![file] = content]
Exists(file) == disk[file] # Absent
Whole(file) == disk[file] \notin {Absent, Torn}
=============================================================================
