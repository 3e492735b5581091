------------------------------- MODULE Workload -------------------------------
(***************************************************************************)
(* The trace generator: epoch after epoch it deletes a uniform sample of   *)
(* the live ids and inserts the next ids of the pool, and records both     *)
(* lists, with the ids that are live afterwards at every checkpoint (the   *)
(* set the ground truth is computed over).  Every system replays the same  *)
(* trace.                                                                  *)
(***************************************************************************)
EXTENDS Integers, Sequences, FiniteSets, FiniteSetsExt

CONSTANTS
  BaseN,       \* N: the ids 0 .. N - 1 are in the index before the first epoch
  PoolN,       \* n_pool: the ids that follow
  NEpochs,     \* n_epochs
  InsPer,      \* ins_per
  DelPer,      \* del_per
  GtInterval   \* gt_interval

ASSUME WorkloadAssumption ==
  /\ BaseN \in Nat /\ PoolN \in Nat /\ InsPer \in Nat /\ DelPer \in Nat
  /\ NEpochs \in Nat \ {0} /\ GtInterval \in Nat \ {0}

Gids == 0 .. BaseN + PoolN - 1
NoTruth == {-1}

VARIABLES
  live,        \* the ids in the index after the epochs written so far
  poolCursor,  \* pool_cursor
  trace        \* per epoch: the ids deleted, those inserted, and the active set of a checkpoint

workloadVars == <<live, poolCursor, trace>>

\* No deletions once there are too few live ids left to sample from.
SamplesEver ==
  IF DelPer > 0 /\ Cardinality(live) > DelPer THEN kSubset(DelPer, 0 .. BaseN + poolCursor - 1) ELSE {{}}
Samples ==
  IF DelPer > 0 /\ Cardinality(live) > DelPer THEN kSubset(DelPer, live) ELSE {{}}

\* The next fresh ids; fewer, and in the end none, when the pool runs out.
Take == IF InsPer < PoolN - poolCursor THEN InsPer ELSE PoolN - poolCursor
Fresh == BaseN + poolCursor .. BaseN + poolCursor + Take - 1

AdvancedStuck == poolCursor
Advanced == poolCursor + Take

Checkpoint(k) == k % GtInterval = 0 \/ k = NEpochs - 1

\* One epoch: the sample is drawn before this epoch's ids are added.
Generate ==
  /\ Len(trace) < NEpochs
  /\ \E dels \in Samples :
       /\ live' = (live \ dels) \cup Fresh
       /\ trace' = Append(trace, [dels |-> dels, inss |-> Fresh,
                                  active |-> IF Checkpoint(Len(trace)) THEN live' ELSE NoTruth])
  /\ poolCursor' = Advanced

InitWorkload ==
  /\ live = 0 .. BaseN - 1
  /\ poolCursor = 0
  /\ trace = <<>>
-----------------------------------------------------------------------------
TypeOKWorkload ==
  /\ live \subseteq Gids
  /\ poolCursor \in 0 .. PoolN
  /\ Len(trace) <= NEpochs
  /\ trace \in Seq([dels : SUBSET Gids, inss : SUBSET Gids, active : SUBSET (Gids \cup NoTruth)])

\* Once an id is deleted it never comes back and is never deleted again, and no id is inserted
\* twice ("Global ids are stable across the whole run, so a delete list unambiguously names live
\* rows").  The replay keeps one position per id and trusts this.
IdsOnce ==
  \A j, k \in DOMAIN trace :
    /\ j < k => trace[j].dels \cap (trace[k].dels \cup trace[k].inss) = {}
    /\ j < k => trace[j].inss \cap trace[k].inss = {}
    /\ trace[k].dels \cap trace[k].inss = {}
    /\ trace[k].inss \cap (0 .. BaseN - 1) = {}
=============================================================================
