------------------------------ MODULE VisitedSet ------------------------------
(***************************************************************************)
(* The visited set of searchLayer, reused from search to search.  An id is *)
(* visited when the epoch stored for it is the epoch of the running        *)
(* search; a new search takes the next epoch instead of clearing.  Epochs  *)
(* are 16-bit: when the counter wraps, both stores are wiped and it        *)
(* restarts at 1.  Small ids index a dense array grown on demand, the      *)
(* others go to a hash map.                                                *)
(***************************************************************************)
EXTENDS Integers

CONSTANTS
  Epochs,      \* the counter counts modulo Epochs: 2^16
  DenseLimit,  \* ids below it use the array: 2^31
  IdLimit      \* node ids are 0 .. IdLimit - 1

NodeIds == 0 .. IdLimit - 1
DenseIds == {id \in NodeIds : id < DenseLimit}
Epoch == 0 .. Epochs - 1

ASSUME EpochsAssumption == Epochs \in Nat /\ Epochs >= 2
ASSUME LimitsAssumption == DenseLimit \in Nat /\ IdLimit \in Nat

VARIABLES
  version,     \* visited_version_
  dense,       \* visited_dense_, over 0 .. length - 1
  length,      \* visited_dense_.size()
  sparse,      \* visited_map_: the ids it holds and their epochs
  fresh        \* what the last visitedInsert returned

visitedVars == <<version, dense, length, sparse, fresh>>

NoEpochs == [id \in {} |-> 0]
Larger(m, n) == IF m < n THEN n ELSE m
GrownShort(i) == IF i < length THEN length ELSE Larger(i, 2 * length)
Grown(i) == IF i < length THEN length ELSE Larger(i + 1, 2 * length)

BeginSearchKeepsDense ==
  /\ version' = IF (version + 1) % Epochs = 0 THEN 1 ELSE version + 1
  /\ sparse' = IF (version + 1) % Epochs = 0 THEN NoEpochs ELSE sparse
  /\ UNCHANGED <<dense, length, fresh>>
\* searchLayer: take the next epoch, or wipe both stores and take epoch 1.
BeginSearch ==
  \/ /\ (version + 1) % Epochs # 0
     /\ version' = version + 1
     /\ UNCHANGED <<dense, length, sparse, fresh>>
  \/ /\ (version + 1) % Epochs = 0
     /\ version' = 1
     /\ sparse' = NoEpochs
     /\ dense' = [i \in 0 .. length - 1 |-> 0]
     /\ UNCHANGED <<length, fresh>>

\* visitedInsert on the array, grown with zeros to reach the id.
GrowAndMark(i) ==
  /\ length' = Grown(i)
  /\ LET old(j) == IF j < length THEN dense[j] ELSE 0 IN
     /\ fresh' = (old(i) # version)
     /\ dense' = [j \in 0 .. length' - 1 |-> IF j = i THEN version ELSE old(j)]
  /\ UNCHANGED <<version, sparse>>

\* visitedInsert on the map: emplace, or overwrite the epoch of an earlier search.
MarkSparse(id) ==
  /\ fresh' = (id \notin DOMAIN sparse \/ sparse[id] # version)
  /\ sparse' = [j \in DOMAIN sparse \cup {id} |-> IF j = id THEN version ELSE sparse[j]]
  /\ UNCHANGED <<version, dense, length>>

\* Only a running search inserts.
VisitedInsert(id) ==
  /\ version # 0
  /\ IF id < DenseLimit THEN GrowAndMark(id) ELSE MarkSparse(id)

InitVisited ==
  /\ version = 0 /\ length = 0
  /\ dense = [i \in 0 .. length - 1 |-> 0]
  /\ sparse = NoEpochs
  /\ fresh = FALSE

NextVisited == BeginSearch \/ \E id \in NodeIds : VisitedInsert(id)

SpecVisited == InitVisited /\ [][NextVisited]_visitedVars

-----------------------------------------------------------------------------
\* Growth at least doubles, so with ids below DenseLimit the array stays below twice that.
TypeOKVisited ==
  /\ version \in Epoch
  /\ length \in Nat
  /\ dense \in [0 .. length - 1 -> Epoch]
  /\ DOMAIN sparse \subseteq NodeIds \ DenseIds
  /\ \A id \in DOMAIN sparse : sparse[id] \in Epoch
  /\ fresh \in BOOLEAN

\* No store remembers an epoch that a search has yet to use, or that the counter reached before
\* it wrapped: the next search starts with nothing visited (searchLayer, the wrap branch).
NoFutureEpoch ==
  /\ \A i \in DOMAIN dense : dense[i] <= version
  /\ \A id \in DOMAIN sparse : sparse[id] <= version

\* The epochs behave as a set that every search finds empty and that reports an id as new once,
\* across wraps of the counter and growth of the array (visitedInsert).
Marked(id) ==
  /\ version # 0
  /\ IF id < DenseLimit THEN id < length /\ dense[id] = version
     ELSE id \in DOMAIN sparse /\ sparse[id] = version
Fresh == INSTANCE FreshSet WITH Ids <- NodeIds, visited <- {id \in NodeIds : Marked(id)}
ImplementsFreshSet == Fresh!Spec
=============================================================================
