------------------------------ MODULE VectorMap ------------------------------
(***************************************************************************)
(* What the paged vector storage promises its callers (IVectorStorage):    *)
(* a map from node ids to records.  A store that returns makes the record  *)
(* of the id's vector readable; a store that throws may leave anything     *)
(* under its own id; nobody else's record ever moves; a read answers what  *)
(* the map holds at that moment.  Pages, section buffers and the page      *)
(* cache do not show.                                                      *)
(***************************************************************************)
CONSTANTS
  Ids,        \* node ids
  RecordOf,   \* RecordOf[id]: the record that encodes the vector of id
  Records,    \* everything a slot of a page may hold
  Absent,     \* no record stored under the id
  Unread      \* the id is not part of the last answer

VARIABLES
  map,        \* map[id]: the record stored under id, or Absent
  threw,      \* ids whose store raised an exception
  answer      \* answer[id]: what the last read returned for id, or Unread

mapVars == <<map, threw, answer>>

Init ==
  /\ map = [id \in Ids |-> Absent]
  /\ threw = {}
  /\ answer = [id \in Ids |-> Unread]

Put(id) ==
  /\ map[id] = Absent
  /\ map' = [map EXCEPT ![id] = RecordOf[id]]
  /\ UNCHANGED <<threw, answer>>

PutThrows(id) ==
  /\ map[id] = Absent
  /\ \E r \in Records : map' = [map EXCEPT ![id] = r]
  /\ threw' = threw \cup {id}
  /\ UNCHANGED answer

Remove(id) ==
  /\ map[id] # Absent
  /\ map' = [map EXCEPT ![id] = Absent]
  /\ threw' = threw \ {id}
  /\ UNCHANGED answer

Read ==
  /\ answer' \in [Ids -> Records \cup {Unread}]
  /\ \A id \in Ids : answer'[id] \in {Unread, map[id]}
  /\ UNCHANGED <<map, threw>>

Next ==
  \/ \E id \in Ids : Put(id) \/ PutThrows(id) \/ Remove(id)
  \/ Read

Spec == Init /\ [][Next]_mapVars
=============================================================================
