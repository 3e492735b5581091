------------------------------- MODULE RecordMap -------------------------------
(***************************************************************************)
(* The map of owned records that the sketch store replaces: an insert      *)
(* keeps what is already there, a change of record size empties the map.   *)
(***************************************************************************)
CONSTANTS Ids, Records, Absent
VARIABLES
  map,       \* map[id]: the record kept for id, or Absent
  inserted   \* did the last insert add its record?

recordMapVars == <<map, inserted>>

Init == map = [id \in Ids |-> Absent] /\ inserted = FALSE

Insert(id, r) ==
  /\ inserted' = (map[id] = Absent)
  /\ map' = IF map[id] = Absent THEN [map EXCEPT ![id] = r] ELSE map

Overwrite(id, r) ==
  /\ map[id] # Absent
  /\ map' = [map EXCEPT ![id] = r]
  /\ UNCHANGED inserted

Erase(id) ==
  /\ map' = [map EXCEPT ![id] = Absent]
  /\ UNCHANGED inserted

Clear ==
  /\ map' = [id \in Ids |-> Absent]
  /\ UNCHANGED inserted

Next ==
  \/ \E id \in Ids, r \in Records : Insert(id, r) \/ Overwrite(id, r)
  \/ \E id \in Ids : Erase(id)
  \/ Clear

Spec == Init /\ [][Next]_recordMapVars
=============================================================================
