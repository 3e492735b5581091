-------------------------------- MODULE LruMap --------------------------------
(***************************************************************************)
(* The list+map cache that the arena edge cache is tested against: put     *)
(* inserts or refreshes at the front, get does not reorder, and a full     *)
(* cache drops its back.                                                   *)
(***************************************************************************)
EXTENDS Integers, SequencesExt

CONSTANTS
  Ids,        \* node ids
  Lists,      \* neighbor lists
  Missing,    \* what a lookup of an id that is not resident answers
  Capacity

VARIABLES
  order,      \* resident ids, most recently put first
  content,    \* content[id]: the list cached for id, or Missing
  answer      \* what the last get returned

lruVars == <<order, content, answer>>

Without(id) == RemoveAt(order, CHOOSE n \in DOMAIN order : order[n] = id)

Init ==
  /\ order = <<>>
  /\ content = [id \in Ids |-> Missing]
  /\ answer = Missing

Refresh(id, list) ==
  /\ content[id] # Missing
  /\ content' = [content EXCEPT ![id] = list]
  /\ order' = <<id>> \o Without(id)
  /\ UNCHANGED answer

Insert(id, list) ==
  /\ content[id] = Missing /\ Len(order) < Capacity
  /\ content' = [content EXCEPT ![id] = list]
  /\ order' = <<id>> \o order
  /\ UNCHANGED answer

InsertEvicting(id, list) ==
  /\ content[id] = Missing /\ Len(order) = Capacity
  /\ content' = [content EXCEPT ![order[Capacity]] = Missing, ![id] = list]
  /\ order' = <<id>> \o SubSeq(order, 1, Capacity - 1)
  /\ UNCHANGED answer

Erase(id) ==
  /\ content[id] # Missing
  /\ content' = [content EXCEPT ![id] = Missing]
  /\ order' = Without(id)
  /\ UNCHANGED answer

Get(id) ==
  /\ answer' = content[id]
  /\ UNCHANGED <<order, content>>

Next ==
  \E id \in Ids :
    \/ \E list \in Lists : Refresh(id, list) \/ Insert(id, list) \/ InsertEvicting(id, list)
    \/ Erase(id) \/ Get(id)

Spec == Init /\ [][Next]_lruVars
=============================================================================
