------------------------------- MODULE FreshSet -------------------------------
(***************************************************************************)
(* What a graph search asks of its visited set: empty when a search        *)
(* begins, and from then on an id is new exactly once.                     *)
(***************************************************************************)
CONSTANT Ids
VARIABLES
  visited,    \* ids inserted since the search began
  fresh       \* did the last insert find its id new?

freshVars == <<visited, fresh>>

Init == visited = {} /\ fresh = FALSE

BeginSearch ==
  /\ visited' = {}
  /\ UNCHANGED fresh

Insert(id) ==
  /\ fresh' = (id \notin visited)
  /\ visited' = visited \cup {id}

Next == BeginSearch \/ \E id \in Ids : Insert(id)

Spec == Init /\ [][Next]_freshVars
=============================================================================
