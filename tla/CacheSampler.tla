----------------------------- MODULE CacheSampler -----------------------------
(***************************************************************************)
(* cache_sampler.py: walks the store of the system under test again and    *)
(* again, until it is killed, and records what the page cache holds of     *)
(* it, tagged like the samples of the memory.                              *)
(***************************************************************************)
EXTENDS MemSampler

CONSTANT MaxWalks  \* bound: walks of one sampler

VARIABLES
  walker,  \* where the sampler is; "off" when none runs
  walk,    \* what was announced when the present walk began
  cache    \* the rows of the .cache.jsonl, or Absent

walkVars == <<walker, walk, cache>>

NoTag == -2

BeginWalk ==
  /\ walker = "ready" /\ Len(cache) < MaxWalks
  /\ walk' = announced
  /\ walker' = "walk"
  /\ UNCHANGED <<now, runVars, meterVars, cache>>

\* No file, or no number in it: no tag.
TagOrNone == IF file = Absent \/ file = <<>> THEN NoTag ELSE file[1]
EndWalk ==
  /\ walker = "walk"
  /\ cache' = Append(cache, [epoch |-> TagOrNone, from |-> walk])
  /\ walker' = "ready" /\ walk' = NoTag
  /\ UNCHANGED <<now, runVars, meterVars>>

Walk == BeginWalk \/ EndWalk
=============================================================================
