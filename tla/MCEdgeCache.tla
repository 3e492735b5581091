----------------------------- MODULE MCEdgeCache -----------------------------
(***************************************************************************)
(* Small instances of EdgeCache, over every way its ids may hash.          *)
(***************************************************************************)
EXTENDS EdgeCache, TLC

\* Ids hash in every way and lists are only copied.
MCSymmetry == Permutations(Ids) \cup Permutations(Lists)
=============================================================================
