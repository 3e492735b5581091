---------------------------- MODULE MCSketchStore ----------------------------
(***************************************************************************)
(* Small instances of SketchStore: ids and records are interchangeable.    *)
(***************************************************************************)
EXTENDS SketchStore, TLC

MCSymmetry == Permutations(Ids) \cup Permutations(Records)
=============================================================================
