---------------------------- MODULE MCVectorStore ----------------------------
(***************************************************************************)
(* Small instances of VectorStore: two sections, pages of two slots, ids   *)
(* that encode and possibly one that does not.                             *)
(***************************************************************************)
EXTENDS VectorStore, TLC

\* Every id has a record of its own, so that a read of the wrong slot is never right by chance.
MCRecordOf == [id \in Ids |-> <<"record", id>>]

\* Ids that encode are interchangeable, and so are pages and sections.
MCSymmetry ==
  Permutations(Ids \ Unencodable) \cup Permutations(Pages) \cup Permutations(Sections)
=============================================================================
