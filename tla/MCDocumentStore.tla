----------------------------- MODULE MCDocumentStore -----------------------------
(***************************************************************************)
(* Instances of DocumentStore for TLC.                                     *)
(***************************************************************************)
EXTENDS DocumentStore, TLC

StoreSymmetry ==
  Permutations(Requests) \cup Permutations(Docs) \cup Permutations(Folders)
    \cup Permutations(Titles) \cup Permutations(Files)
=============================================================================
