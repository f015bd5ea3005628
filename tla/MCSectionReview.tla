----------------------------- MODULE MCSectionReview -----------------------------
(***************************************************************************)
(* Instances of SectionReview for TLC.                                     *)
(***************************************************************************)
EXTENDS SectionReview, TLC

CONSTANTS overview, measures, annex

\* A template with two chapters
TwoChapters == <<overview, measures>>

\* A template with three chapters
ThreeChapters == <<overview, measures, annex>>

EditorSymmetry == Permutations(Editors)
=============================================================================
