---------------------------- MODULE MCGenerationTask ----------------------------
(***************************************************************************)
(* Instances of GenerationTask for TLC.                                    *)
(***************************************************************************)
EXTENDS GenerationTask, TLC

ClientSymmetry == Permutations(Clients)
=============================================================================
