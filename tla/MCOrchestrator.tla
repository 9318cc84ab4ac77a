--------------------------- MODULE MCOrchestrator ---------------------------
(* Instances of Orchestrator for TLC: interchangeable jobs. *)
EXTENDS Orchestrator, TLC

JobSymmetry == Permutations(Job)
=============================================================================
