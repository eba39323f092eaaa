------------------------- MODULE MCOrchestratorRuns -------------------------
(* Instances of OrchestratorRuns for TLC.                                  *)
EXTENDS OrchestratorRuns, TLC

CONSTANTS s1, r1, r2, j1, j2

(* Run ids and jobs are interchangeable.                                   *)
Alike == Permutations(Run) \cup Permutations(Job)
=============================================================================
