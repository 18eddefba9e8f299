--------------------------- MODULE MCEvaluationJob ---------------------------
(* Small instances of EvaluationJob for TLC. *)
EXTENDS EvaluationJob, TLC

Symmetry == Permutations(Worker)
=============================================================================
