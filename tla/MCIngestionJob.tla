--------------------------- MODULE MCIngestionJob ---------------------------
(* A small instance of IngestionJob for TLC.  The bound lets either a fault   *)
(* happen or operators move the pointer, as often as MaxMoves allows.         *)
EXTENDS IngestionJob, TLC

NoOperators ==
  /\ \A n \in DOMAIN history : history[n].actor \notin Operator
  /\ \A s \in Snapshot \ {Target} : imports[s] = {}

NoFaults == faults = 0

Bound == (NoOperators \/ NoFaults)'

Symmetry == Permutations(Worker)
=============================================================================
