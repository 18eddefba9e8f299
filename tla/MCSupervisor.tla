---------------------------- MODULE MCSupervisor ----------------------------
(* Instances of Supervisor for TLC.                                          *)
EXTENDS Supervisor, TLC

MCKindOf == [op \in Operation |-> "tool"]
MCMaxUsed == [kind \in OperationKind |-> 0]

Symmetry == Permutations(Run) \cup Permutations(Session)
=============================================================================
