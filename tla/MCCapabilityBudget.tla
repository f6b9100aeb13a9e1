-------------------------- MODULE MCCapabilityBudget --------------------------
(* Instances of CapabilityBudget for TLC. *)
EXTENDS CapabilityBudget, TLC

\* Processes and tokens are only ever compared for equality.
Symmetry == Permutations(Proc) \cup Permutations(Token)
=============================================================================
