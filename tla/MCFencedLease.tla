---------------------------- MODULE MCFencedLease ----------------------------
(* Instances of FencedLease for TLC. *)
EXTENDS FencedLease, TLC

\* Processes, holders and keys are only ever compared for equality.
Symmetry == Permutations(Proc) \cup Permutations(Holder) \cup Permutations(Key)
=============================================================================
