---------------------------- MODULE MCTransitions ----------------------------
(* Instances of Transitions, seen by a client, for TLC. *)
EXTENDS Inspection, TLC

Symmetry == Permutations(Participant) \cup Permutations(ClaimKey)
=============================================================================
