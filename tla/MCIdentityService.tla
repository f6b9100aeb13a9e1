--------------------------- MODULE MCIdentityService ---------------------------
(***************************************************************************)
(* A small instance of IdentityService.                                    *)
(***************************************************************************)
EXTENDS IdentityService, TLC

MCSetBack == {1}

Symmetry == Permutations(Request) \cup Permutations(Session) \cup Permutations(Proof)
=============================================================================
