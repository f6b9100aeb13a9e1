---------------------------- MODULE MCClientSession ----------------------------
(* ClientSession for TLC. *)
EXTENDS ClientSession, TLC

CONSTANTS c1, c2

MCClient == {c1, c2}

ClientSymmetry == Permutations(Client)
=============================================================================
