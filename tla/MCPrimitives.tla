----------------------------- MODULE MCPrimitives -----------------------------
(* Instances of Primitives for TLC. *)
EXTENDS Primitives, TLC

\* These are only ever compared for equality.
Symmetry == Permutations(Server) \cup Permutations(Token) \cup Permutations(Scope)
=============================================================================
