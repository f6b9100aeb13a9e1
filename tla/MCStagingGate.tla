----------------------------- MODULE MCStagingGate -----------------------------
(* Instances of StagingGate for TLC. *)
EXTENDS StagingGate, TLC

CONSTANTS j1, j2

\* The second proof is issued when the retention of the first is over.
MCProof == {[jti |-> j1, iat |-> 0], [jti |-> j2, iat |-> 3]}

\* Requests and digests are only ever compared for equality.
Symmetry == Permutations(Call) \cup Permutations(Digest)
=============================================================================
