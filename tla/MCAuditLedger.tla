---------------------------- MODULE MCAuditLedger ----------------------------
(***************************************************************************)
(* Instances of AuditLedger: one signing key whose second statement        *)
(* retires it or declares a compromise, and ledgers reopened at sizes      *)
(* whose trees have different shapes.                                      *)
(***************************************************************************)
EXTENDS AuditLedger, TLC

CONSTANT k1

KeyStatement(version, retired, compromised) ==
  [key |-> k1, version |-> version, from |-> 0, issued |-> version - 1,
   retired |-> retired, compromised |-> compromised]

MCStatement == {KeyStatement(1, {}, {}), KeyStatement(2, {1}, {}), KeyStatement(2, {}, {<<1, 2>>})}

\* A cached subtree of four leaves.
MCFragile == {<<2, 0>>}

Symmetry == Permutations(Op) \cup Permutations(Creator)
=============================================================================
