------------------------------ MODULE MerkleTree ------------------------------
(***************************************************************************)
(* The Merkle tree of the audit ledger: RFC 9162 hashes over leaves in     *)
(* order, the cache of perfect subtrees that audit/sqlite keeps in         *)
(* merkle_nodes, and the proofs built from leaves or from the cache and    *)
(* checked by audit.VerifyInclusion and audit.VerifyConsistency.  A hash   *)
(* is the term it is computed from, so two are equal only if their inputs  *)
(* are.  Leaf indexes are zero-based.                                      *)
(***************************************************************************)
EXTENDS Integers, Sequences, SequencesExt, FiniteSets

EmptyMerkleRoot == <<"empty">>

MerkleLeafHash(sequence, chain) == <<"leaf", sequence, chain>>

MerkleNodeHash(left, right) == <<"node", left, right>>

IsPowerOfTwo(n) == \E i \in 0..n : 2^i = n

Log2(n) == CHOOSE i \in 0..n : 2^i = n

largestPowerLessThan(n) == CHOOSE k \in {2^i : i \in 0..n} : k < n /\ n <= 2 * k

(***************************************************************************)
(* Roots and proofs computed from the leaves                               *)
(***************************************************************************)
RECURSIVE MerkleRoot(_)
MerkleRoot(leaves) ==
  IF leaves = <<>> THEN EmptyMerkleRoot
  ELSE IF Len(leaves) = 1 THEN leaves[1]
  ELSE LET k == largestPowerLessThan(Len(leaves))
       IN  MerkleNodeHash(MerkleRoot(SubSeq(leaves, 1, k)),
                          MerkleRoot(SubSeq(leaves, k + 1, Len(leaves))))

RECURSIVE BuildInclusionPath(_, _)
BuildInclusionPath(leaves, index) ==
  IF Len(leaves) = 1 THEN <<>>
  ELSE LET k == largestPowerLessThan(Len(leaves))
           left == SubSeq(leaves, 1, k)
           right == SubSeq(leaves, k + 1, Len(leaves))
       IN  IF index < k THEN Append(BuildInclusionPath(left, index), MerkleRoot(right))
           ELSE Append(BuildInclusionPath(right, index - k), MerkleRoot(left))

RECURSIVE BuildConsistencyPath(_, _, _)
BuildConsistencyPath(leaves, first, complete) ==
  IF first = Len(leaves) THEN IF complete THEN <<>> ELSE <<MerkleRoot(leaves)>>
  ELSE LET k == largestPowerLessThan(Len(leaves))
           left == SubSeq(leaves, 1, k)
           right == SubSeq(leaves, k + 1, Len(leaves))
       IN  IF first <= k
           THEN Append(BuildConsistencyPath(left, first, complete), MerkleRoot(right))
           ELSE Append(BuildConsistencyPath(right, first - k, FALSE), MerkleRoot(left))

(***************************************************************************)
(* The cache: a function from <<level, index>> to the hash of the perfect  *)
(* subtree of 2^level leaves that starts at leaf index * 2^level.          *)
(***************************************************************************)
Store(nodes, level, index, hash) ==
  [c \in DOMAIN nodes \cup {<<level, index>>} |->
     IF c = <<level, index>> THEN hash ELSE nodes[c]]

\* insertMerkleLeaf climbs from a leaf while it completes a subtree.
RECURSIVE InsertNode(_, _, _, _)
InsertNode(nodes, level, index, hash) ==
  LET stored == Store(nodes, level, index, hash)
  IN  IF index % 2 = 0 THEN stored
      ELSE InsertNode(stored, level + 1, index \div 2,
                      MerkleNodeHash(nodes[<<level, index - 1>>], hash))

insertMerkleLeaf(nodes, index, leaf) == InsertNode(nodes, 0, index, leaf)

\* addExpectedLeaf over all leaves: the cache a ledger of these leaves has.
RECURSIVE ExpectedNodes(_)
ExpectedNodes(leaves) ==
  IF leaves = <<>> THEN [c \in {} |-> EmptyMerkleRoot]
  ELSE insertMerkleLeaf(ExpectedNodes(Front(leaves)), Len(leaves) - 1, Last(leaves))

RECURSIVE subtreeHash(_, _, _)
subtreeHash(nodes, start, size) ==
  IF size = 0 THEN EmptyMerkleRoot
  ELSE IF IsPowerOfTwo(size) /\ start % size = 0
  THEN nodes[<<Log2(size), start \div size>>]
  ELSE LET k == largestPowerLessThan(size)
       IN  MerkleNodeHash(subtreeHash(nodes, start, k),
                          subtreeHash(nodes, start + k, size - k))

RECURSIVE inclusionPath(_, _, _, _)
inclusionPath(nodes, start, size, index) ==
  IF size = 1 THEN <<>>
  ELSE LET k == largestPowerLessThan(size)
       IN  IF index < k
           THEN Append(inclusionPath(nodes, start, k, index),
                       subtreeHash(nodes, start + k, size - k))
           ELSE Append(inclusionPath(nodes, start + k, size - k, index - k),
                       subtreeHash(nodes, start, k))

RECURSIVE consistencyPath(_, _, _, _, _)
consistencyPath(nodes, start, size, first, complete) ==
  IF first = size THEN IF complete THEN <<>> ELSE <<subtreeHash(nodes, start, size)>>
  ELSE LET k == largestPowerLessThan(size)
       IN  IF first <= k
           THEN Append(consistencyPath(nodes, start, k, first, complete),
                       subtreeHash(nodes, start + k, size - k))
           ELSE Append(consistencyPath(nodes, start + k, size - k, first - k, FALSE),
                       subtreeHash(nodes, start, k))

(***************************************************************************)
(* Checking a proof: fn and sn are shifted right together, and the path is *)
(* folded into the roots.                                                  *)
(***************************************************************************)
RECURSIVE ShiftWhile(_, _, _)
ShiftWhile(fn, sn, bit) ==
  IF fn % 2 = bit /\ fn # 0 THEN ShiftWhile(fn \div 2, sn \div 2, bit) ELSE <<fn, sn>>

ClimbOneLevel(s, node) ==
  LET onRight == s.fn % 2 = 1 \/ s.fn = s.sn
  IN  [ok |-> s.ok /\ s.sn # 0,
       fn |-> s.fn \div 2, sn |-> s.sn \div 2,
       first |-> IF onRight THEN MerkleNodeHash(node, s.first) ELSE s.first,
       second |-> IF onRight THEN MerkleNodeHash(node, s.second)
                  ELSE MerkleNodeHash(s.second, node)]

\* One sibling of the path.  first is the root of the smaller tree of a
\* consistency proof, and follows second in an inclusion proof.
Climb(s, node) ==
  LET onRight == s.fn % 2 = 1 \/ s.fn = s.sn
      pos == IF onRight /\ s.fn % 2 = 0 THEN ShiftWhile(s.fn, s.sn, 0) ELSE <<s.fn, s.sn>>
  IN  [ok |-> s.ok /\ s.sn # 0,
       fn |-> pos[1] \div 2, sn |-> pos[2] \div 2,
       first |-> IF onRight THEN MerkleNodeHash(node, s.first) ELSE s.first,
       second |-> IF onRight THEN MerkleNodeHash(node, s.second)
                  ELSE MerkleNodeHash(s.second, node)]

VerifyInclusion(leaf, root, index, size, path) ==
  LET start == [ok |-> TRUE, fn |-> index, sn |-> size - 1, first |-> leaf, second |-> leaf]
      end == FoldLeft(Climb, start, path)
  IN  size > 0 /\ index < size /\ end.ok /\ end.sn = 0 /\ end.second = root

VerifyConsistency(firstRoot, secondRoot, first, second, path) ==
  IF first = 0 THEN path = <<>> /\ firstRoot = EmptyMerkleRoot
  ELSE IF first = second THEN path = <<>> /\ firstRoot = secondRoot
  ELSE IF first > second \/ path = <<>> THEN FALSE
  ELSE LET full == IF IsPowerOfTwo(first) THEN <<firstRoot>> \o path ELSE path
           pos == ShiftWhile(first - 1, second - 1, 1)
           start == [ok |-> TRUE, fn |-> pos[1], sn |-> pos[2],
                     first |-> full[1], second |-> full[1]]
           end == FoldLeft(Climb, start, Tail(full))
       IN  end.ok /\ end.sn = 0 /\ end.first = firstRoot /\ end.second = secondRoot
=============================================================================
