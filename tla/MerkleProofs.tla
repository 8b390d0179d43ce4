--------------------------- MODULE MerkleProofs ---------------------------
(***************************************************************************)
(* Inclusion and consistency proofs (crates/mtc/src/proof): generation     *)
(* from a tree, and the verification a relying party runs on whatever      *)
(* proof it was handed.  Verification returns the name of the ProofError   *)
(* it fails with, or "Ok".                                                 *)
(***************************************************************************)
EXTENDS MerkleTree

\* The audit path of index within [start, end), leaf to root.
RECURSIVE collect_siblings(_, _, _, _)
collect_siblings(leaves, start, end, index) ==
  IF end - start = 1 THEN <<>>
  ELSE LET k == start + largest_power_of_two_below(end - start)
       IN  IF index < k
           THEN Append(collect_siblings(leaves, start, k, index),
                       subtree_hash(leaves, k, end))
           ELSE Append(collect_siblings(leaves, k, end, index),
                       subtree_hash(leaves, start, k))

\* InclusionProof::generate, for index < Len(leaves).
GenerateInclusion(leaves, index) ==
  [tree_size  |-> Len(leaves),
   leaf_index |-> index,
   audit_path |-> collect_siblings(leaves, 0, Len(leaves), index)]

RECURSIVE path_len_within(_, _, _)
path_len_within(start, end, index) ==
  IF end - start <= 1 THEN 0
  ELSE LET k == start + largest_power_of_two_below(end - start)
       IN  1 + IF index < k THEN path_len_within(start, k, index)
                            ELSE path_len_within(k, end, index)

inclusion_path_len(index, size) == path_len_within(0, size, index)

\* A node that is the last of its level is taken for a left child.
IsRightChild_parity(fnn, sn) == fnn % 2 = 1

\* The node at position fnn of a level whose last node is sn.
IsRightChild(fnn, sn) == fnn % 2 = 1 \/ fnn = sn

\* The levels at which a right child has no sibling: the inner while loop.
Skipped(fnn, sn) ==
  IF IsRightChild(fnn, sn) /\ fnn # 0 THEN TrailingZeros(fnn) ELSE 0

\* The root rebuilt from position fnn upwards, and the position the last
\* node of the level has when the path is used up (0 at the root).
RECURSIVE climb(_, _, _, _)
climb(path, fnn, sn, acc) ==
  IF path = <<>> \/ sn = 0 THEN [acc |-> acc, sn |-> sn, rest |-> path]
  ELSE LET up == 2^(Skipped(fnn, sn) + 1)
           joined == IF IsRightChild(fnn, sn) THEN HashNode(Head(path), acc)
                                              ELSE HashNode(acc, Head(path))
       IN  climb(Tail(path), fnn \div up, sn \div up, joined)

\* InclusionProof::verify.
VerifyInclusionProof(proof, leaf_hash, expected_root) ==
  IF proof.leaf_index >= proof.tree_size THEN "IndexOutOfRange"
  ELSE IF Len(proof.audit_path) # inclusion_path_len(proof.leaf_index, proof.tree_size)
       THEN "MalformedPath"
  ELSE LET top == climb(proof.audit_path, proof.leaf_index, proof.tree_size - 1, leaf_hash)
       IN  IF top.rest # <<>> \/ top.sn # 0 THEN "MalformedPath"
           ELSE IF top.acc = expected_root THEN "Ok" ELSE "RootMismatch"
----------------------------------------------------------------------------
\* SUBPROOF(m, D[start:end], b).
RECURSIVE collect_subproof(_, _, _, _, _)
collect_subproof(leaves, m, start, end, b) ==
  LET k == largest_power_of_two_below(end - start)
  IN  IF m = end - start
      THEN IF b THEN <<>> ELSE <<subtree_hash(leaves, start, end)>>
      ELSE IF m <= k
      THEN Append(collect_subproof(leaves, m, start, start + k, b),
                  subtree_hash(leaves, start + k, end))
      ELSE Append(collect_subproof(leaves, m - k, start + k, end, FALSE),
                  subtree_hash(leaves, start, start + k))

\* ConsistencyProof::generate, for m <= n <= Len(leaves).
GenerateConsistency(leaves, m, n) ==
  [old_size |-> m, new_size |-> n,
   path |-> IF m = 0 \/ m = n THEN <<>> ELSE collect_subproof(leaves, m, 0, n, TRUE)]

RECURSIVE subproof_len(_, _, _)
subproof_len(m, n, b) ==
  IF m = n THEN IF b THEN 0 ELSE 1
  ELSE LET k == largest_power_of_two_below(n)
       IN  1 + IF m <= k THEN subproof_len(m, k, b)
                               ELSE subproof_len(m - k, n - k, FALSE)

consistency_path_len(m, n) == IF m = 0 \/ m = n THEN 0 ELSE subproof_len(m, n, TRUE)

\* The two while loops: both roots rebuilt from the node where the old tree
\* ends.  A path that is too short ends the climb with last above 0.
RECURSIVE climb_both(_, _, _, _, _)
climb_both(path, node, last, first, second) ==
  IF last = 0 THEN [first |-> first, second |-> second, rest |-> path]
  ELSE IF node > 0 /\ node % 2 = 0 /\ node >= last
  THEN climb_both(path, node \div 2, last \div 2, first, second)
  ELSE IF path = <<>> THEN [first |-> first, second |-> second, rest |-> <<EmptyRoot>>]
  ELSE IF node % 2 = 1
  THEN climb_both(Tail(path), node \div 2, last \div 2,
                  HashNode(Head(path), first), HashNode(Head(path), second))
  ELSE climb_both(Tail(path), node \div 2, last \div 2,
                  first, HashNode(second, Head(path)))

\* A verifier that only looks at the new root.
RootsMatch_new_only(top, old_root, new_root) == top.second = new_root

RootsMatch(top, old_root, new_root) == top.first = old_root /\ top.second = new_root

\* The climb from the old tree's last node, the levels where it is a right
\* child of full subtrees skipped.
RebuildRoots(m, n, path, old_root) ==
  LET skip == 2^TrailingZeros(m)
      node == (m - 1) \div skip
      last == (n - 1) \div skip
  IN  IF node > 0 THEN climb_both(Tail(path), node, last, Head(path), Head(path))
                  ELSE climb_both(path, node, last, old_root, old_root)

\* ConsistencyProof::verify.
VerifyConsistency(proof, old_root, new_root) ==
  LET m == proof.old_size  n == proof.new_size
      top == RebuildRoots(m, n, proof.path, old_root)
      matches ==
        IF m = 0 THEN old_root = EmptyRoot /\ (n = 0 => new_root = EmptyRoot)
        ELSE IF m = n THEN old_root = new_root
        ELSE RootsMatch(top, old_root, new_root)
  IN  IF m > n THEN "NonMonotonicSizes"
      ELSE IF Len(proof.path) # consistency_path_len(m, n) THEN "MalformedPath"
      ELSE IF 0 < m /\ m < n /\ top.rest # <<>> THEN "MalformedPath"
      ELSE IF matches THEN "Ok" ELSE "RootMismatch"
============================================================================
