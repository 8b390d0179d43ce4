---------------------------- MODULE MerkleTree ----------------------------
(***************************************************************************)
(* The Merkle tree of the issuance log (crates/mtc/src/tree): the          *)
(* domain-separated hashes, the Merkle Tree Hash of a slice of leaf hashes *)
(* and the decomposition of an entry range into complete subtrees.         *)
(*                                                                         *)
(* SHA-256 is a free constructor: two hashes are equal exactly when they   *)
(* were built from equal preimages, and a leaf, an interior node and the   *)
(* empty tree never collide.  Entry positions count from 0, as in the      *)
(* code; a range [start, end) is the pair <<start, end>>.                  *)
(***************************************************************************)
EXTENDS Integers, Sequences, FiniteSets

EmptyRoot == <<"empty">>

HashLeaf(entry) == <<"leaf", entry>>

HashNode(left, right) == <<"node", left, right>>

\* u64::ilog2, for the sizes a run reaches.
Log2(n) == CHOOSE p \in 0..20 : 2^p <= n /\ n < 2^(p + 1)

\* u64::trailing_zeros of a number above 0.
TrailingZeros(n) == CHOOSE p \in 0..20 : n % 2^p = 0 /\ n % 2^(p + 1) # 0

IsPowerOfTwo(n) == n > 0 /\ n = 2^Log2(n)

\* The same function under its names split_point (twice) and
\* largest_power_of_two_below (twice).
largest_power_of_two_below(n) == 2^Log2(n - 1)

RECURSIVE mth(_)
mth(leaves) ==
  IF leaves = <<>> THEN EmptyRoot
  ELSE IF Len(leaves) = 1 THEN leaves[1]
  ELSE LET k == largest_power_of_two_below(Len(leaves))
       IN  HashNode(mth(SubSeq(leaves, 1, k)),
                    mth(SubSeq(leaves, k + 1, Len(leaves))))

\* The caller passes ranges with start < end <= len only.
subtree_hash(leaves, start, end) == mth(SubSeq(leaves, start + 1, end))

\* Subtree::try_aligned returns Ok.
try_aligned(start, end) ==
  /\ start < end
  /\ IsPowerOfTwo(end - start)
  /\ start % (end - start) = 0

\* The length of the next block, with the alignment of the start forgotten.
step_unaligned(i, end) == 2^Log2(end - i)

\* The length of the block decompose_range takes at i.
step(i, end) ==
  LET by_span == 2^Log2(end - i)
      by_alignment == 2^TrailingZeros(i)
  IN  IF i = 0 \/ by_span <= by_alignment THEN by_span ELSE by_alignment

RECURSIVE decompose_range(_, _)
decompose_range(start, end) ==
  IF start >= end THEN <<>>
  ELSE LET next == start + step(start, end)
       IN  <<<<start, next>>>> \o decompose_range(next, end)

\* The block [start, next) of a decomposition may not grow on either side:
\* the smallest complete subtree that contains it leaves the range.
Maximal(block, start, end) ==
  LET span == 2 * (block[2] - block[1])
      parent == (block[1] \div span) * span
  IN  parent < start \/ parent + span > end

\* What decompose_range promises of one range: the blocks follow each other
\* from start to end, each is a complete subtree and none could be larger.
CanonicalCover(start, end) ==
  LET blocks == decompose_range(start, end)
  IN  /\ (start >= end) <=> (blocks = <<>>)
      /\ \A b \in 1..Len(blocks) :
           /\ blocks[b][1] = IF b = 1 THEN start ELSE blocks[b - 1][2]
           /\ try_aligned(blocks[b][1], blocks[b][2])
           /\ Maximal(blocks[b], start, end)
      /\ start < end => blocks[Len(blocks)][2] = end
============================================================================
