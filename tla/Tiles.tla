------------------------------- MODULE Tiles -------------------------------
(***************************************************************************)
(* The tlog-tiles serving format (crates/mtc/src/tile) and the read path's *)
(* tile planner (crates/mtc-read).  A tile is addressed by its level, its  *)
(* index within the level and its width; it holds width hashes, each the   *)
(* Merkle Tree Hash of a complete subtree of FULL_TILE_HASHES^level leaves.*)
(* TILE_HEIGHT is 8 in the code; a run takes a small one so that a small   *)
(* log has full tiles, right-edge tiles and more than one level.           *)
(***************************************************************************)
EXTENDS MerkleProofs

CONSTANTS TILE_HEIGHT, MAX_LEVEL

ASSUME TileAssumption == TILE_HEIGHT \in 1..8 /\ MAX_LEVEL \in Nat

FULL_TILE_HASHES == 2^TILE_HEIGHT

leaf_span(level) == 2^(TILE_HEIGHT * level)

\* Incomplete subtrees are counted too.
hashes_at_level_rounded_up(tree_size, level) ==
  IF level > MAX_LEVEL THEN 0 ELSE (tree_size + leaf_span(level) - 1) \div leaf_span(level)

hashes_at_level(tree_size, level) ==
  IF level > MAX_LEVEL THEN 0 ELSE tree_size \div leaf_span(level)

\* A tile that holds no hash has no positive width (None in the code).
tile_width(level, index, tree_size) ==
  LET available == hashes_at_level(tree_size, level) - index * FULL_TILE_HASHES
  IN  IF available > FULL_TILE_HASHES THEN FULL_TILE_HASHES ELSE available

TileCoord(level, index, tree_size) ==
  [level |-> level, index |-> index, width |-> tile_width(level, index, tree_size)]

\* A range beyond the leaves hashes as the empty slice.
subtree_root(leaves, level, hash_index) ==
  LET end == (hash_index + 1) * leaf_span(level)
  IN  IF end > Len(leaves) THEN EmptyRoot
      ELSE subtree_hash(leaves, hash_index * leaf_span(level), end)

\* build_tiles computes widths by itself, apart from tile_width.
BuiltWidth(count, base) ==
  IF count - base > FULL_TILE_HASHES THEN FULL_TILE_HASHES ELSE count - base

TileAt(leaves, level, index) ==
  LET base == index * FULL_TILE_HASHES
      width == BuiltWidth(hashes_at_level(Len(leaves), level), base)
  IN  [coord  |-> [level |-> level, index |-> index, width |-> width],
       hashes |-> [slot \in 1..width |-> subtree_root(leaves, level, base + slot - 1)]]

build_tiles(leaves) ==
  UNION {{TileAt(leaves, level, index) :
            index \in {i \in 0..Len(leaves) :
                         i * FULL_TILE_HASHES < hashes_at_level(Len(leaves), level)}} :
         level \in 0..MAX_LEVEL}

\* The hashes of the level-0 tiles, in the order of their indices.
RECURSIVE LeavesFrom(_, _)
LeavesFrom(level0, index) ==
  LET here == {t \in level0 : t.coord.index = index}
  IN  IF here = {} THEN <<>>
      ELSE (CHOOSE t \in here : TRUE).hashes \o LeavesFrom(level0, index + 1)

\* None when the level-0 tiles are absent, have a gap or a duplicate.
reconstruct_root(tiles) ==
  LET level0 == {t \in tiles : t.coord.level = 0}
  IN  IF \/ level0 = {}
         \/ {t.coord.index : t \in level0} # 0..(Cardinality(level0) - 1)
      THEN "None"
      ELSE mth(LeavesFrom(level0, 0))
----------------------------------------------------------------------------
\* The tile that holds the root of a complete subtree, or its parts.
tile_for_subtree(block, tree_size) ==
  LET level == TrailingZeros(block[2] - block[1]) \div TILE_HEIGHT
  IN  TileCoord(level, block[1] \div leaf_span(level + 1), tree_size)

\* For leaf < tree_size.
tiles_for_inclusion(leaf, tree_size) ==
  LET blocks == <<<<leaf, leaf + 1>>>> \o decompose_range(0, leaf)
                                       \o decompose_range(leaf + 1, tree_size)
  IN  {tile_for_subtree(blocks[b], tree_size) : b \in 1..Len(blocks)}

RECURSIVE sibling_ranges(_, _, _)
sibling_ranges(start, end, index) ==
  IF end - start <= 1 THEN <<>>
  ELSE LET k == start + largest_power_of_two_below(end - start)
       IN  IF index < k THEN Append(sibling_ranges(start, k, index), <<k, end>>)
                        ELSE Append(sibling_ranges(k, end, index), <<start, k>>)

\* The hash index shifted one bit too far.
slot_of_shifted(hash_index) == (hash_index \div 2) % FULL_TILE_HASHES

slot_of(hash_index) == hash_index % FULL_TILE_HASHES

\* The run of slots that holds a complete subtree [start, end).
block_to_slot_run(block, tree_size) ==
  LET kappa == TrailingZeros(block[2] - block[1])
      level == kappa \div TILE_HEIGHT
  IN  [coord |-> TileCoord(level, block[1] \div leaf_span(level + 1), tree_size),
       slot  |-> slot_of(block[1] \div leaf_span(level)),
       len   |-> 2^(kappa % TILE_HEIGHT)]

\* plan_inclusion, for index < tree_size: the leaf's own slot, and for every
\* sibling of the audit path the runs it is combined from.
plan_inclusion(tree_size, index) ==
  LET ranges == sibling_ranges(0, tree_size, index)
      Runs(range) ==
        LET blocks == decompose_range(range[1], range[2])
        IN  [b \in 1..Len(blocks) |-> block_to_slot_run(blocks[b], tree_size)]
  IN  [leaf  |-> block_to_slot_run(<<index, index + 1>>, tree_size),
       steps |-> [s \in 1..Len(ranges) |-> Runs(ranges[s])]]

\* TilePlan::tiles.
PlanTiles(plan) ==
  {plan.leaf.coord} \cup
  UNION {{plan.steps[s][b].coord : b \in 1..Len(plan.steps[s])} : s \in 1..Len(plan.steps)}

\* The proof server: each run read from the tiles it fetched, and the roots
\* of a step's blocks combined from the right.
block_hash(tiles, run) ==
  LET tile == CHOOSE t \in tiles : t.coord = run.coord
  IN  mth(SubSeq(tile.hashes, run.slot + 1, run.slot + run.len))

RECURSIVE sibling_hash(_, _)
sibling_hash(tiles, runs) ==
  LET first == block_hash(tiles, Head(runs))
  IN  IF Len(runs) = 1 THEN first ELSE HashNode(first, sibling_hash(tiles, Tail(runs)))

assemble_path(tiles, plan) ==
  [s \in 1..Len(plan.steps) |-> sibling_hash(tiles, plan.steps[s])]
============================================================================
