-------------------------- MODULE TransparencyLog --------------------------
(***************************************************************************)
(* The issuance log as its users see it: the tree grows by append, the CA  *)
(* signs checkpoints over it, proof servers generate proofs from the tree  *)
(* or assemble them from tiles, and relying parties verify (crates/mtc,    *)
(* crates/mtc-read, crates/mtc-verify).                                    *)
(*                                                                         *)
(* A second history of the same log may appear once: a copy of the tree    *)
(* (MerkleTree is Clone) that a second writer goes on appending to.  Its   *)
(* entries differ from then on.  The two histories are what proofs,        *)
(* entries and checkpoints can be mixed up between.                        *)
(***************************************************************************)
EXTENDS Tiles

CONSTANT MaxSize   \* bound: the entries of one history

ASSUME MaxSizeAssumption == MaxSize \in Nat

VARIABLES main,    \* leaf hashes of the log (MerkleTree::leaves)
          copy,    \* leaf hashes of the second history
          forked   \* whether the second history exists

vars == <<main, copy, forked>>

Init ==
  /\ main = <<>>
  /\ copy = <<>>
  /\ forked = FALSE

\* Entries are numbered by position, those of the second history apart.
append ==
  /\ Len(main) < MaxSize
  /\ main' = Append(main, HashLeaf(Len(main)))
  /\ UNCHANGED <<copy, forked>>

clone ==
  /\ ~forked
  /\ forked' = TRUE
  /\ copy' = main
  /\ UNCHANGED main

append_copy ==
  /\ forked
  /\ Len(copy) < MaxSize
  /\ copy' = Append(copy, HashLeaf(MaxSize + Len(copy)))
  /\ UNCHANGED <<main, forked>>

Next == append \/ clone \/ append_copy

Spec == Init /\ [][Next]_vars

Histories == IF forked THEN {main, copy} ELSE {main}

Prefix(log, n) == SubSeq(log, 1, n)
----------------------------------------------------------------------------
\* Checkpoint<Signed>.  A signature is what was signed and by which key:
\* verifying rebuilds the input from the fields, so it fails unless both
\* agree.  signed_at is not part of the input.
CONSTANTS CaKey, OtherKey

signature_input(log_id, tree_size, root_hash) ==
  <<"mtc-subtree/v1", log_id, log_id, 0, tree_size, root_hash>>

sign(log, key) ==
  [log_id |-> "log", tree_size |-> Len(log), root_hash |-> mth(log),
   signature |-> [key |-> key, input |-> signature_input("log", Len(log), mth(log))]]

SignatureVerifies(checkpoint, key) ==
  checkpoint.signature =
    [key |-> key,
     input |-> signature_input(checkpoint.log_id, checkpoint.tree_size, checkpoint.root_hash)]

SizesAgree(proof, checkpoint) == proof.tree_size = checkpoint.tree_size

\* Steps 4 to 6 of certificate verification: the reason of the VerifyError,
\* or "Verified".
verify_inclusion(leaf_hash, proof, checkpoint, ca_pubkey) ==
  IF ~SizesAgree(proof, checkpoint) THEN "SizeMismatch"
  ELSE LET applied == VerifyInclusionProof(proof, leaf_hash, checkpoint.root_hash)
       IN  IF applied # "Ok" THEN applied
           ELSE IF SignatureVerifies(checkpoint, ca_pubkey) THEN "Verified"
           ELSE "BadSignature"
----------------------------------------------------------------------------
\* Every path a proof server can have produced for some history, tree size
\* and index, with the entry it was produced for.
ServedPaths ==
  UNION {UNION {{[leaf |-> log[i],
                  path |-> GenerateInclusion(Prefix(log, n), i - 1).audit_path] : i \in 1..n} :
                n \in 1..Len(log)} :
         log \in Histories}

\* The same for consistency proofs.
ServedConsistencyPaths ==
  UNION {UNION {{GenerateConsistency(log, m, n).path : m \in 0..n} : n \in 0..Len(log)} :
         log \in Histories}

\* Checkpoints a relying party may hold: the current ones, the same with
\* another tree size written into them, and one signed by another key over
\* a tree that is no history of this log.
Checkpoints ==
  LET signed == {sign(log, CaKey) : log \in Histories}
  IN  signed
      \cup {[c EXCEPT !.tree_size = n] : c \in signed, n \in 0..MaxSize}
      \cup {sign(<<HashLeaf(2 * MaxSize)>>, OtherKey)}

\* What verify_inclusion vouches for: whatever mixture of entry, path,
\* index, size and checkpoint the relying party was handed, when it answers
\* Verified the entry stands at that index in a history of exactly that
\* size and root.  The comment "a proof for a small historical tree must not
\* be replayed against a later checkpoint's root" is one case of it.
VerifiedEntryIsLogged ==
  \A s \in ServedPaths \cup {[leaf |-> HashLeaf(2 * MaxSize), path |-> <<>>]},
     c \in Checkpoints, index \in 0..MaxSize, size \in 0..MaxSize :
    verify_inclusion(s.leaf, [tree_size |-> size, leaf_index |-> index, audit_path |-> s.path],
                     c, CaKey) = "Verified"
    => \E log \in Histories :
         /\ c.tree_size <= Len(log)
         /\ c.root_hash = mth(Prefix(log, c.tree_size))
         /\ index < c.tree_size
         /\ log[index + 1] = s.leaf

\* Every entry of the log can be proved at every size of the tree: the
\* proof generate returns is accepted against the checkpoint of that tree.
EveryEntryProvable ==
  \A log \in Histories : \A i \in 1..Len(log) :
    verify_inclusion(log[i], GenerateInclusion(log, i - 1), sign(log, CaKey), CaKey)
      = "Verified"

\* An inclusion proof convinces a relying party of what is logged and of
\* nothing else.
ProofsDecideMembership == VerifiedEntryIsLogged /\ EveryEntryProvable

\* A proof server that holds only tiles serves the same audit path: the
\* plan names tiles of that tree and no others than tiles_for_inclusion,
\* the leaf is in its slot and the combined runs are the path of generate.
TilesServeTheProof ==
  \A log \in Histories : \A i \in 0..(Len(log) - 1) :
    LET plan == plan_inclusion(Len(log), i)
        tiles == build_tiles(log)
    IN  /\ PlanTiles(plan) \subseteq {t.coord : t \in tiles}
        /\ PlanTiles(plan) = tiles_for_inclusion(i, Len(log))
        /\ block_hash(tiles, plan.leaf) = log[i + 1]
        /\ assemble_path(tiles, plan) = GenerateInclusion(log, i).audit_path

\* The tile set of a log reconstructs the root its checkpoints sign.
TilesDetermineRoot ==
  \A log \in Histories : log # <<>> => reconstruct_root(build_tiles(log)) = mth(log)

\* The tiles hold the whole log: every audit path and the root come out of them.
TilesServeTheLog == TilesServeTheProof /\ TilesDetermineRoot

\* Tiles are immutable objects: the tree grows and no tile that was built
\* is ever built again with other hashes under the same coordinate, and a
\* full tile stays part of the log's tile set.
TilesNeverRewritten ==
  [][\A t \in build_tiles(main) :
       /\ \A u \in build_tiles(main') : u.coord = t.coord => u = t
       /\ t.coord.width = FULL_TILE_HASHES => t \in build_tiles(main')]_vars

\* A consistency proof convinces exactly when the older tree is a prefix of
\* the newer one, whichever history and sizes the path was generated for, and the path
\* generate returns for a prefix always does.
ConsistencyMeansPrefix ==
  LET paths == ServedConsistencyPaths
      Accepts(old, new, path) ==
        VerifyConsistency([old_size |-> Len(old), new_size |-> Len(new), path |-> path],
                          mth(old), mth(new)) = "Ok"
  IN  \A new \in Histories :
        /\ \A old \in Histories, path \in paths :
             Accepts(old, new, path) => Len(old) <= Len(new) /\ old = Prefix(new, Len(old))
        /\ \A m \in 0..Len(new) :
             Accepts(Prefix(new, m), new, GenerateConsistency(new, m, Len(new)).path)

\* Every range of the log splits into the complete subtrees a proof or a
\* tile can name, in order, without gaps and with none left divisible.
RangesDecompose ==
  \A start \in 0..Len(main) : CanonicalCover(start, Len(main))
============================================================================
