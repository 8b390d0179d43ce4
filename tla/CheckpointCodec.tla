-------------------------- MODULE CheckpointCodec --------------------------
(***************************************************************************)
(* Checkpoints as documents (crates/mtc/src/checkpoint, signing and        *)
(* pruning_checkpoint.rs): the bytes that are signed, the bytes that are   *)
(* stored, and the pruning checkpoint, which is stored unsigned.           *)
(*                                                                         *)
(* ECDSA is modelled by a ledger of what was signed.  A signature is a     *)
(* pair r || s of scalars: r names the entry of the ledger, s is one of    *)
(* the two values that verify with it (high-s is accepted).  Signing is    *)
(* deterministic (RFC 6979): the same message has the same signature.      *)
(***************************************************************************)
EXTENDS LogEntries

CONSTANT SCALAR_LEN    \* bytes of a scalar; a signature has twice as many

P1363_LEN == 2 * SCALAR_LEN

\* core::str::from_utf8: the highest byte is part of no UTF-8 text.
Utf8(bytes) == \A i \in DOMAIN bytes : bytes[i] # Base - 1

\* Id::new (LogId, SigningKeyId).
IdNew(text) == IF text = <<>> THEN Refuse("Empty") ELSE Ok(text)
----------------------------------------------------------------------------
\* TrustAnchorID: opaque<1..2^8-1>, checked before anything is written.
TrustAnchorIdFits(id) == id # <<>> /\ Len(id) < Base

write_trust_anchor_id(id) ==
  IF TrustAnchorIdFits(id) THEN write_opaque(id, 1) ELSE InvalidData

SUBTREE_SIGNATURE_LABEL == "mtc-subtree/v1"

\* The subtree's end is not covered by the signature.
subtree_signature_input_endless(cosigner_id, log_id, start, end, hash) ==
  IF TrustAnchorIdFits(cosigner_id) /\ TrustAnchorIdFits(log_id)
  THEN Ok(<<SUBTREE_SIGNATURE_LABEL>>
          \o be_bytes(Len(cosigner_id), 1) \o cosigner_id
          \o be_bytes(Len(log_id), 1) \o log_id
          \o be_bytes(start, U64_LEN) \o be_bytes(start, U64_LEN) \o hash)
  ELSE Refuse("TrustAnchorId")

subtree_signature_input(cosigner_id, log_id, start, end, hash) ==
  IF TrustAnchorIdFits(cosigner_id) /\ TrustAnchorIdFits(log_id)
  THEN Ok(<<SUBTREE_SIGNATURE_LABEL>>
          \o be_bytes(Len(cosigner_id), 1) \o cosigner_id
          \o be_bytes(Len(log_id), 1) \o log_id
          \o be_bytes(start, U64_LEN) \o be_bytes(end, U64_LEN) \o hash)
  ELSE Refuse("TrustAnchorId")

\* Checkpoint<Unsigned>, every field given (the builder has no other build).
Unsigned(log_id, tree_size, root_hash, signed_at) ==
  [log_id |-> log_id, tree_size |-> tree_size, root_hash |-> root_hash, signed_at |-> signed_at]

CheckpointInput(c) == subtree_signature_input(c.log_id, c.log_id, 0, c.tree_size, c.root_hash)

Signed(c, signature) ==
  [log_id |-> c.log_id, tree_size |-> c.tree_size, root_hash |-> c.root_hash,
   signed_at |-> c.signed_at, signature |-> signature]
----------------------------------------------------------------------------
\* The ledger with the message signed under the key, and its place there.
Ledgered(ledger, entry) == IF Contains(ledger, entry) THEN ledger ELSE Append(ledger, entry)
Place(ledger, entry) == CHOOSE i \in DOMAIN ledger : ledger[i] = entry

\* The two values of s that verify with one r.
LowS == 1
HighS == 2

\* scheme.sign: r || s, each SCALAR_LEN bytes.
Signature(ledger, entry) ==
  be_bytes(Place(ledger, entry), SCALAR_LEN) \o be_bytes(LowS, SCALAR_LEN)

\* EcdsaP256::verify of a key [algorithm, spki]: the reason, or "Ok".
SchemeVerify(ledger, key, message, signature) ==
  LET r == from_be_bytes(SubSeq(signature, 1, SCALAR_LEN))
      s == from_be_bytes(SubSeq(signature, SCALAR_LEN + 1, P1363_LEN))
  IN  CASE key.algorithm # "EcdsaP256Sha256" -> "AlgorithmMismatch"
        [] key.algorithm = "EcdsaP256Sha256" /\ key.spki = <<>> -> "MalformedKey"
        [] OTHER ->
             IF Len(signature) # P1363_LEN THEN "MalformedSignature"
             ELSE IF r = 0 \/ s = 0 THEN "MalformedSignature"
             ELSE IF /\ r \in DOMAIN ledger /\ s \in {LowS, HighS}
                     /\ ledger[r] = [key |-> key.spki, message |-> message]
                  THEN "Ok" ELSE "BadSignature"

\* Checkpoint<Signed>::verify.
VerifyCheckpoint(ledger, c, key) ==
  IF CheckpointInput(c).ok THEN SchemeVerify(ledger, key, CheckpointInput(c).value, c.signature)
  ELSE "Input"
----------------------------------------------------------------------------
\* The stored form of a signed checkpoint.
SerializeCheckpoint(c) ==
  Write(<<write_trust_anchor_id(c.log_id), write_uint(c.tree_size, U64_LEN), Bytes(c.root_hash),
          write_uint(c.signed_at, U64_LEN), write_opaque(c.signature, 2)>>)

\* The same bytes, assembled by checkpoint-signer around an HSM's signature.
frame_signed_checkpoint(c) ==
  IF TrustAnchorIdFits(c.log_id) /\ Len(c.signature) < Base^2
  THEN Bytes(be_bytes(Len(c.log_id), 1) \o c.log_id \o be_bytes(c.tree_size, U64_LEN)
             \o c.root_hash \o be_bytes(c.signed_at, U64_LEN)
             \o be_bytes(Len(c.signature), 2) \o c.signature)
  ELSE InvalidData

read_log_id(r) ==
  AndThen(read_opaque(r, 1), LAMBDA bytes, after :
    IF bytes = <<>> THEN Err("TrustAnchorIdEmpty")
    ELSE IF Utf8(bytes) THEN Parsed(bytes, after) ELSE Err("LogIdNotUtf8"))

ParseCheckpoint(r0) ==
  AndThen(read_log_id(r0), LAMBDA log_id, r1 :
    AndThen(read_uint(r1, U64_LEN), LAMBDA tree_size, r2 :
      AndThen(read_bytes(r2, HASH_LEN), LAMBDA root_hash, r3 :
        AndThen(read_uint(r3, U64_LEN), LAMBDA signed_at, r4 :
          AndThen(read_opaque(r4, 2), LAMBDA signature, r5 :
            Parsed(Signed(Unsigned(log_id, tree_size, root_hash, signed_at), signature), r5))))))
----------------------------------------------------------------------------
\* PruningCheckpoint: a range of the log that is no longer served.
validate_range(pruned_start, pruned_end, tree_size) ==
  CASE pruned_start > pruned_end -> Refuse("InvertedRange")
    [] pruned_end > tree_size -> Refuse("RangeExceedsTreeSize")
    [] OTHER -> Ok(<<pruned_start, pruned_end>>)

Pruning(pruned_start, pruned_end, tree_size, pruned_at, signing_key_id) ==
  [pruned_start |-> pruned_start, pruned_end |-> pruned_end, tree_size |-> tree_size,
   pruned_at |-> pruned_at, signing_key_id |-> signing_key_id]

SerializePruning(p) ==
  Write(<<write_uint(p.pruned_start, U64_LEN), write_uint(p.pruned_end, U64_LEN),
          write_uint(p.tree_size, U64_LEN), write_uint(p.pruned_at, U64_LEN),
          write_opaque(p.signing_key_id, 2)>>)

read_signing_key_id(r) ==
  AndThen(read_opaque(r, 2), LAMBDA bytes, after :
    IF bytes # <<>> /\ Utf8(bytes) THEN Parsed(bytes, after) ELSE Err("InvalidValue"))

ParsePruning(r0) ==
  AndThen(read_uint(r0, U64_LEN), LAMBDA pruned_start, r1 :
    AndThen(read_uint(r1, U64_LEN), LAMBDA pruned_end, r2 :
      AndThen(read_uint(r2, U64_LEN), LAMBDA tree_size, r3 :
        IF ~validate_range(pruned_start, pruned_end, tree_size).ok THEN Err("InvalidValue")
        ELSE AndThen(read_uint(r3, U64_LEN), LAMBDA pruned_at, r4 :
               AndThen(read_signing_key_id(r4), LAMBDA signing_key_id, r5 :
                 Parsed(Pruning(pruned_start, pruned_end, tree_size, pruned_at, signing_key_id),
                        r5))))))
=============================================================================
