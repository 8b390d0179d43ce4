----------------------------- MODULE Documents -----------------------------
(***************************************************************************)
(* A document of the log on its way: it is built by the constructors,      *)
(* signed when it is a checkpoint, serialised, stored or sent, possibly    *)
(* damaged there, read and parsed by someone else and, when it is a        *)
(* checkpoint, verified.  One document at a time; what was signed before   *)
(* stays signed, so a later checkpoint can be mixed up with an earlier.    *)
(***************************************************************************)
EXTENDS CheckpointCodec

CONSTANTS ClaimInputs,     \* what claims are asked for: <<type, values>>
          MaxClaims,       \* bound: claims of an entry
          PublicKeys,      \* public keys offered for a subject
          Ids,             \* texts offered as log id or signing key id
          Sizes,           \* tree sizes and indices of documents
          Times,           \* signed_at and pruned_at
          Hashes,          \* root hashes and subject info hashes
          SigningKeys,     \* P-256 keys, named by their SPKI
          VerifyingKeys,   \* keys a reader verifies with: [algorithm, spki]
          MaxSigned,       \* bound: checkpoints signed
          MaxDamages       \* bound: bytes damaged, one fewer per earlier signature

ASSUME DocumentsAssumption ==
  /\ {MaxClaims, MaxSigned, MaxDamages} \subseteq Nat
  /\ Sizes \cup Times \subseteq 0..(Base^U64_LEN - 1)
  /\ \A h \in Hashes : h \in [1..HASH_LEN -> Byte]
  /\ \A id \in Ids : id \in Seq(Byte) /\ Utf8(id)
  /\ MaxSigned < Base^SCALAR_LEN

VARIABLES stage,      \* where the document is
          kind,       \* entry, subject, checkpoint or pruning
          doc,        \* the document as its author has it
          wire,       \* its bytes as they are stored
          damages,    \* how often they were damaged
          ledger,     \* what was signed: [key, message]
          endorsed,   \* and what it said: [key, log_id, tree_size, root_hash]
          answer      \* what the reader's parser answered

docVars == <<stage, kind, doc, wire, damages, ledger, endorsed, answer>>

NoDoc == [none |-> TRUE]

DocInit ==
  /\ stage = "start" /\ kind = "none"
  /\ doc = NoDoc /\ answer = NoDoc
  /\ wire = <<>> /\ damages = 0
  /\ ledger = <<>> /\ endorsed = {}

SerializeDoc(k, d) ==
  CASE k = "entry" -> SerializeEntry(d)
    [] k = "subject" -> SerializeSubjectInfo(d)
    [] k = "checkpoint" -> SerializeCheckpoint(d)
    [] k = "pruning" -> SerializePruning(d)

ParseDoc(k, bytes) ==
  CASE k = "entry" -> tls_parse_exact(ParseEntry, bytes)
    [] k = "subject" -> tls_parse_exact(ParseSubjectInfo, bytes)
    [] k = "checkpoint" -> tls_parse_exact(ParseCheckpoint, bytes)
    [] k = "pruning" -> tls_parse_exact(ParsePruning, bytes)
----------------------------------------------------------------------------
\* A constructor answered: the document exists, or was refused.  After a
\* signed checkpoint only checkpoints follow: the other documents do not
\* depend on what was signed.
Construct(k, result) ==
  /\ stage = "start"
  /\ ledger # <<>> => k = "checkpoint"
  /\ kind' = k
  /\ IF result.ok THEN stage' = "built" /\ doc' = result.value
     ELSE stage' = "refused" /\ doc' = NoDoc
  /\ UNCHANGED <<wire, damages, ledger, endorsed, answer>>

\* The first failing claim ends the construction (`?`).
Claims(inputs) ==
  LET made == [i \in DOMAIN inputs |-> ClaimNew(inputs[i][1], inputs[i][2])]
  IN  IF \A i \in DOMAIN made : made[i].ok
      THEN Ok([i \in DOMAIN made |-> made[i].value])
      ELSE SelectSeq(made, LAMBDA m : ~m.ok)[1]

BuildNull == Construct("entry", Ok(Null))

BuildCertificate ==
  \E hash \in Hashes, n \in 0..MaxClaims : \E inputs \in [1..n -> ClaimInputs] :
    Construct("entry", IF Claims(inputs).ok
                       THEN Ok(Certificate(TbsEntry(hash, Claims(inputs).value)))
                       ELSE Claims(inputs))

BuildSubject ==
  \E scheme \in Sizes, public_key \in PublicKeys :
    Construct("subject", SubjectInfoNew(scheme, public_key))

BuildPruning ==
  \E first, last, tree_size \in Sizes, pruned_at \in Times, id \in Ids :
    Construct("pruning",
              IF ~IdNew(id).ok THEN IdNew(id)
              ELSE IF validate_range(first, last, tree_size).ok
                   THEN Ok(Pruning(first, last, tree_size, pruned_at, id))
                   ELSE validate_range(first, last, tree_size))

\* CheckpointBuilder: the log id is checked first, the rest is given.
BuildCheckpoint ==
  /\ Len(ledger) < MaxSigned
  /\ \E id \in Ids, tree_size \in Sizes, signed_at \in Times, root_hash \in Hashes :
       Construct("checkpoint", IF IdNew(id).ok THEN Ok(Unsigned(id, tree_size, root_hash, signed_at))
                               ELSE IdNew(id))

Unsent == stage = "built" /\ kind = "checkpoint" => "signature" \in DOMAIN doc

\* Checkpoint<Unsigned>::sign with a P-256 key.
SignCheckpoint(key) ==
  /\ stage = "built" /\ ~Unsent
  /\ IF CheckpointInput(doc).ok
     THEN LET entry == [key |-> key, message |-> CheckpointInput(doc).value]
          IN  /\ ledger' = Ledgered(ledger, entry)
              /\ endorsed' = endorsed \cup {[key |-> key, log_id |-> doc.log_id,
                                             tree_size |-> doc.tree_size,
                                             root_hash |-> doc.root_hash]}
              /\ doc' = Signed(doc, Signature(ledger', entry))
              /\ UNCHANGED stage
     ELSE /\ stage' = "refused" /\ doc' = NoDoc
          /\ UNCHANGED <<ledger, endorsed>>
  /\ UNCHANGED <<kind, wire, damages, answer>>

\* A checkpoint is stored by mtc's serialiser or by checkpoint-signer's.
Store ==
  /\ stage = "built" /\ Unsent
  /\ \E written \in {SerializeDoc(kind, doc)}
                    \cup IF kind = "checkpoint" THEN {frame_signed_checkpoint(doc)} ELSE {} :
       IF written.ok THEN stage' = "stored" /\ wire' = written.bytes /\ UNCHANGED doc
       ELSE stage' = "refused" /\ doc' = NoDoc /\ UNCHANGED wire
  /\ UNCHANGED <<kind, damages, ledger, endorsed, answer>>

\* A byte is lost at the end, added there or replaced.
Damage ==
  /\ stage = "stored"
  /\ damages < MaxDamages /\ damages + Len(ledger) <= MaxDamages
  /\ damages' = damages + 1
  /\ \/ wire # <<>> /\ wire' = Front(wire)
     \/ \E b \in Byte : wire' = Append(wire, b)
     \/ \E i \in DOMAIN wire, b \in Byte : b # wire[i] /\ wire' = [wire EXCEPT ![i] = b]
  /\ UNCHANGED <<stage, kind, doc, ledger, endorsed, answer>>

Read ==
  /\ stage = "stored"
  /\ stage' = "read"
  /\ LET parsed == ParseDoc(kind, wire)
     IN  answer' = IF parsed.ok THEN Ok(parsed.value) ELSE Refuse(parsed.error)
  /\ UNCHANGED <<kind, doc, wire, damages, ledger, endorsed>>

\* The next checkpoint of the same log.
Following ==
  /\ stage = "read" /\ kind = "checkpoint" /\ damages = 0
  /\ Len(ledger) < MaxSigned
  /\ stage' = "start" /\ kind' = "none"
  /\ doc' = NoDoc /\ answer' = NoDoc /\ wire' = <<>>
  /\ UNCHANGED <<damages, ledger, endorsed>>

DocNext ==
  \/ BuildNull \/ BuildCertificate \/ BuildSubject \/ BuildPruning \/ BuildCheckpoint
  \/ \E key \in SigningKeys : SignCheckpoint(key)
  \/ Store \/ Damage \/ Read \/ Following
----------------------------------------------------------------------------
HasRead == stage = "read" /\ answer.ok

\* What was stored is what is read: the parser gives back the document its
\* author built, whichever of the two serialisers wrote it, and a checkpoint
\* verifies under the key that signed it.
RoundTrip ==
  stage = "read" /\ damages = 0 =>
    /\ answer.ok /\ answer.value = doc
    /\ kind = "checkpoint" =>
         \E e \in endorsed :
           VerifyCheckpoint(ledger, answer.value,
                            [algorithm |-> "EcdsaP256Sha256", spki |-> e.key]) = "Ok"

\* A value has one encoding: whatever bytes the parser accepts, serialising
\* the value it made gives those bytes again, so no two leaves, digests or
\* signatures stand for one document (the trailing-byte and exact-length
\* checks of reader.rs and claim.rs).
CanonicalBytes == HasRead => SerializeDoc(kind, answer.value) = Bytes(wire)

\* The parsers enforce by hand what the constructors enforce ("the draft's
\* floors"): no value comes out of the parser that could not have been built.
ParsedIsConstructible ==
  HasRead =>
    CASE kind = "entry" ->
           answer.value # Null =>
             \A i \in DOMAIN answer.value.entry.claims :
               ClaimNew(answer.value.entry.claims[i].type, answer.value.entry.claims[i].values).ok
      [] kind = "subject" ->
           SubjectInfoNew(answer.value.signature_scheme, answer.value.public_key).ok
      [] kind = "checkpoint" ->
           Utf8(answer.value.log_id) /\ CheckpointInput(answer.value).ok
      [] kind = "pruning" ->
           /\ IdNew(answer.value.signing_key_id).ok /\ Utf8(answer.value.signing_key_id)
           /\ validate_range(answer.value.pruned_start, answer.value.pruned_end,
                             answer.value.tree_size).ok

\* Documents and byte strings correspond one to one: every document that can
\* be built is read back from its bytes, and every byte string that is
\* accepted, damaged ones too, is the encoding of a document that can be built.
CodecIsBijection == RoundTrip /\ CanonicalBytes /\ ParsedIsConstructible

\* A verified checkpoint says what its signer said: whatever happened to the
\* bytes, when the signature verifies under a P-256 key that key signed this
\* log id, tree size and root (signed_at is not covered).
VerifiedWasSigned ==
  HasRead /\ kind = "checkpoint" =>
    \A key \in VerifyingKeys :
      VerifyCheckpoint(ledger, answer.value, key) = "Ok" =>
        /\ key.algorithm = "EcdsaP256Sha256"
        /\ [key |-> key.spki, log_id |-> answer.value.log_id, tree_size |-> answer.value.tree_size,
            root_hash |-> answer.value.root_hash] \in endorsed
=============================================================================
