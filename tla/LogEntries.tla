----------------------------- MODULE LogEntries -----------------------------
(***************************************************************************)
(* The entries of the issuance log (crates/mtc/src/log_entry): claims, the *)
(* subject, the certificate entry and the null entry, with the constructors *)
(* that refuse what the draft's vector floors forbid and the parsers that  *)
(* apply the same floors to bytes from elsewhere.                          *)
(***************************************************************************)
EXTENDS Wire

CONSTANTS IPV4_LEN, IPV6_LEN    \* octets of an address: 4 and 16

Ok(value) == [ok |-> TRUE, value |-> value]
Refuse(error) == [ok |-> FALSE, error |-> error]

\* DNSName<1..2^8-1>.
DnsNameNew(bytes) ==
  CASE Len(bytes) = 0 -> Refuse("EmptyDnsName")
    [] Len(bytes) > Base - 1 -> Refuse("DnsNameTooLong")
    [] OTHER -> Ok(bytes)

SerializeDnsName(name) == write_opaque(name, 1)

ParseDnsName(r) ==
  AndThen(read_opaque(r, 1), LAMBDA bytes, after :
    IF DnsNameNew(bytes).ok THEN Parsed(bytes, after) ELSE Err("InvalidValue"))

\* ClaimType::code; a code outside its range is unknown (from_code).
ClaimTypes == <<"Dns", "DnsWildcard", "Ipv4", "Ipv6">>
code(type) == (CHOOSE i \in DOMAIN ClaimTypes : ClaimTypes[i] = type) - 1
IsClaimCode(c) == c + 1 \in DOMAIN ClaimTypes
from_code(c) == ClaimTypes[c + 1]

Claim(type, values) == [type |-> type, values |-> values]

NameTypes == {"Dns", "DnsWildcard"}
Octets(type) == IF type = "Ipv4" THEN IPV4_LEN ELSE IPV6_LEN

\* Claim::dns, dns_wildcard, ipv4, ipv6 from what the caller has: names as
\* bytes, addresses as octets.
ClaimNew(type, values) ==
  IF type \in NameTypes /\ \E i \in DOMAIN values : ~DnsNameNew(values[i]).ok
  THEN DnsNameNew(values[CHOOSE i \in DOMAIN values : ~DnsNameNew(values[i]).ok])
  ELSE IF values = <<>> THEN Refuse("EmptyClaimList")
  ELSE Ok(Claim(type, values))

serialize_claim_info(claim) ==
  write_vector(LAMBDA v : IF claim.type \in NameTypes THEN SerializeDnsName(v) ELSE Bytes(v),
               claim.values, 2)

SerializeClaim(claim) ==
  LET body == serialize_claim_info(claim)
  IN  IF body.ok THEN Write(<<write_uint(code(claim.type), 2), write_opaque(body.bytes, 2)>>)
      ELSE body

non_empty_wire(values, r) == IF values = <<>> THEN Err("InvalidValue") ELSE Parsed(values, r)

\* Bytes after the list are ignored.
ClaimInfo_trailing(type, body) ==
  AndThen(read_vector(LAMBDA r : IF type \in NameTypes THEN ParseDnsName(r)
                                 ELSE read_bytes(r, Octets(type)), new(body), 2), non_empty_wire)

\* claim_info is read by a reader of its own, which must use it all.
ClaimInfo(type, body) ==
  AndThen(read_vector(LAMBDA r : IF type \in NameTypes THEN ParseDnsName(r)
                                 ELSE read_bytes(r, Octets(type)), new(body), 2),
          LAMBDA values, sub :
            AndThen(non_empty_wire(values, sub), LAMBDA list, r : finish(r, list)))

ParseClaim(r) ==
  AndThen(read_uint(r, 2), LAMBDA c, afterCode :
    IF ~IsClaimCode(c) THEN Err("InvalidValue")
    ELSE AndThen(read_opaque(afterCode, 2), LAMBDA body, after :
           AndThen(ClaimInfo(from_code(c), body), LAMBDA values, sub :
             Parsed(Claim(from_code(c), values), after))))
----------------------------------------------------------------------------
\* SubjectType has one member, code 0.
SUBJECT_TLS == 0

\* TlsSubjectInfo: the preimage of subject_info_hash, public_key<1..2^16-1>.
SubjectInfoNew(scheme, public_key) ==
  IF public_key = <<>> THEN Refuse("EmptyPublicKey")
  ELSE Ok([signature_scheme |-> scheme, public_key |-> public_key])

SerializeSubjectInfo(info) ==
  Write(<<write_uint(info.signature_scheme, 2), write_opaque(info.public_key, 2)>>)

ParseSubjectInfo(r) ==
  AndThen(read_uint(r, 2), LAMBDA scheme, afterScheme :
    AndThen(read_opaque(afterScheme, 2), LAMBDA public_key, after :
      IF public_key = <<>> THEN Err("InvalidValue")
      ELSE Parsed([signature_scheme |-> scheme, public_key |-> public_key], after)))

\* TbsCertificateLogEntry: the builder has both fields and claims in order.
TbsEntry(subject_info_hash, claims) ==
  [subject_info_hash |-> subject_info_hash, claims |-> claims]

SerializeTbs(entry) ==
  Write(<<write_uint(SUBJECT_TLS, 2), Bytes(entry.subject_info_hash),
          write_vector(SerializeClaim, entry.claims, 2)>>)

ParseTbs(r) ==
  AndThen(read_uint(r, 2), LAMBDA subject_type, afterType :
    IF subject_type # SUBJECT_TLS THEN Err("InvalidValue")
    ELSE AndThen(read_bytes(afterType, HASH_LEN), LAMBDA hash, afterHash :
           AndThen(read_vector(ParseClaim, afterHash, 2), LAMBDA claims, after :
             Parsed(TbsEntry(hash, claims), after))))

\* MerkleTreeCertEntry: null_entry(0) with no body, tbs_cert_entry(1).
NULL_ENTRY_TYPE == 0
TBS_CERT_ENTRY_TYPE == 1

Null == [type |-> "Null"]
Certificate(entry) == [type |-> "Certificate", entry |-> entry]

\* leaf_bytes: what hash_leaf is fed.
SerializeEntry(entry) ==
  IF entry = Null THEN write_uint(NULL_ENTRY_TYPE, 2)
  ELSE Write(<<write_uint(TBS_CERT_ENTRY_TYPE, 2), SerializeTbs(entry.entry)>>)

ParseEntry(r) ==
  AndThen(read_uint(r, 2), LAMBDA entry_type, after :
    CASE entry_type = NULL_ENTRY_TYPE -> Parsed(Null, after)
      [] entry_type = TBS_CERT_ENTRY_TYPE ->
           AndThen(ParseTbs(after), LAMBDA tbs, end : Parsed(Certificate(tbs), end))
      [] OTHER -> Err("InvalidValue"))
=============================================================================
