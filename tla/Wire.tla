-------------------------------- MODULE Wire --------------------------------
(***************************************************************************)
(* The TLS presentation codec of crates/mtc (wire.rs, wire/): big-endian   *)
(* integers, length-prefixed opaques and vectors, and the bounded reader   *)
(* untrusted bytes go through.                                             *)
(*                                                                         *)
(* A byte has Base values (256 in the code), so a prefix of w bytes holds  *)
(* lengths below Base^w and a small Base brings every limit within reach.  *)
(* The widths keep their meaning and lose their size: U64_LEN, HASH_LEN.   *)
(* An error is its variant; offsets and reasons are left out.              *)
(***************************************************************************)
EXTENDS Integers, Sequences, SequencesExt

CONSTANTS Base,                \* the values of a byte
          U64_LEN,             \* bytes of a uint64
          HASH_LEN,            \* HashOutput::LEN
          DEFAULT_MAX_DEPTH    \* TlsReader::DEFAULT_MAX_DEPTH

ASSUME WireAssumption ==
  /\ Base \in Nat \ {0, 1}
  /\ {U64_LEN, HASH_LEN, DEFAULT_MAX_DEPTH} \subseteq Nat \ {0}

Byte == 0..(Base - 1)

WireError == {"UnexpectedEof", "LengthOverflow", "TrailingBytes", "DepthLimitExceeded",
              "ZeroWidthElement", "InvalidValue"}
----------------------------------------------------------------------------
\* Writing.  A writer either has its bytes or refused with io::Error.
Bytes(b) == [ok |-> TRUE, bytes |-> b]
InvalidData == [ok |-> FALSE, error |-> "InvalidData"]

\* Writes one after the other, `?` after each.
Write(parts) ==
  IF \A i \in DOMAIN parts : parts[i].ok
  THEN Bytes(FlattenSeq([i \in DOMAIN parts |-> parts[i].bytes]))
  ELSE InvalidData

\* value.to_be_bytes(), w bytes wide.
be_bytes(value, w) == [i \in 1..w |-> (value \div Base^(w - i)) % Base]

write_uint(value, w) == Bytes(be_bytes(value, w))

write_opaque(bytes, w) ==
  IF Len(bytes) < Base^w THEN Bytes(be_bytes(Len(bytes), w) \o bytes) ELSE InvalidData

serialize_items(Item(_), items) == Write([i \in DOMAIN items |-> Item(items[i])])

write_vector(Item(_), items, w) ==
  LET body == serialize_items(Item, items)
  IN  IF body.ok THEN write_opaque(body.bytes, w) ELSE body
----------------------------------------------------------------------------
\* Reading.  A parser takes a reader and answers a value with the reader
\* after it, or an error.
new(buf) == [buf |-> buf, pos |-> 0, depth |-> 0]

Parsed(value, r) == [ok |-> TRUE, value |-> value, reader |-> r]
Err(error) == [ok |-> FALSE, error |-> error]

\* The `?` of the code: go on with value and reader, or return the error.
AndThen(result, Continue(_, _)) ==
  IF result.ok THEN Continue(result.value, result.reader) ELSE result

remaining(r) == Len(r.buf) - r.pos

read_bytes(r, n) ==
  IF r.pos + n <= Len(r.buf)
  THEN Parsed(SubSeq(r.buf, r.pos + 1, r.pos + n), [r EXCEPT !.pos = @ + n])
  ELSE Err("UnexpectedEof")

from_be_bytes(bytes) == FoldLeft(LAMBDA n, b : n * Base + b, 0, bytes)

read_uint(r, w) ==
  AndThen(read_bytes(r, w), LAMBDA bytes, after : Parsed(from_be_bytes(bytes), after))

take_body(r, len) ==
  IF len > remaining(r) THEN Err("LengthOverflow") ELSE read_bytes(r, len)

read_opaque(r, w) == AndThen(read_uint(r, w), LAMBDA len, after : take_body(after, len))

finish(r, value) == IF remaining(r) = 0 THEN Parsed(value, r) ELSE Err("TrailingBytes")

\* Body runs on a reader of its own over the next len bytes.
read_scoped(r, len, Body(_)) ==
  IF r.depth >= DEFAULT_MAX_DEPTH THEN Err("DepthLimitExceeded")
  ELSE AndThen(take_body(r, len), LAMBDA bytes, after :
         AndThen(Body([buf |-> bytes, pos |-> 0, depth |-> r.depth + 1]), LAMBDA value, sub :
           IF remaining(sub) = 0 THEN Parsed(value, after) ELSE Err("TrailingBytes")))

\* The loop of read_items from the reader sub: one item, then the rest.
ItemsFrom(Item(_), sub) ==
  LET items[pos \in 0..Len(sub.buf)] ==
        IF pos = Len(sub.buf) THEN Parsed(<<>>, [sub EXCEPT !.pos = pos])
        ELSE LET first == Item([sub EXCEPT !.pos = pos])
             IN  CASE ~first.ok -> first
                   [] first.ok /\ first.reader.pos = pos -> Err("ZeroWidthElement")
                   [] OTHER ->
                        LET rest == items[first.reader.pos]
                        IN  IF rest.ok THEN Parsed(<<first.value>> \o rest.value, rest.reader)
                            ELSE rest
  IN  items[sub.pos]

read_vector(Item(_), r, w) ==
  AndThen(read_uint(r, w), LAMBDA len, after :
    read_scoped(after, len, LAMBDA sub : ItemsFrom(Item, sub)))

tls_parse_exact(Parse(_), bytes) ==
  AndThen(Parse(new(bytes)), LAMBDA value, r : finish(r, value))
=============================================================================
