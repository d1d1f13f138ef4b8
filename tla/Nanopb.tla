------------------------------- MODULE Nanopb -------------------------------
(***************************************************************************)
(* The nanopb codec as this build uses it: static fields, no extensions,   *)
(* no callbacks, no required or fixed-count fields, 64-bit integers, no    *)
(* UTF-8 check.                                                            *)
(*                                                                         *)
(* A stream is the sequence of bytes still to come.  A reader returns      *)
(* Fail, or [ok, v, rest]: what it read and the stream behind it.  A       *)
(* struct is a function from the names of its fields to their values, with *)
(* which and body for its union; an optional field is [has, v], a repeated *)
(* one the sequence of its entries, a string the bytes before its first 0. *)
(***************************************************************************)
EXTENDS Messages, Integers, SequencesExt

Varint == 0
Fixed64 == 1
Delimited == 2
Fixed32 == 5
Packed == 255
Scalar == {"bool", "varint", "uvarint"}       \* <= PB_LTYPE_LAST_PACKABLE

Fail == [ok |-> FALSE]
Done(v, rest) == [ok |-> TRUE, v |-> v, rest |-> rest]

\* What next makes of what r has read and of the stream behind it.
Then(r, next(_, _)) == IF r.ok THEN next(r.v, r.rest) ELSE Fail

-----------------------------------------------------------------------------
\* Reading.

\* pb_read()
Read(s, n) ==
    IF Len(s) < n THEN Fail ELSE Done(SubSeq(s, 1, n), SubSeq(s, n + 1, Len(s)))

\* The rest of a varint of Word bits, of which result holds bitpos bits.  A
\* longer one is accepted if what does not fit is zeroes, or ones that
\* extend the sign to Long bits.
RECURSIVE Varint32Rest(_, _, _)
Varint32Rest(s, result, bitpos) ==
    IF s = <<>> THEN Fail
    ELSE LET byte == Head(s)
             last == 7 * (Word \div 7)
             extends ==
                 \/ byte % 128 = 0
                 \/ /\ result >= 2 ^ (Word - 1)
                    /\ byte = IF bitpos < Long - 1 THEN 255 ELSE 1
             overflow ==
                 \/ bitpos >= Word /\ (bitpos >= Long \/ ~extends)
                 \/ bitpos = last /\ byte % 128 \in 16..119
             bits == CASE bitpos >= Word -> 0
                       [] bitpos = last -> (byte % 16) * 2 ^ bitpos
                       [] OTHER -> (byte % 128) * 2 ^ bitpos
         IN IF overflow THEN Fail
            ELSE IF byte < 128 THEN Done(result + bits, Tail(s))
            ELSE Varint32Rest(Tail(s), result + bits, bitpos + 7)

\* pb_decode_varint32()
DecodeVarint32(s) ==
    IF s = <<>> THEN Fail
    ELSE IF Head(s) < 128 THEN Done(Head(s), Tail(s))
    ELSE Varint32Rest(Tail(s), Head(s) % 128, 7)

\* pb_decode_varint(), of which result holds bitpos bits
RECURSIVE VarintRest(_, _, _)
VarintRest(s, result, bitpos) ==
    IF s = <<>> \/ (bitpos >= Long - 1 /\ Head(s) > 1) THEN Fail
    ELSE LET sum == result + (Head(s) % 128) * 2 ^ bitpos
         IN IF Head(s) < 128 THEN Done(sum, Tail(s)) ELSE VarintRest(Tail(s), sum, bitpos + 7)

DecodeVarint(s) == VarintRest(s, 0, 0)

\* pb_skip_varint()
RECURSIVE SkipVarint(_)
SkipVarint(s) ==
    IF s = <<>> THEN Fail
    ELSE IF Head(s) < 128 THEN Done(<<>>, Tail(s)) ELSE SkipVarint(Tail(s))

\* A length, and that many bytes: pb_skip_string(), and what
\* pb_make_string_substream() and pb_close_string_substream() bracket.
Substream(s) == Then(DecodeVarint32(s), LAMBDA size, rest : Read(rest, size))

\* Mutant: a 64-bit field is skipped as if it had 32 bits.
SkipField_Short(s, wire) ==
    CASE wire = Varint -> SkipVarint(s)
      [] wire \in {Fixed64, Fixed32} -> Read(s, 4)
      [] wire = Delimited -> Substream(s)
      [] OTHER -> Fail

\* pb_skip_field()
SkipField(s, wire) ==
    CASE wire = Varint -> SkipVarint(s)
      [] wire = Fixed64 -> Read(s, 8)
      [] wire = Delimited -> Substream(s)
      [] wire = Fixed32 -> Read(s, 4)
      [] OTHER -> Fail

-----------------------------------------------------------------------------
\* Structs and the field iterator.

RECURSIVE Zero(_)

\* pb_field_set_to_default(): a field at zero, absent, or without entries
ZeroField(field) ==
    LET zero == CASE field.l = "submsg" -> Zero(field.sub)
                  [] field.l = "bool" -> FALSE
                  [] field.l \in {"varint", "uvarint"} -> 0
                  [] OTHER -> <<>>
    IN CASE field.h = "repeated" -> <<>>
         [] field.h = "optional" -> [has |-> FALSE, v |-> zero]
         [] OTHER -> zero

\* pb_message_set_to_defaults(), and the init_zero macros
Zero(msg) ==
    LET plain == SelectSeq(Desc(msg), LAMBDA f : f.h # "oneof")
        named(n) == CHOOSE f \in ToSet(plain) : f.name = n
    IN [n \in {f.name : f \in ToSet(plain)} \cup {"which", "body"} |->
           CASE n = "which" -> 0
             [] n = "body" -> <<>>
             [] OTHER -> ZeroField(named(n))]

\* pb_field_iter_find(): the fields with the tag, searched from the field the
\* iterator is at, round to it again.
Find(desc, at, tag) ==
    IF at \in DOMAIN desc /\ desc[at].tag = tag THEN {at}
    ELSE IF desc = <<>> \/ tag > desc[Len(desc)].tag THEN {}
    ELSE LET order == IF tag < desc[at].tag THEN 1..at ELSE (at + 1)..Len(desc) \cup 1..at
         IN {i \in order : desc[i].tag = tag}

-----------------------------------------------------------------------------
\* Decoding.

\* The value of the low bits of an integer read as a signed one.
Signed(value, bits) ==
    LET low == value % 2 ^ bits IN IF low < 2 ^ (bits - 1) THEN low ELSE low - 2 ^ bits

\* pb_dec_varint(): a number too large for its field is refused, a negative
\* one is cut to Word bits first.
DecVarint(s, field) ==
    Then(DecodeVarint(s), LAMBDA v, rest :
        CASE field.l = "varint" -> Done(Signed(v, field.size), rest)
          [] v < 2 ^ field.size -> Done(v, rest)
          [] OTHER -> Fail)

\* pb_dec_bool()
DecBool(s) == Then(DecodeVarint32(s), LAMBDA v, rest : Done(v # 0, rest))

\* The bytes of a string before its first zero.
UpToZero(bytes) ==
    IF Contains(bytes, 0) THEN SubSeq(bytes, 1, SelectInSeq(bytes, LAMBDA b : b = 0) - 1) ELSE bytes

\* Mutant: what does not fit the buffer is cut off.
DecString_Truncate(s, field) ==
    Then(Substream(s), LAMBDA bytes, rest :
        Done(SubSeq(bytes, 1, IF Len(bytes) < field.size THEN Len(bytes) ELSE field.size - 1), rest))

\* pb_dec_string(): with its terminator it must fit the buffer.
DecString(s, field) ==
    Then(Substream(s), LAMBDA bytes, rest :
        IF Len(bytes) + 1 > field.size THEN Fail ELSE Done(UpToZero(bytes), rest))

\* pb_dec_bytes(): with its length it must fit the struct.
DecBytes(s, field) ==
    Then(Substream(s), LAMBDA bytes, rest :
        IF Len(bytes) + LengthSize > DataSize(field) THEN Fail ELSE Done(bytes, rest))

RECURSIVE DecodeInner(_, _, _, _)

\* pb_dec_submessage(): into the struct there, without setting it to zero
DecSubmessage(s, field, old) ==
    Then(Substream(s), LAMBDA sub, rest :
        Then(DecodeInner(Desc(field.sub), 1, sub, old), LAMBDA v, end : Done(v, rest)))

\* decode_basic_field()
DecodeBasic(s, wire, field, old) ==
    IF wire \notin (IF field.l \in Scalar THEN {Varint, Packed} ELSE {Delimited}) THEN Fail
    ELSE CASE field.l = "bool" -> DecBool(s)
           [] field.l \in {"varint", "uvarint"} -> DecVarint(s, field)
           [] field.l = "bytes" -> DecBytes(s, field)
           [] field.l = "string" -> DecString(s, field)
           [] field.l = "submsg" -> DecSubmessage(s, field, old)

\* The entries of a packed array, up to the size of the array.
RECURSIVE DecodePacked(_, _, _)
DecodePacked(s, field, entries) ==
    IF s = <<>> THEN Done(entries, s)
    ELSE IF Len(entries) = field.max THEN Fail
    ELSE Then(DecodeBasic(s, Packed, field, 0), LAMBDA v, rest :
             DecodePacked(rest, field, Append(entries, v)))

\* decode_static_field(): the struct m with the field read into it
DecodeSingular(s, wire, field, m) ==
    Then(DecodeBasic(s, wire, field, m[field.name]), LAMBDA v, rest :
        Done([m EXCEPT ![field.name] = v], rest))

DecodeOptional(s, wire, field, m) ==
    Then(DecodeBasic(s, wire, field, m[field.name].v), LAMBDA v, rest :
        Done([m EXCEPT ![field.name] = [has |-> TRUE, v |-> v]], rest))

DecodeRepeated(s, wire, field, m) ==
    IF wire = Delimited /\ field.l \in Scalar
    THEN Then(Substream(s), LAMBDA sub, rest :
             Then(DecodePacked(sub, field, m[field.name]), LAMBDA v, end :
                 Done([m EXCEPT ![field.name] = v], rest)))
    ELSE IF Len(m[field.name]) = field.max THEN Fail
    ELSE Then(DecodeBasic(s, wire, field, 0), LAMBDA v, rest :
             Done([m EXCEPT ![field.name] = Append(@, v)], rest))

DecodeOneof(s, wire, field, m) ==
    Then(DecodeBasic(s, wire, field, IF m.which = field.tag THEN m.body ELSE Zero(field.sub)),
         LAMBDA v, rest : Done([m EXCEPT !.which = field.tag, !.body = v], rest))

DecodeField(s, wire, field, m) ==
    CASE field.h = "singular" -> DecodeSingular(s, wire, field, m)
      [] field.h = "optional" -> DecodeOptional(s, wire, field, m)
      [] field.h = "repeated" -> DecodeRepeated(s, wire, field, m)
      [] field.h = "oneof" -> DecodeOneof(s, wire, field, m)

\* The rest of pb_decode_inner() from a key on whose tag belongs to the
\* fields found.
DecodeOne(desc, at, found, wire, s, m) ==
    IF found = {}
    THEN Then(SkipField(s, wire), LAMBDA v, rest : DecodeInner(desc, at, rest, m))
    ELSE LET index == CHOOSE i \in found : TRUE
         IN Then(DecodeField(s, wire, desc[index], m), LAMBDA v, rest :
                DecodeInner(desc, index, rest, v))

\* pb_decode_inner(): field after field into m, the iterator at field at
DecodeInner(desc, at, s, m) ==
    IF s = <<>> THEN Done(m, s)
    ELSE Then(DecodeVarint32(s), LAMBDA key, rest :
             IF key \div 8 = 0 THEN Fail
             ELSE DecodeOne(desc, at, Find(desc, at, key \div 8), key % 8, rest, m))

\* pb_decode()
Decode(msg, s) == DecodeInner(Desc(msg), 1, s, Zero(msg))
-----------------------------------------------------------------------------
\* Encoding.

\* The bytes of a varint above its first Word bits: the first of them shares
\* a byte with the last four bits of the word.
RECURSIVE EncodeHigh(_, _)
EncodeHigh(high, byte) ==
    IF high = 0 THEN <<byte>>
    ELSE <<byte + 128>> \o EncodeHigh(high \div 128, high % 128)

\* pb_encode_varint_32(), the i-th byte being byte
RECURSIVE EncodeLow(_, _, _, _)
EncodeLow(i, low, high, byte) ==
    IF i < Word \div 7 /\ (low # 0 \/ high # 0)
    THEN <<byte + 128>> \o EncodeLow(i + 1, low \div 128, high, low % 128)
    ELSE IF high = 0 THEN <<byte>>
    ELSE EncodeHigh(high \div 8, byte + 16 * (high % 8))

\* Mutant: the upper word is left out.
EncodeVarint_OneWord(value) ==
    LET low == value % 2 ^ Word IN EncodeLow(0, low \div 128, 0, low % 128)

\* pb_encode_varint()
EncodeVarint(value) ==
    IF value <= 127 THEN <<value>>
    ELSE LET low == value % 2 ^ Word
         IN EncodeLow(0, low \div 128, value \div 2 ^ Word, low % 128)

\* pb_encode_tag_for_field()
EncodeTag(field) ==
    EncodeVarint(8 * field.tag + (IF field.l \in Scalar THEN Varint ELSE Delimited))

\* pb_enc_bool() and pb_enc_varint(): a negative number in Long bits
EncScalar(field, v) ==
    IF field.l = "bool" THEN <<IF v THEN 1 ELSE 0>>
    ELSE EncodeVarint(IF v < 0 THEN v + 2 ^ Long ELSE v)

\* pb_encode_string()
EncodeString(bytes) == EncodeVarint(Len(bytes)) \o bytes

RECURSIVE EncodeFields(_, _)

\* pb_encode_submessage(): it sizes the message first, which is what gives it
\* its length.
EncSubmessage(msg, v) == EncodeString(EncodeFields(Desc(msg), v))

\* encode_basic_field()
EncodeBasic(field, v) ==
    EncodeTag(field) \o
    CASE field.l \in Scalar -> EncScalar(field, v)
      [] field.l \in {"bytes", "string"} -> EncodeString(v)
      [] field.l = "submsg" -> EncSubmessage(field.sub, v)

\* encode_array(): packed
EncodeArray(field, entries) ==
    IF entries = <<>> THEN <<>>
    ELSE EncodeVarint(8 * field.tag + Delimited)
         \o EncodeString(FlattenSeq([i \in DOMAIN entries |-> EncScalar(field, entries[i])]))

\* pb_check_proto3_default_value()
IsDefault(field, v) == v = ZeroField(field)

\* encode_field()
EncodeField(field, m) ==
    CASE field.h = "oneof" -> IF m.which = field.tag THEN EncodeBasic(field, m.body) ELSE <<>>
      [] field.h = "optional" ->
             IF m[field.name].has THEN EncodeBasic(field, m[field.name].v) ELSE <<>>
      [] field.h = "repeated" -> EncodeArray(field, m[field.name])
      [] OTHER -> IF IsDefault(field, m[field.name]) THEN <<>>
                  ELSE EncodeBasic(field, m[field.name])

EncodeFields(desc, m) == FlattenSeq([i \in DOMAIN desc |-> EncodeField(desc[i], m)])

\* pb_encode() into cap bytes: pb_write() refuses what does not fit
Encode(msg, m, cap) ==
    LET out == EncodeFields(Desc(msg), m)
    IN IF Len(out) > cap THEN Fail ELSE Done(out, <<>>)
=============================================================================
