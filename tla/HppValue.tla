------------------------------ MODULE HppValue ------------------------------
(***************************************************************************)
(* Values of basic_json (src/json/json.hpp), as records of module Json,    *)
(* and their writing, in the binary formats and as text.                   *)
(* Bytes are 0..255.  The 64-bit numbers are their eight bytes, from the   *)
(* most significant one: two's complement for the type integer, IEEE 754   *)
(* for the type float.  The members of an object are in the order of their *)
(* keys (std::map).                                                        *)
(***************************************************************************)
EXTENDS Json

HInteger(s) == Leaf("integer", 0, s)
HUnsigned(s) == Leaf("unsigned", 0, s)
HFloat(s) == Leaf("float", 0, s)
HBinary(subtype, s) == Leaf("binary", subtype, s)
NoSubtype == -1

-----------------------------------------------------------------------------
(* Integers of w bytes in eight bytes, and back.                           *)
Low(s, w) == SubSeq(s, 9 - w, 8)
Negative(s) == s[1] >= 128
UFits(s, w) == \A i \in 1..8 - w : s[i] = 0
SFits(s, w) == \A i \in 1..8 - w : s[i] = (IF s[9 - w] >= 128 THEN 255 ELSE 0)
Filled(byte, b) == [i \in 1..8 - Len(b) |-> byte] \o b
Unsigned(b) == Filled(0, b)
Signed(b) == Filled(IF b[1] >= 128 THEN 255 ELSE 0, b)
Complement(s) == [i \in DOMAIN s |-> 255 - s[i]]    \* -1 - s

(* The bytes of a length, and the length of bytes: every one above HUGE is *)
(* HUGE, which is more than any input has.                                 *)
HUGE == 2147483647
Bytes(n) == <<0, 0, 0, 0, n \div 16777216, (n \div 65536) % 256, (n \div 256) % 256, n % 256>>
LengthOf(s) ==
  IF UFits(s, 4) /\ s[5] < 128 THEN ((s[5] * 256 + s[6]) * 256 + s[7]) * 256 + s[8] ELSE HUGE

(* Decimal digits of an unsigned number, and back: overflow leaves a ninth *)
(* byte.                                                                   *)
RECURSIVE Digits(_)
RECURSIVE Divided(_, _)
Divided(s, r) ==     \* the quotient by 10 of r before s, and the remainder
  IF s = << >> THEN <<r>> ELSE <<(r * 256 + s[1]) \div 10>> \o Divided(Tail(s), (r * 256 + s[1]) % 10)
WithUnit(d) == Append(IF \A i \in 1..8 : d[i] = 0 THEN << >> ELSE Digits(Front(d)), 48 + Last(d))
Digits(s) == WithUnit(Divided(s, 0))

RECURSIVE TenTimes(_, _)
TenTimes(s, d) ==     \* 10 * s + d, with a byte more
  IF s = << >> THEN <<d>> ELSE Append(TenTimes(Front(s), (Last(s) * 10 + d) \div 256), (Last(s) * 10 + d) % 256)
Shortest(s) == IF s[1] = 0 THEN Tail(s) ELSE s
RECURSIVE FromDigits(_)
WithDigit(s, c) == IF Len(s) = 8 THEN Shortest(TenTimes(s, c - 48)) ELSE s
FromDigits(text) == IF text = << >> THEN Bytes(0) ELSE WithDigit(FromDigits(Front(text)), Last(text))

-----------------------------------------------------------------------------
(* Floating point: the double of a sign, an exponent and the 23 first bits *)
(* of its mantissa, and the one of m * 2^p for 0 < m < 2^24.               *)
Double(sign, e, m) ==
  <<sign * 128 + e \div 16, (e % 16) * 16 + m \div 524288, (m \div 2048) % 256, (m \div 8) % 256, (m % 8) * 32, 0, 0, 0>>
Scaled(sign, m, p) ==
  LET k == CHOOSE k \in 0..23 : 2^k <= m /\ m < 2^(k + 1)
  IN Double(sign, k + p + 1023, (m - 2^k) * 2^(23 - k))

Exponent(s) == (s[1] % 128) * 16 + s[2] \div 16
Mantissa23(s) == (s[2] % 16) * 524288 + s[3] * 2048 + s[4] * 8 + s[5] \div 32
Exact23(s) == s[5] % 32 = 0 /\ s[6] = 0 /\ s[7] = 0 /\ s[8] = 0
IsNaN(s) == Exponent(s) = 2047 /\ (Mantissa23(s) # 0 \/ ~Exact23(s))
IsInf(s) == Exponent(s) = 2047 /\ Mantissa23(s) = 0 /\ Exact23(s)

(* static_cast<double>(float)                                              *)
FloatToDouble(b) ==
  LET sign == b[1] \div 128
      e == (b[1] % 128) * 2 + b[2] \div 128
      m == (b[2] % 128) * 65536 + b[3] * 256 + b[4]
  IN CASE e = 0 /\ m = 0 -> Double(sign, 0, 0)
       [] e = 0 /\ m # 0 -> Scaled(sign, m, -149)
       [] e = 255 -> Double(sign, 2047, m)
       [] OTHER -> Scaled(sign, m + 8388608, e - 150)

(* static_cast<float>(double) gives the same number.                       *)
FitsFloat(s) ==
  /\ Exact23(s)
  /\ \/ Exponent(s) = 0 /\ Mantissa23(s) = 0
     \/ Exponent(s) \in 897..1150
     \/ Exponent(s) \in 874..896 /\ (Mantissa23(s) + 8388608) % 2^(897 - Exponent(s)) = 0
ToFloat(s) ==
  LET e == IF Exponent(s) \in 897..1150 THEN Exponent(s) - 896 ELSE 0
      m == CASE Exponent(s) = 0 -> 0
             [] Exponent(s) \in 874..896 -> (Mantissa23(s) + 8388608) \div 2^(897 - Exponent(s))
             [] OTHER -> Mantissa23(s)
  IN <<(s[1] \div 128) * 128 + e \div 2, (e % 2) * 128 + m \div 65536, (m \div 256) % 256, m % 256>>

-----------------------------------------------------------------------------
(* Lexicographic order of keys.                                            *)
KeyLess(x, y) ==
  \/ Len(x) < Len(y) /\ SubSeq(y, 1, Len(x)) = x
  \/ \E i \in 1..Len(x) : i <= Len(y) /\ x[i] < y[i] /\ SubSeq(x, 1, i - 1) = SubSeq(y, 1, i - 1)

(* object_t::operator[](key) = value: a new key goes to its place.         *)
SetMember(v, key, value) ==
  LET i == IndexOf(v, key)
      before == SelectSeq(v.kids, LAMBDA m : KeyLess(m.k, key))
  IN IF i # 0 THEN [v EXCEPT !.kids[i].v = value]
     ELSE [v EXCEPT !.kids = before \o <<[k |-> key, v |-> value]>> \o SubSeq(v.kids, Len(before) + 1, Len(v.kids))]

(* The number that a value holds whatever its type: what is read back of   *)
(* an integer that is not negative is unsigned in some formats.            *)
RECURSIVE Plain(_)
Plain(v) ==
  CASE v.t = "integer" /\ ~Negative(v.s) -> HUnsigned(v.s)
    [] v.t \in {"array", "object"} -> [v EXCEPT !.kids = [i \in DOMAIN v.kids |-> [k |-> v.kids[i].k, v |-> Plain(v.kids[i].v)]]]
    [] OTHER -> v
-----------------------------------------------------------------------------

(* class binary_writer of src/json/json.hpp: CBOR, MessagePack, UBJSON and *)
(* BSON.  A writer returns the bytes that it gives to its output adapter.  *)

(* The values of f on the members of a container, one after the other.     *)
Each(v, f(_)) == FoldLeft(LAMBDA acc, m : acc \o f(m), << >>, v.kids)

(* The first of the widths in which s holds, and its place among them.     *)
WidthOf(s, widths, fits(_, _)) == widths[Min({i \in DOMAIN widths : fits(s, widths[i])})]
PlaceOf(s, widths, fits(_, _)) == Min({i \in DOMAIN widths : fits(s, widths[i])})

-----------------------------------------------------------------------------
(* Variant: the limit of the numbers in the first byte is one more.        *)
cbor_head24(base, s) ==
  IF UFits(s, 1) /\ s[8] <= 24 THEN <<base + s[8]>>
  ELSE <<base + 23 + PlaceOf(s, <<1, 2, 4, 8>>, UFits)>> \o Low(s, WidthOf(s, <<1, 2, 4, 8>>, UFits))

(* CBOR: the type is in the three high bits of the first byte, which is    *)
(* base; the number or length in its low bits or in the bytes after it.    *)
cbor_head(base, s) ==
  IF UFits(s, 1) /\ s[8] <= 23 THEN <<base + s[8]>>
  ELSE <<base + 23 + PlaceOf(s, <<1, 2, 4, 8>>, UFits)>> \o Low(s, WidthOf(s, <<1, 2, 4, 8>>, UFits))

cbor_integer(s) == IF Negative(s) THEN cbor_head(32, Complement(s)) ELSE cbor_head(0, s)
cbor_unsigned(s) == cbor_head(0, s)

write_compact_float(s, float32, float64) ==
  IF FitsFloat(s) THEN <<float32>> \o ToFloat(s) ELSE <<float64>> \o s

cbor_float(s) ==
  CASE IsNaN(s) -> <<249, 126, 0>>
    [] IsInf(s) -> <<249, IF s[1] < 128 THEN 124 ELSE 252, 0>>
    [] OTHER -> write_compact_float(s, 250, 251)

cbor_string(s) == cbor_head(96, Bytes(Len(s))) \o s
cbor_binary(v) ==
  (IF v.n = NoSubtype THEN << >> ELSE <<216, v.n>>) \o cbor_head(64, Bytes(Len(v.s))) \o v.s

RECURSIVE write_cbor(_)
cbor_array(v) == cbor_head(128, Bytes(Len(v.kids))) \o Each(v, LAMBDA m : write_cbor(m.v))
cbor_object(v) == cbor_head(160, Bytes(Len(v.kids))) \o Each(v, LAMBDA m : cbor_string(m.k) \o write_cbor(m.v))
write_cbor(v) ==
  CASE v.t = "null" -> <<246>>
    [] v.t = "boolean" -> <<244 + v.n>>
    [] v.t = "integer" -> cbor_integer(v.s)
    [] v.t = "unsigned" -> cbor_unsigned(v.s)
    [] v.t = "float" -> cbor_float(v.s)
    [] v.t = "string" -> cbor_string(v.s)
    [] v.t = "binary" -> cbor_binary(v)
    [] v.t = "array" -> cbor_array(v)
    [] v.t = "object" -> cbor_object(v)

-----------------------------------------------------------------------------
(* MessagePack                                                             *)
msgpack_unsigned(s) ==
  IF UFits(s, 1) /\ s[8] < 128 THEN <<s[8]>>
  ELSE <<203 + PlaceOf(s, <<1, 2, 4, 8>>, UFits)>> \o Low(s, WidthOf(s, <<1, 2, 4, 8>>, UFits))

msgpack_integer(s) ==
  CASE ~Negative(s) -> msgpack_unsigned(s)
    [] Negative(s) /\ SFits(s, 1) /\ s[8] >= 224 -> <<s[8]>>
    [] OTHER -> <<207 + PlaceOf(s, <<1, 2, 4, 8>>, SFits)>> \o Low(s, WidthOf(s, <<1, 2, 4, 8>>, SFits))

(* A length that is put in the first byte, up to limit, or in one of the   *)
(* widths.                                                                 *)
msgpack_head(fixed, limit, first, widths, n) ==
  IF n <= limit THEN <<fixed + n>>
  ELSE <<first + PlaceOf(Bytes(n), widths, UFits) - 1>> \o Low(Bytes(n), WidthOf(Bytes(n), widths, UFits))

msgpack_string(s) == msgpack_head(160, 31, 217, <<1, 2, 4>>, Len(s)) \o s

msgpack_binary(v) ==
  LET n == Len(v.s)
      fixext == {1, 2, 4, 8, 16}
      head == CASE v.n = NoSubtype -> msgpack_head(0, -1, 196, <<1, 2, 4>>, n)
                [] v.n # NoSubtype /\ n \in fixext -> <<212 + Cardinality({k \in fixext : k < n})>>
                [] OTHER -> msgpack_head(0, -1, 199, <<1, 2, 4>>, n)
  IN head \o (IF v.n = NoSubtype THEN << >> ELSE <<v.n>>) \o v.s

RECURSIVE write_msgpack(_)
msgpack_array(v) == msgpack_head(144, 15, 220, <<2, 4>>, Len(v.kids)) \o Each(v, LAMBDA m : write_msgpack(m.v))
msgpack_object(v) ==
  msgpack_head(128, 15, 222, <<2, 4>>, Len(v.kids)) \o Each(v, LAMBDA m : msgpack_string(m.k) \o write_msgpack(m.v))
write_msgpack(v) ==
  CASE v.t = "null" -> <<192>>
    [] v.t = "boolean" -> <<194 + v.n>>
    [] v.t = "integer" -> msgpack_integer(v.s)
    [] v.t = "unsigned" -> msgpack_unsigned(v.s)
    [] v.t = "float" -> write_compact_float(v.s, 202, 203)
    [] v.t = "string" -> msgpack_string(v.s)
    [] v.t = "binary" -> msgpack_binary(v)
    [] v.t = "array" -> msgpack_array(v)
    [] v.t = "object" -> msgpack_object(v)

-----------------------------------------------------------------------------
(* UBJSON: types are letters.                                              *)
Ch == [Z |-> 90, T |-> 84, F |-> 70, i |-> 105, U |-> 85, I |-> 73, l |-> 108, L |-> 76, H |-> 72, d |-> 100, D |-> 68,
       S |-> 83, C |-> 67, N |-> 78, array |-> 91, end_array |-> 93, object |-> 123, end_object |-> 125,
       type |-> 36, count |-> 35]

(* The letter of the smallest type that holds an integer; one byte may be  *)
(* unsigned.                                                               *)
ubjson_integer_prefix(v) ==
  LET s == v.s
      Fits(w) == IF v.t = "unsigned" THEN UFits(s, w) /\ s[9 - w] < 128 ELSE SFits(s, w)
      Letter(widths, byte) ==
        CASE 1 \in widths -> Ch.i
          [] 1 \notin widths /\ byte -> Ch.U
          [] ~byte /\ widths = {2, 4, 8} -> Ch.I
          [] ~byte /\ widths = {4, 8} -> Ch.l
          [] ~byte /\ widths = {8} -> Ch.L
          [] OTHER -> Ch.H
  IN Letter({w \in {1, 2, 4, 8} : Fits(w)}, UFits(s, 1))

ubjson_prefix(v) ==
  CASE v.t = "null" -> Ch.Z
    [] v.t = "boolean" -> IF v.n = 1 THEN Ch.T ELSE Ch.F
    [] v.t \in {"integer", "unsigned"} -> ubjson_integer_prefix(v)
    [] v.t = "float" -> Ch.D
    [] v.t = "string" -> Ch.S
    [] v.t \in {"array", "binary"} -> Ch.array
    [] v.t = "object" -> Ch.object

Prefixed(c, add_prefix) == IF add_prefix THEN <<c>> ELSE << >>

RECURSIVE write_number_with_ubjson_prefix(_, _)
write_number_with_ubjson_prefix(v, add_prefix) ==
  LET Decimal(digits) == write_number_with_ubjson_prefix(HUnsigned(Bytes(Len(digits))), TRUE) \o digits
      Number(c) ==
        Prefixed(c, add_prefix) \o
          (CASE c \in {Ch.i, Ch.U} -> Low(v.s, 1)
             [] c = Ch.I -> Low(v.s, 2)
             [] c = Ch.l -> Low(v.s, 4)
             [] c \in {Ch.L, Ch.D} -> v.s
             [] c = Ch.H -> Decimal(Digits(v.s)))
  IN Number(ubjson_prefix(v))

ubjson_size(n) == write_number_with_ubjson_prefix(HUnsigned(Bytes(n)), TRUE)
ubjson_count(n, use_count) == IF use_count THEN <<Ch.count>> \o ubjson_size(n) ELSE << >>
ubjson_end(c, use_count) == IF use_count THEN << >> ELSE <<c>>

(* The letter of all the values of a container: none if it is not the same.*)
same_prefix(v, use_type) ==
  LET Same(letters) == IF Cardinality(letters) = 1 THEN letters ELSE {}
  IN IF use_type THEN Same({ubjson_prefix(v.kids[i].v) : i \in DOMAIN v.kids}) ELSE {}
ubjson_type(same) == IF same = {} THEN << >> ELSE <<Ch.type, CHOOSE c \in same : TRUE>>

ubjson_binary(v, use_count, use_type) ==
  (IF use_type /\ v.s # << >> THEN <<Ch.type, Ch.U>> ELSE << >>)
    \o ubjson_count(Len(v.s), use_count)
    \o (IF use_type THEN v.s ELSE FoldLeft(LAMBDA acc, b : acc \o <<Ch.U, b>>, << >>, v.s))
    \o ubjson_end(Ch.end_array, use_count)

RECURSIVE write_ubjson(_, _, _, _)
ubjson_array(v, use_count, use_type, same) ==
  ubjson_type(same) \o ubjson_count(Len(v.kids), use_count)
    \o Each(v, LAMBDA m : write_ubjson(m.v, use_count, use_type, same = {}))
    \o ubjson_end(Ch.end_array, use_count)
ubjson_object(v, use_count, use_type, same) ==
  ubjson_type(same) \o ubjson_count(Len(v.kids), use_count)
    \o Each(v, LAMBDA m : ubjson_size(Len(m.k)) \o m.k \o write_ubjson(m.v, use_count, use_type, same = {}))
    \o ubjson_end(Ch.end_object, use_count)
write_ubjson(v, use_count, use_type, add_prefix) ==
  LET body == CASE v.t \in {"null", "boolean"} -> << >>
                [] v.t \in {"integer", "unsigned", "float"} -> write_number_with_ubjson_prefix(v, FALSE)
                [] v.t = "string" -> ubjson_size(Len(v.s)) \o v.s
                [] v.t = "binary" -> ubjson_binary(v, use_count, use_type)
                [] v.t = "array" -> ubjson_array(v, use_count, use_type, same_prefix(v, use_type))
                [] v.t = "object" -> ubjson_object(v, use_count, use_type, same_prefix(v, use_type))
  IN Prefixed(ubjson_prefix(v), add_prefix) \o body

-----------------------------------------------------------------------------
(* BSON: numbers are little-endian, sizes are computed before the content. *)
(* The exceptions of BSON are tested first: 317 for a value that is not an *)
(* object, 409 for a key with a NUL, 407 for a number over the maximum of  *)
(* int64.                                                                  *)
to_string(n) == Digits(Bytes(n))
BsonNames(v) == IF v.t = "array" THEN [i \in DOMAIN v.kids |-> to_string(i - 1)] ELSE [i \in DOMAIN v.kids |-> v.kids[i].k]
SumOf(q) == FoldLeft(+, 0, q)

calc_bson_entry_header_size(name) == 1 + Len(name) + 1
calc_bson_integer_size(v) == IF SFits(v.s, 4) /\ (v.t = "integer" \/ ~Negative(v.s)) THEN 4 ELSE 8

RECURSIVE calc_bson_element_size(_, _)
calc_bson_object_size(v) ==
  4 + SumOf([i \in DOMAIN v.kids |-> calc_bson_element_size(BsonNames(v)[i], v.kids[i].v)]) + 1
calc_bson_element_size(name, v) ==
  calc_bson_entry_header_size(name) +
    (CASE v.t \in {"array", "object"} -> calc_bson_object_size(v)
       [] v.t \in {"binary", "string"} -> 4 + Len(v.s) + 1
       [] v.t = "boolean" -> 1
       [] v.t = "float" -> 8
       [] v.t \in {"integer", "unsigned"} -> calc_bson_integer_size(v)
       [] v.t = "null" -> 0)

(* write_number<int32_t, true>                                             *)
LittleEndian(s, w) == Reverse(Low(s, w))
bson_int32(n) == LittleEndian(Bytes(n), 4)
write_bson_entry_header(name, element_type) == <<element_type>> \o name \o <<0>>

write_bson_integer(name, v) ==
  IF calc_bson_integer_size(v) = 4 THEN write_bson_entry_header(name, 16) \o LittleEndian(v.s, 4)
                                   ELSE write_bson_entry_header(name, 18) \o LittleEndian(v.s, 8)
write_bson_string(name, s) == write_bson_entry_header(name, 2) \o bson_int32(Len(s) + 1) \o s \o <<0>>
write_bson_binary(name, v) ==
  write_bson_entry_header(name, 5) \o bson_int32(Len(v.s)) \o <<IF v.n = NoSubtype THEN 0 ELSE v.n>> \o v.s

RECURSIVE write_bson_element(_, _)
write_bson_object(v) ==
  bson_int32(calc_bson_object_size(v))
    \o FoldLeft(LAMBDA acc, i : acc \o write_bson_element(BsonNames(v)[i], v.kids[i].v), << >>, [i \in DOMAIN v.kids |-> i])
    \o <<0>>
write_bson_element(name, v) ==
  CASE v.t = "object" -> write_bson_entry_header(name, 3) \o write_bson_object(v)
    [] v.t = "array" -> write_bson_entry_header(name, 4) \o write_bson_object(v)
    [] v.t = "binary" -> write_bson_binary(name, v)
    [] v.t = "boolean" -> write_bson_entry_header(name, 8) \o <<v.n>>
    [] v.t = "float" -> write_bson_entry_header(name, 1) \o LittleEndian(v.s, 8)
    [] v.t \in {"integer", "unsigned"} -> write_bson_integer(name, v)
    [] v.t = "string" -> write_bson_string(name, v.s)
    [] v.t = "null" -> write_bson_entry_header(name, 10)

RECURSIVE BsonRefuses(_)
BsonRefuses(v) ==
  \/ v.t = "unsigned" /\ Negative(v.s)
  \/ v.t = "object" /\ \E i \in DOMAIN v.kids : 0 \in ToSet(v.kids[i].k)
  \/ \E i \in DOMAIN v.kids : BsonRefuses(v.kids[i].v)
write_bson(v) ==
  IF v.t # "object" \/ BsonRefuses(v) THEN [ok |-> FALSE, out |-> << >>] ELSE [ok |-> TRUE, out |-> write_bson_object(v)]

-----------------------------------------------------------------------------
(* class serializer of src/json/json.hpp: a value to a text, and to_chars, *)
(* which writes the decimal digits that grisu2 finds for a float.          *)

CONSTANTS StringBuffer,   \* the size of string_buffer
          grisu2(_)       \* the digits and the decimal exponent of a double that is not zero
ASSUME StringBufferAssumption == StringBuffer \in Nat /\ StringBuffer > 16

-----------------------------------------------------------------------------
(* decode: the classes of the bytes and the states of the automaton.       *)
UTF8_ACCEPT == 0
UTF8_REJECT == 1
utf8_type(byte) ==
  CASE byte <= 127 -> 0
    [] byte \in 128..143 -> 1 [] byte \in 144..159 -> 9 [] byte \in 160..191 -> 7
    [] byte \in {192, 193} -> 8 [] byte \in 194..223 -> 2
    [] byte = 224 -> 10 [] byte = 237 -> 4 [] byte \in (225..239) \ {237} -> 3
    [] byte = 240 -> 11 [] byte \in 241..243 -> 6 [] byte = 244 -> 5 [] OTHER -> 8
utf8_first == [t \in 0..11 |-> <<0, 1, 2, 3, 5, 8, 7, 1, 1, 1, 4, 6>>[t + 1]]
utf8_next(state, type) ==
  CASE state = 0 -> utf8_first[type]
    [] state = 2 /\ type \in {1, 7, 9} -> 0
    [] state = 3 /\ type \in {1, 7, 9} -> 2
    [] state = 4 /\ type = 7 -> 2
    [] state = 5 /\ type \in {1, 9} -> 2
    [] state = 6 /\ type \in {7, 9} -> 3
    [] state = 7 /\ type \in {1, 7, 9} -> 3
    [] state = 8 /\ type = 1 -> 3
    [] OTHER -> UTF8_REJECT
decode(d, byte) ==
  LET Next(type) ==
        [d EXCEPT !.state = utf8_next(@, type),
                  !.codepoint = IF d.state # UTF8_ACCEPT THEN @ * 64 + (byte % 64) ELSE byte % (IF type < 8 THEN 2^(8 - type) ELSE 1)]
  IN Next(utf8_type(byte))

-----------------------------------------------------------------------------
(* dump_escaped: out is what was written, buf the bytes of string_buffer,  *)
(* last bytes_after_last_accept, undumped undumped_chars.                  *)
HexDigit(n) == IF n < 10 THEN 48 + n ELSE 87 + n
Escaped4(n) == <<92, 117, HexDigit(n \div 4096), HexDigit((n \div 256) % 16), HexDigit((n \div 16) % 16), HexDigit(n % 16)>>
Shorts == <<<<8, 98>>, <<9, 116>>, <<10, 110>>, <<12, 102>>, <<13, 114>>, <<34, 34>>, <<92, 92>>>>

(* What is added for a code point whose last byte is byte.                 *)
escape_codepoint(cp, byte, ensure_ascii) ==
  LET escaped == cp <= 31 \/ (ensure_ascii /\ cp >= 127)
      Long(i) ==
        CASE i # 0 -> <<92, Shorts[i][2]>>
          [] i = 0 /\ escaped /\ cp <= 65535 -> Escaped4(cp)
          [] i = 0 /\ escaped /\ cp > 65535 -> Escaped4(55232 + cp \div 1024) \o Escaped4(56320 + (cp % 1024))
          [] OTHER -> <<byte>>
  IN Long(SelectInSeq(Shorts, LAMBDA x : x[1] = cp))

(* Variant: one byte too late.                                             *)
flush_bufferLate(d) ==
  LET Accepted(e) == [e EXCEPT !.last = Len(e.buf)]
  IN Accepted(IF StringBuffer - Len(d.buf) < 12 THEN [d EXCEPT !.out = @ \o d.buf, !.buf = << >>] ELSE d)

(* Write the buffer when less than 13 bytes are left in it.                *)
flush_buffer(d) ==
  LET Accepted(e) == [e EXCEPT !.last = Len(e.buf)]
  IN Accepted(IF StringBuffer - Len(d.buf) < 13 THEN [d EXCEPT !.out = @ \o d.buf, !.buf = << >>] ELSE d)

Replacement(ensure_ascii) == IF ensure_ascii THEN Escaped4(65533) ELSE <<239, 191, 189>>

(* snprintf writes a NUL after the escaped code points: over tells that it *)
(* is out of the buffer.                                                   *)
utf8_accept(d, byte, ensure_ascii) ==
  LET Over(text) == Len(d.buf) + Len(text) + (IF Len(text) >= 6 THEN 1 ELSE 0) > StringBuffer
      Add(text) == flush_buffer([d EXCEPT !.buf = @ \o text, !.over = @ \/ Over(text), !.undumped = 0, !.i = @ + 1])
  IN Add(escape_codepoint(d.codepoint, byte, ensure_ascii))

(* A byte that ends a sequence wrongly is read again for itself.           *)
utf8_reject(d, error_handler, ensure_ascii) ==
  LET Repair(again) == IF error_handler = "ignore" THEN again ELSE flush_buffer([again EXCEPT !.buf = @ \o Replacement(ensure_ascii)])
  IN IF error_handler = "strict" THEN [d EXCEPT !.ok = FALSE]
     ELSE Repair([d EXCEPT !.i = IF d.undumped > 0 THEN @ ELSE @ + 1, !.buf = SubSeq(@, 1, d.last),
                           !.undumped = 0, !.state = UTF8_ACCEPT])

utf8_more(d, byte, ensure_ascii) ==
  [d EXCEPT !.buf = IF ensure_ascii THEN @ ELSE Append(@, byte), !.over = @ \/ (~ensure_ascii /\ Len(d.buf) >= StringBuffer),
            !.undumped = @ + 1, !.i = @ + 1]

(* The end of the string: a sequence may be incomplete.                    *)
dump_end(d, error_handler, ensure_ascii) ==
  LET accepted == [d EXCEPT !.out = @ \o SubSeq(d.buf, 1, d.last)]
  IN CASE d.state = UTF8_ACCEPT -> [d EXCEPT !.out = @ \o d.buf]
       [] d.state # UTF8_ACCEPT /\ error_handler = "strict" -> [d EXCEPT !.ok = FALSE]
       [] d.state # UTF8_ACCEPT /\ error_handler = "ignore" -> accepted
       [] OTHER -> [accepted EXCEPT !.out = @ \o Replacement(ensure_ascii)]

RECURSIVE DumpFrom(_, _, _, _)
DumpFrom(s, d, error_handler, ensure_ascii) ==
  LET Decoded(e) ==
        CASE e.state = UTF8_ACCEPT -> utf8_accept(e, s[d.i], ensure_ascii)
          [] e.state = UTF8_REJECT -> utf8_reject(e, error_handler, ensure_ascii)
          [] OTHER -> utf8_more(e, s[d.i], ensure_ascii)
  IN CASE ~d.ok -> d
       [] d.ok /\ d.i > Len(s) -> dump_end(d, error_handler, ensure_ascii)
       [] OTHER -> DumpFrom(s, Decoded(decode(d, s[d.i])), error_handler, ensure_ascii)
dump_escaped(s, error_handler, ensure_ascii) ==
  DumpFrom(s, [i |-> 1, state |-> UTF8_ACCEPT, codepoint |-> 0, out |-> << >>, buf |-> << >>, last |-> 0, undumped |-> 0,
               over |-> FALSE, ok |-> TRUE], error_handler, ensure_ascii)

-----------------------------------------------------------------------------
(* Numbers.  remove_sign(x) is -(x + 1) + 1, in unsigned numbers.          *)
Successor(s) ==
  LET last == Max({i \in 1..8 : s[i] # 255} \cup {0})
  IN [i \in 1..8 |-> IF i > last THEN 0 ELSE IF i = last THEN s[i] + 1 ELSE s[i]]
remove_sign(s) == Successor(Complement(s))
dump_integer(v) == IF v.t = "integer" /\ Negative(v.s) THEN <<45>> \o Digits(remove_sign(v.s)) ELSE Digits(v.s)
dump_byte(n) == Digits(Bytes(n))

append_exponent(e) ==
  LET k == IF e < 0 THEN -e ELSE e
      digits == IF k < 100 THEN <<48 + k \div 10, 48 + (k % 10)>> ELSE <<48 + k \div 100, 48 + ((k \div 10) % 10), 48 + (k % 10)>>
  IN <<IF e < 0 THEN 45 ELSE 43>> \o digits

Zeros(n) == [i \in 1..n |-> 48]
format_buffer(buf, decimal_exponent, min_exp, max_exp) ==
  LET k == Len(buf)
      n == k + decimal_exponent
  IN CASE k <= n /\ n <= max_exp -> buf \o Zeros(n - k) \o <<46, 48>>
       [] 0 < n /\ n < k /\ n <= max_exp -> SubSeq(buf, 1, n) \o <<46>> \o SubSeq(buf, n + 1, k)
       [] min_exp < n /\ n <= 0 -> <<48, 46>> \o Zeros(-n) \o buf
       [] OTHER -> (IF k = 1 THEN buf ELSE <<buf[1], 46>> \o Tail(buf)) \o <<101>> \o append_exponent(n - 1)

kMinExp == -4
kMaxExp == 15
Magnitude(s) == [s EXCEPT ![1] = @ % 128]
to_chars(s) ==
  LET Formatted(g) == format_buffer(g.digits, g.exponent, kMinExp, kMaxExp)
  IN (IF Negative(s) THEN <<45>> ELSE << >>)
       \o (IF Magnitude(s) = Bytes(0) THEN <<48, 46, 48>> ELSE Formatted(grisu2(Magnitude(s))))

null_text == <<110, 117, 108, 108>>
dump_float(s) == IF IsNaN(s) \/ IsInf(s) THEN null_text ELSE to_chars(s)

-----------------------------------------------------------------------------
(* dump: indentation is made of spaces.  style is [pretty, step, ascii,    *)
(* handler].                                                               *)
Spaces(n) == [i \in 1..n |-> 32]
NewLine(style, indent) == IF style.pretty THEN <<10>> \o Spaces(indent) ELSE << >>
Colon(style) == IF style.pretty THEN <<58, 32>> ELSE <<58>>

(* Items between brackets, each one on its line when pretty.               *)
dump_container(open, close, items, style, indent) ==
  LET inside == NewLine(style, indent + style.step)
      All == FoldLeft(LAMBDA acc, item : acc \o (IF acc = << >> THEN << >> ELSE <<44>>) \o inside \o item, << >>, items)
  IN IF items = << >> THEN <<open, close>> ELSE <<open>> \o All \o NewLine(style, indent) \o <<close>>

dump_string(s, style) == <<34>> \o dump_escaped(s, style.handler, style.ascii).out \o <<34>>
dump_member(key, text, style) == key \o Colon(style) \o text

Literal(text) == <<34>> \o text \o <<34>>
BytesKey == <<98, 121, 116, 101, 115>>
SubtypeKey == <<115, 117, 98, 116, 121, 112, 101>>
dump_binary(v, style, indent) ==
  LET comma == IF style.pretty THEN <<44, 32>> ELSE <<44>>
      bytes == FoldLeft(LAMBDA acc, i : acc \o (IF i = 1 THEN << >> ELSE comma) \o dump_byte(v.s[i]), << >>, [i \in DOMAIN v.s |-> i])
      subtype == IF v.n = NoSubtype THEN null_text ELSE dump_byte(v.n)
  IN dump_container(123, 125, <<dump_member(Literal(BytesKey), <<91>> \o bytes \o <<93>>, style), dump_member(Literal(SubtypeKey), subtype, style)>>, style, indent)

RECURSIVE dump(_, _, _)
dump_object(v, style, indent) ==
  dump_container(123, 125, [i \in DOMAIN v.kids |-> dump_member(dump_string(v.kids[i].k, style), dump(v.kids[i].v, style, indent + style.step), style)], style, indent)
dump_array(v, style, indent) ==
  dump_container(91, 93, [i \in DOMAIN v.kids |-> dump(v.kids[i].v, style, indent + style.step)], style, indent)
dump(v, style, indent) ==
  CASE v.t = "object" -> dump_object(v, style, indent)
    [] v.t = "array" -> dump_array(v, style, indent)
    [] v.t = "string" -> dump_string(v.s, style)
    [] v.t = "binary" -> dump_binary(v, style, indent)
    [] v.t = "boolean" -> IF v.n = 1 THEN <<116, 114, 117, 101>> ELSE <<102, 97, 108, 115, 101>>
    [] v.t \in {"integer", "unsigned"} -> dump_integer(v)
    [] v.t = "float" -> dump_float(v.s)
    [] v.t = "null" -> null_text

(* The exception 316 of the strict handler.                                *)
RECURSIVE DumpThrows(_, _)
DumpThrows(v, style) ==
  \/ \E s \in (IF v.t = "string" THEN {v.s} ELSE {}) \cup (IF v.t = "object" THEN {v.kids[i].k : i \in DOMAIN v.kids} ELSE {}) :
       ~dump_escaped(s, style.handler, style.ascii).ok
  \/ \E i \in DOMAIN v.kids : DumpThrows(v.kids[i].v, style)
=============================================================================
