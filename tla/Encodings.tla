------------------------------ MODULE Encodings -----------------------------
(***************************************************************************)
(* The encodings of the library: percent-encoding, base64, then integers.  *)
(***************************************************************************)
EXTENDS Integers, Sequences, SequencesExt, FiniteSetsExt

(* Percent-encoding of src/http/rp-escape.c.  A text is a sequence of      *)
(* char, signed integers of 8 bits.  Each function that fills a buffer     *)
(* gives a record: ret, the length that it returns, and out, the bytes     *)
(* written in the olen bytes of the buffer.  The size of a buffer is always *)
(* computed by another pass than the one that fills it.                    *)

Space == 32
Percent == 37
Amp == 38
Plus == 43
Slash == 47
Equal == 61
Question == 63

(* Everything but [-.0-9A-Z_a-z~] is escaped, negative chars included.     *)
should_escape(c) ==
  IF c <= 90
  THEN IF c < 48 THEN c # 45 /\ c # 46 ELSE c < 65 /\ c > 57
  ELSE IF c <= 122 THEN c < 97 /\ c # 95 ELSE c # 126

bin2hex(f) == IF f < 10 THEN f + 48 ELSE f + 55

hex2bin(c) ==
  CASE c \in 48..57  -> c - 48
    [] c \in 65..70  -> c - 55
    [] c \in 97..102 -> c - 87
    [] OTHER -> -1

(* Conversion of an unsigned byte to char.                                 *)
AsChar(b) == IF b > 127 THEN b - 256 ELSE b

(* What a full pass writes when the buffer has olen bytes: the beginning   *)
(* of the text and, with room left, a terminator.                          *)
Filled(full, olen) ==
  [ret |-> Len(full), out |-> SubSeq(full \o <<0>>, 1, Min({olen, Len(full) + 1}))]

escaped_length(itext) ==
  FoldLeft(LAMBDA r, c : r + (IF c # Space /\ should_escape(c) THEN 3 ELSE 1), 0, itext)

EscapedChar(c) ==
  CASE c = Space -> <<Plus>>
    [] c # Space /\ should_escape(c) ->
         <<Percent, bin2hex((c \div 16) % 16), bin2hex(c % 16)>>
    [] OTHER -> <<c>>

Escaped(itext) == FlattenSeq([i \in DOMAIN itext |-> EscapedChar(itext[i])])

escape_to(itext, olen) == Filled(Escaped(itext), olen)

(* The length of what can be unescaped: up to a % without two digits.      *)
unescapable_length(itext) ==
  LET ilen == Len(itext)
      Stop[i \in 0..ilen] ==
        CASE i = ilen -> i
          [] i < ilen /\ itext[i + 1] # Percent -> Stop[i + 1]
          [] i < ilen /\ itext[i + 1] = Percent ->
               IF i + 3 > ilen THEN i
               ELSE IF hex2bin(itext[i + 2]) < 0 \/ hex2bin(itext[i + 3]) < 0 THEN i
               ELSE Stop[i + 3]
  IN Stop[0]

(* Variant: what cannot be unescaped is not counted.                       *)
unescaped_lengthPercent(itext) ==
  LET ilen == Len(itext)
      Count[i \in 0..ilen + 2] ==
        IF i >= ilen THEN 0
        ELSE IF itext[i + 1] = Percent THEN Count[i + 3] ELSE 1 + Count[i + 1]
  IN Count[0]

(* The first pass counts a character per % and its two followers, whatever *)
(* they are; last is the index of the last byte that it reads, Len(itext)  *)
(* being that of the terminator.                                           *)
unescaped_pass(itext) ==
  LET ilen == Len(itext)
      From[i \in 0..ilen + 2] ==
        IF i >= ilen THEN [r |-> 0, last |-> i]
        ELSE LET next == From[i + (IF itext[i + 1] = Percent THEN 3 ELSE 1)]
             IN [next EXCEPT !.r = @ + 1]
  IN From[0]

unescaped_length(itext) == unescaped_pass(itext).r

Unescaped(itext) ==
  LET ilen == unescapable_length(itext)
      From[i \in 0..ilen] ==
        IF i = ilen THEN << >>
        ELSE IF itext[i + 1] # Percent
             THEN <<IF itext[i + 1] = Plus THEN Space ELSE itext[i + 1]>> \o From[i + 1]
             ELSE <<AsChar(hex2bin(itext[i + 2]) * 16 + hex2bin(itext[i + 3]))>> \o From[i + 3]
  IN From[0]

unescape_to(itext, olen) == Filled(Unescaped(itext), olen)

-----------------------------------------------------------------------------
(* URLs: base, path and arguments, a sequence key, value, key, value...    *)
(* that an odd length ends with a key alone.                               *)

Slashed(base, path) ==
  IF base # << >> /\ Last(base) # Slash /\ path # << >> /\ Head(path) # Slash
  THEN <<Slash>> ELSE << >>

(* Writing stops at length; l counts everything.  The bytes from l on are  *)
(* replaced: the terminator of an argument is overwritten by the next one. *)
Kept(w) == SubSeq(w.buffer, 1, Min({w.l, Len(w.buffer)}))

Put(w, bytes, length) ==
  LET fit == Max({0, Min({Len(bytes), length - w.l})})
  IN [l |-> w.l + Len(bytes), buffer |-> Kept(w) \o SubSeq(bytes, 1, fit)]

(* The separator before args[i]; ? is searched in the l bytes written.     *)
Separator(w, i, prefixed) ==
  CASE i % 2 = 0 -> <<Equal>>
    [] i % 2 = 1 /\ i > 1 -> <<Amp>>
    [] i = 1 -> IF ~prefixed THEN << >>
                ELSE IF Contains(w.buffer, Question) THEN <<Amp>> ELSE <<Question>>

PutArg(w, arg, length) ==
  LET r == escape_to(arg, IF w.l < length THEN length - w.l ELSE 0)
  IN [l |-> w.l + r.ret, buffer |-> Kept(w) \o r.out]

escape_url_to(base, path, args, length) ==
  LET start == Put(Put(Put([l |-> 0, buffer |-> << >>], base, length),
                       Slashed(base, path), length), path, length)
      Upto[n \in 0..Len(args)] ==
        IF n = 0 THEN start
        ELSE LET w == Upto[n - 1]
             IN PutArg(Put(w, Separator(w, n, base # << >> \/ path # << >>), length), args[n], length)
      w == Upto[Len(args)]
  IN [ret |-> w.l, out |-> IF w.l < length THEN Put(w, <<0>>, length).buffer ELSE w.buffer]

rp_escape_url_to(base, path, args, length) == escape_url_to(base, path, args, length)

(* The size is the result of a pass without buffer.                        *)
rp_escape_url(base, path, args) ==
  escape_url_to(base, path, args, escape_url_to(base, path, args, 0).ret + 1)

rp_escape_args(args) == rp_escape_url(<< >>, << >>, args)

rp_escape_str(str) == rp_escape_url(<< >>, << >>, <<str>>)

-----------------------------------------------------------------------------
(* rp_unescape_args cuts the text at '&' and '=' twice: to size the block  *)
(* of memory, then to fill it.                                             *)

(* Length of the leading part of itext, from position z, without a char of *)
(* reject.                                                                 *)
strcspn(itext, z, reject) ==
  LET stops == {k \in z..Len(itext) : itext[k] \in reject}
  IN (IF stops = {} THEN Len(itext) + 1 ELSE Min(stops)) - z

(* The pieces in order: text, and whether it is a value.                   *)
Pieces(args) ==
  LET From[z \in 1..Len(args) + 1, isval \in BOOLEAN] ==
        LET l == strcspn(args, z, IF isval THEN {Amp} ELSE {Amp, Equal})
            piece == [text |-> SubSeq(args, z, z + l - 1), value |-> isval]
            e == z + l
        IN IF e > Len(args) THEN <<piece>>
           ELSE <<piece>> \o From[e + 1, args[e] = Equal]
  IN IF args = << >> THEN << >> ELSE From[1, FALSE]

(* First pass: number of keys and bytes of text, terminators included.     *)
ArgsCount(args) == Len(SelectSeq(Pieces(args), LAMBDA p : ~p.value))

ArgsBytes(args) ==
  FoldLeft(LAMBDA lt, p : lt + 1 + unescaped_length(p.text), 0, Pieces(args))

(* Second pass: each piece is written at p with lt bytes left.  The result *)
(* is the sequence of the texts, keys without value getting the empty text *)
(* that ends their key, and what is left of lt.                            *)
rp_unescape_args(args) ==
  LET pieces == Pieces(args)
      Write[k \in 0..Len(pieces)] ==
        IF k = 0 THEN [texts |-> << >>, lt |-> ArgsBytes(args)]
        ELSE LET before == Write[k - 1]
                 done == unescape_to(pieces[k].text, before.lt)
                 alone == ~pieces[k].value /\ (k = Len(pieces) \/ ~pieces[k + 1].value)
             IN [texts |-> before.texts \o <<Front(done.out)>>
                             \o (IF alone THEN << << >> >> ELSE << >>),
                 lt |-> before.lt - (1 + done.ret)]
  IN Write[Len(pieces)]

(* The index of the value of the first such key; 0 stands for NULL.        *)
rp_unescaped_args_get(texts, key) ==
  LET at == {i \in DOMAIN texts : i % 2 = 1 /\ texts[i] = key}
  IN IF at = {} THEN 0 ELSE Min(at) + 1

-----------------------------------------------------------------------------
rp_escape(text) ==
  [length |-> escaped_length(text), out |-> escape_to(text, escaped_length(text) + 1).out]

rp_unescape(text) ==
  [length |-> unescaped_length(text), out |-> unescape_to(text, unescaped_length(text) + 1).out]

-----------------------------------------------------------------------------
CText(out) == SubSeq(out, 1, SelectInSeq(out, LAMBDA c : c = 0) - 1)

(* rp_escape fills its buffer exactly, and rp_unescape undoes it: no text  *)
(* is cut by the separately computed size, none comes back changed.        *)
EscapeRoundTrips(text) ==
  LET e == rp_escape(text)
      u == rp_unescape(CText(e.out))
  IN /\ Len(e.out) = e.length + 1
     /\ Last(e.out) = 0
     /\ CText(u.out) = text
     /\ u.length = Len(text)

(* Whatever the text given to rp_unescape or rp_unescape_args, malformed   *)
(* escapes included, the second pass writes no more than the first one     *)
(* counted, and every piece gets its terminator.  Beyond the terminator    *)
(* the first pass reads two bytes at most, and only for texts that cannot  *)
(* be unescaped to their end.                                              *)
UnescapeStaysInside(text) ==
  /\ LET last == unescaped_pass(text).last
     IN /\ last \in Len(text)..Len(text) + 2
        /\ last > Len(text) => unescapable_length(text) < Len(text)
  /\ LET u == rp_unescape(text) IN Len(u.out) <= u.length + 1 /\ Last(u.out) = 0
  /\ LET r == rp_unescape_args(text)
     IN r.lt >= 0 /\ Len(r.texts) = 2 * ArgsCount(text)

(* Arguments that are escaped, sent and unescaped come back, in pairs, and *)
(* rp_unescaped_args_get gives to each key its first value.                *)
ArgsComeBack(args) ==
  LET url == CText(rp_escape_args(args).out)
      back == rp_unescape_args(url).texts
      even == IF Len(args) % 2 = 0 THEN args ELSE Append(args, << >>)
  IN url # << >> =>
       /\ back = even
       /\ \A i \in DOMAIN args : i % 2 = 1 =>
            LET v == rp_unescaped_args_get(back, args[i])
            IN v \in 2..(i + 1) /\ v % 2 = 0 /\ back[v - 1] = args[i]

(* rp_escape_url_to writes the beginning of the URL that rp_escape_url     *)
(* makes, whatever the size of the buffer, and always returns its length.  *)
UrlToIsPrefix(base, path, args) ==
  LET whole == rp_escape_url(base, path, args)
  IN /\ Last(whole.out) = 0 /\ Len(whole.out) = whole.ret + 1
     /\ \A length \in 0..whole.ret + 2 :
          LET part == rp_escape_url_to(base, path, args, length)
          IN /\ part.ret = whole.ret
             /\ part.out = SubSeq(whole.out, 1, Min({length, whole.ret + 1}))

-----------------------------------------------------------------------------
(* src/misc/rp-base64.c: data is a sequence of bytes, an encoded text a    *)
(* sequence of character codes.  The length of the text is computed before *)
(* it is written.                                                          *)

NewLine == 10
Return == 13
Pad == 61

(* The character of a 6 bits value.                                        *)
Letter(u8, url) ==
  CASE u8 < 26 -> 65 + u8
    [] u8 \in 26..51 -> 97 + u8 - 26
    [] u8 \in 52..61 -> 48 + u8 - 52
    [] u8 = 62 -> IF url THEN 45 ELSE 43
    [] u8 = 63 -> IF url THEN 95 ELSE 47

OutputLength(datalen) ==
  LET r3 == datalen % 3 IN 4 * (datalen \div 3) + r3 + (IF r3 # 0 THEN 1 ELSE 0)

FormattedLength(nout, width, pad) ==
  LET padded == nout + (IF pad THEN (4 - (nout % 4)) % 4 ELSE 0)
  IN padded + (IF width # 0 THEN padded \div width ELSE 0)

(* The iout-th value: u16 holds the last two bytes read, 0 past the end.   *)
SixBits(data, iout) ==
  LET in == (3 * (iout \div 4)) + (iout % 4)
      Byte(i) == IF i < Len(data) THEN data[i + 1] ELSE 0
      u16 == Byte(in - 1) * 256 + Byte(in)
  IN CASE iout % 4 = 0 -> Byte(in) \div 4
       [] iout % 4 = 1 -> (u16 \div 16) % 64
       [] iout % 4 = 2 -> (u16 \div 64) % 64
       [] iout % 4 = 3 -> Byte(in - 1) % 64

(* A character, and a new line when the line is full; iw counts down the   *)
(* characters of the line (0: no line).                                    *)
PutFormatted(w, c, width) ==
  IF w.iw = 1 THEN [text |-> w.text \o <<c, NewLine>>, iw |-> width]
              ELSE [text |-> Append(w.text, c), iw |-> IF w.iw = 0 THEN 0 ELSE w.iw - 1]

rp_base64_encode(data, width, pad, url) ==
  LET nout == OutputLength(Len(data))
      rlen == FormattedLength(nout, width, pad)
      Encoded[n \in 0..nout] ==
        IF n = 0 THEN [text |-> << >>, iw |-> width]
        ELSE PutFormatted(Encoded[n - 1], Letter(SixBits(data, n - 1), url), width)
      Padded[n \in 0..rlen] ==
        IF n = 0 THEN Encoded[nout]
        ELSE LET w == Padded[n - 1]
             IN IF Len(w.text) < rlen THEN PutFormatted(w, Pad, width) ELSE w
  IN [encoded |-> Padded[rlen].text, encodedlen |-> rlen]

-----------------------------------------------------------------------------
invalid == -1

(* url: 0 for both variants, 1 for the url one, -1 for the standard one.   *)
Value(c, url) ==
  CASE c \in 65..90  -> c - 65
    [] c \in 97..122 -> c - 97 + 26
    [] c \in 48..57  -> c - 48 + 52
    [] c = 45 /\ url >= 0 -> 62
    [] c = 95 /\ url >= 0 -> 63
    [] c = 43 /\ url <= 0 -> 62
    [] c = 47 /\ url <= 0 -> 63
    [] OTHER -> invalid

(* u16 gets 6 more bits; iin is the number of its bits that remain to be   *)
(* output, 0 when a group of four characters starts.                       *)
Shift(s, u8) ==
  IF s.iin = 0 THEN [s EXCEPT !.u16 = u8, !.iin = 6]
  ELSE LET u16 == (s.u16 * 64 + u8) % 65536
           iin == s.iin - 2
       IN [u16 |-> u16, iin |-> iin, out |-> Append(s.out, (u16 \div (2 ^ iin)) % 256)]

(* Decoding ends at a pad, after which only pads and ends of lines come.   *)
rp_base64_decode(data, url) ==
  LET stop == SelectInSeq(data, LAMBDA c : c = Pad)
      head == IF stop = 0 THEN data ELSE SubSeq(data, 1, stop - 1)
      tail == IF stop = 0 THEN << >> ELSE SubSeq(data, stop, Len(data))
      letters == SelectSeq(head, LAMBDA c : c # NewLine /\ c # Return)
      State[n \in 0..Len(letters)] ==
        IF n = 0 THEN [u16 |-> 0, iin |-> 0, out |-> << >>]
        ELSE Shift(State[n - 1], Value(letters[n], url))
      valid == /\ \A i \in DOMAIN letters : Value(letters[i], url) # invalid
               /\ ToSet(tail) \subseteq {Pad, NewLine, Return}
  IN IF valid THEN [ok |-> TRUE, decoded |-> State[Len(letters)].out]
              ELSE [ok |-> FALSE, decoded |-> << >>]

-----------------------------------------------------------------------------
(* The reference: the bits of the data, most significant first.            *)
Bits(data) ==
  [k \in 0..8 * Len(data) - 1 |-> (data[k \div 8 + 1] \div (2 ^ (7 - (k % 8)))) % 2]

(* An encoded text is, out of its format, the bits of the data by groups   *)
(* of 6, zeros completing the last one; its length is the announced one,   *)
(* its lines have width characters, and padding makes groups of 4.         *)
EncodesBits(data, width, pad, url) ==
  LET e == rp_base64_encode(data, width, pad, url)
      text == SelectSeq(e.encoded, LAMBDA c : c # NewLine)
      letters == SelectSeq(text, LAMBDA c : c # Pad)
      bits == Bits(data)
      Bit(k) == IF k < 8 * Len(data) THEN bits[k] ELSE 0
  IN /\ Len(e.encoded) = e.encodedlen
     /\ 6 * Len(letters) \in 8 * Len(data)..8 * Len(data) + 5
     /\ \A k \in 0..6 * Len(letters) - 1 :
          (Value(letters[k \div 6 + 1], IF url THEN 1 ELSE -1) \div (2 ^ (5 - (k % 6)))) % 2 = Bit(k)
     /\ pad => Len(text) % 4 = 0 /\ Len(text) - Len(letters) < 4
     /\ \A i \in DOMAIN e.encoded :
          (e.encoded[i] = NewLine) <=> (width # 0 /\ i % (width + 1) = 0)

(* Decoding gives the data back whatever the lines, the padding and the    *)
(* variant, unless only the other variant is accepted and a letter of its  *)
(* own appears.                                                            *)
DecodeInverts(data, width, pad, url) ==
  LET text == rp_base64_encode(data, width, pad, url).encoded
      own == ToSet(text) \cap (IF url THEN {45, 95} ELSE {43, 47})
  IN \A v \in {-1, 0, 1} :
       LET d == rp_base64_decode(text, v)
       IN IF own # {} /\ v = (IF url THEN -1 ELSE 1) THEN ~d.ok
          ELSE d.ok /\ d.decoded = data
-----------------------------------------------------------------------------
(* src/misc/rp-str2int.c: integers written in base 2, 8, 10 or 16.  A text *)
(* is a sequence of character codes without its terminator.  The widths    *)
(* are smaller than 64 and 32 bits: 2^64 - 1 and UINT64_MAX must leave the *)
(* same remainders when divided by the bases.                              *)

CONSTANTS UINT64_MAX, UINT32_MAX

ASSUME UintAssumption ==
  /\ UINT32_MAX \in Nat /\ UINT64_MAX \in Nat /\ UINT32_MAX < UINT64_MAX
  /\ UINT64_MAX % 10 = 5 /\ UINT64_MAX % 16 = 15

INT64_MAX == UINT64_MAX \div 2
INT32_MAX == UINT32_MAX \div 2

Minus == 45
PlusSign == 43
Underscore == 95

(* Characters of codes outside of letters and digits are of no base.       *)
DigitOf(c) ==
  CASE c \in 65..90  -> c - 65 + 10
    [] c \in 97..122 -> c - 97 + 10
    [] c \in 48..57  -> c - 48
    [] OTHER -> 99

(* What follows the sign: the base and the digits.  A 0 alone is a value;  *)
(* followed by none of the letters it announces octal digits.              *)
Radix(str) ==
  LET Body(base, skip) == [base |-> base, digits |-> SubSeq(str, skip + 1, Len(str))]
  IN IF str = << >> \/ Head(str) # 48 THEN Body(10, 0)
     ELSE IF Len(str) = 1 THEN [base |-> 10, digits |-> <<48>>]
     ELSE CASE str[2] \in {66, 98}  -> Body(2, 2)
            [] str[2] \in {79, 111} -> Body(8, 2)
            [] str[2] \in {68, 100} -> Body(10, 2)
            [] str[2] \in {88, 120} -> Body(16, 2)
            [] OTHER -> Body(8, 1)

Wrap(n) == n % (UINT64_MAX + 1)

failed == -1

(* One more digit, refused when the value is already above max.            *)
Accumulate(val, digit, base) ==
  IF val = failed \/ digit >= base \/ val > UINT64_MAX \div base THEN failed
  ELSE Wrap(val * base + digit)

(* rc: sign of the number, or 0.                                           *)
rp_str2u64(str) ==
  LET signed == str # << >> /\ Head(str) \in {Minus, PlusSign}
      rc == IF signed /\ Head(str) = Minus THEN -1 ELSE 1
      r == Radix(IF signed THEN Tail(str) ELSE str)
      Val[n \in 0..Len(r.digits)] ==
        IF n = 0 THEN 0
        ELSE LET val == Val[n - 1]
             IN IF r.digits[n] = Underscore THEN val ELSE Accumulate(val, DigitOf(r.digits[n]), r.base)
      val == Val[Len(r.digits)]
  IN IF r.digits = << >> \/ val = failed THEN [rc |-> 0, value |-> 0]
     ELSE [rc |-> rc, value |-> val]

rp_str2uint64(str) == LET u == rp_str2u64(str) IN [ok |-> u.rc > 0, value |-> u.value]

(* Variant: the limit of the positive numbers is used for both signs.      *)
SignedStrict(u, max) ==
  [ok |-> u.rc # 0 /\ u.value <= max, value |-> u.rc * u.value]

(* A magnitude of the smallest integer is negated as it is: the machine    *)
(* wraps it to that integer.                                               *)
Signed(u, max) ==
  CASE u.rc < 0 -> [ok |-> u.value <= max + 1, value |-> -u.value]
    [] u.rc > 0 -> [ok |-> u.value <= max, value |-> u.value]
    [] u.rc = 0 -> [ok |-> FALSE, value |-> 0]

rp_str2int64(str) == Signed(rp_str2u64(str), INT64_MAX)
rp_str2int32(str) == Signed(rp_str2u64(str), INT32_MAX)

rp_str2uint32(str) ==
  LET u == rp_str2u64(str) IN [ok |-> u.rc > 0 /\ u.value <= UINT32_MAX, value |-> u.value]

-----------------------------------------------------------------------------
(* The test of overflow is made before the next digit is added, so that    *)
(* the decimals above UINT64_MAX of as many tens as it wrap unseen; in the *)
(* other bases UINT64_MAX ends with the last digit and none does.          *)
Overlooked(n) == n > UINT64_MAX /\ n \div 10 = UINT64_MAX \div 10

(* The number a text denotes: digits of its base, at least one character,  *)
(* underscores ignored.  It is overlooked when its overflow is not seen.   *)
Denotes(str) ==
  LET signed == str # << >> /\ Head(str) \in {Minus, PlusSign}
      r == Radix(IF signed THEN Tail(str) ELSE str)
      digits == SelectSeq(r.digits, LAMBDA c : c # Underscore)
      Sum[n \in 0..Len(digits)] ==
        IF n = 0 THEN 0 ELSE Sum[n - 1] * r.base + DigitOf(digits[n])
  IN IF r.digits = << >> \/ \E i \in DOMAIN digits : DigitOf(digits[i]) >= r.base
     THEN [number |-> FALSE, sign |-> 1, magnitude |-> 0, overlooked |-> FALSE]
     ELSE [number |-> TRUE, sign |-> IF signed /\ Head(str) = Minus THEN -1 ELSE 1,
           magnitude |-> Sum[Len(digits)],
           overlooked |-> r.base = 10 /\ \E n \in DOMAIN digits : Overlooked(Sum[n])]

(* Each of the four functions gives the exact value of a text that denotes *)
(* a number of its type, and refuses any other text.                       *)
ConvertsAll(str) ==
  LET d == Denotes(str)
      v == d.sign * d.magnitude
      Exact(r, low, high, positive) ==
        /\ r.ok <=> d.number /\ v \in low..high /\ (positive => d.sign = 1)
        /\ r.ok => r.value = v
  IN /\ Exact(rp_str2uint64(str), 0, UINT64_MAX, TRUE)
     /\ Exact(rp_str2int64(str), -INT64_MAX - 1, INT64_MAX, FALSE)
     /\ Exact(rp_str2uint32(str), 0, UINT32_MAX, TRUE)
     /\ Exact(rp_str2int32(str), -INT32_MAX - 1, INT32_MAX, FALSE)

(* It is so of all texts but the overlooked numbers, whatever their        *)
(* magnitude; one of these is refused or gives what is left of it once     *)
(* wrapped.                                                                *)
ConvertsExactly(str) ==
  LET d == Denotes(str)
      u == rp_str2u64(str)
  IN IF d.overlooked THEN u.rc # 0 => u.rc = d.sign /\ u.value = Wrap(d.magnitude)
     ELSE ConvertsAll(str)
=============================================================================
