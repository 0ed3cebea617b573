---------------------------- MODULE WebsockProofs ----------------------------
(***************************************************************************)
(* The proofs about the reader of websock.c, for every set of frames, of   *)
(* interfaces and of sizes of reads that the assumptions of Websock allow. *)
(* In turn: the lengths and the header of a frame, written and read; the   *)
(* key of a masked payload; the invariant of the reader; its theorems.     *)
(***************************************************************************)
EXTENDS Websock

(* What FramesAssumption says of a frame.                                  *)
LEMMA FrameFields ==
  ASSUME NEW f \in PeerFrames
  PROVE  /\ f.op \in 0..15 /\ f.fin \in BOOLEAN /\ f.rsv \in 0..7
         /\ f.masked \in BOOLEAN /\ f.len \in Nat
         /\ Fits64(f.len)
BY FramesAssumption

-----------------------------------------------------------------------------
(* Lengths as bytes.                                                       *)

(* The quotients of size by the powers of 256.                             *)
Quotients(q, size) ==
  /\ q \in [0..7 -> Nat]
  /\ q[0] = size /\ \A k \in 1..7 : q[k] = q[k - 1] \div 256

(* The byte of FRAME_SET_LENGTH is the remainder of such a quotient.       *)
LEMMA BytesAreRemainders ==
  ASSUME NEW size \in Nat
  PROVE  \E q : Quotients(q, size) /\ \A i \in 0..7 : FRAME_SET_LENGTH(size, i) = q[i] % 256
<1> DEFINE q == CHOOSE f : f = [k \in 0..7 |-> IF k = 0 THEN size ELSE f[k - 1] \div 256]
           Turn == [x \in (1..7) \X Nat |-> x[2] \div 256]
<1>1. q = [k \in 0..7 |-> IF k = 0 THEN size ELSE q[k - 1] \div 256]
  <2>1. Turn \in [(1..7) \X Nat -> Nat]
    OBVIOUS
  <2>2. PICK f \in [0..7 -> Nat] : Recursive(f, 7, size, Turn)
    <3> HIDE DEF Turn
    <3> QED
      BY <2>1, Recursion
  <2>3. f = [k \in 0..7 |-> IF k = 0 THEN size ELSE f[k - 1] \div 256]
    <3>1. \A k \in 0..7 : k # 0 => k \in 1..7 /\ k - 1 \in 0..7
      OBVIOUS
    <3>2. \A k \in 1..7 : f[k - 1] \in Nat
      BY <3>1
    <3>3. \A k \in 1..7 : Turn[<<k, f[k - 1]>>] = f[k - 1] \div 256
      BY <3>2
    <3>4. f = [k \in 0..7 |-> f[k]]
      BY Zenon
    <3> HIDE DEF Turn
    <3> QED
      BY <2>2, <3>1, <3>3, <3>4, ZenonT(60) DEF Recursive
  <2> QED
    BY <2>3, ZenonT(60)
<1>2. \A i \in 0..7 : FRAME_SET_LENGTH(size, i) = q[i] % 256
  BY DEF FRAME_SET_LENGTH
<1> HIDE DEF q
<1>3. q[0] = size /\ \A k \in 1..7 : q[k] = q[k - 1] \div 256
  <2>1. 0 \in 0..7 /\ \A k \in 1..7 : k \in 0..7 /\ k # 0
    OBVIOUS
  <2> QED
    BY <1>1, <2>1, Zenon
<1> DEFINE S == {k \in 0..7 : q[k] \in Nat}
<1>4. 0..7 \subseteq S
  <2>1. 0 \in S
    BY <1>3
  <2>2. ASSUME NEW k \in 1..7, k - 1 \in S PROVE k \in S
    <3>1. q[k - 1] \in Nat /\ k \in 0..7
      BY <2>2
    <3>2. q[k - 1] \div 256 \in Nat
      BY <3>1
    <3> QED
      BY <1>3, <3>1, <3>2
  <2> HIDE DEF S
  <2> QED
    BY <2>1, <2>2, UpTo
<1>5. q \in [0..7 -> Nat]
  <2>1. q = [k \in 0..7 |-> q[k]]
    BY <1>1, Zenon
  <2> QED
    BY <1>4, <2>1, Zenon
<1> QED
  BY <1>2, <1>3, <1>5 DEF Quotients

(* The numbers that the beginnings of bytes stand for.                     *)
Numbers(r, bytes) ==
  /\ r \in [0..Len(bytes) -> Nat]
  /\ r[0] = 0 /\ \A k \in 1..Len(bytes) : r[k] = 256 * r[k - 1] + bytes[k]

(* BigEndian reads the bytes one after the other.                          *)
LEMMA BigEndianReads ==
  ASSUME NEW bytes \in Seq(Nat)
  PROVE  \E r : Numbers(r, bytes) /\ BigEndian(bytes) = r[Len(bytes)]
<1> DEFINE n == Len(bytes)
           r == CHOOSE f : f = [k \in 0..n |-> IF k = 0 THEN 0 ELSE 256 * f[k - 1] + bytes[k]]
           Turn == [x \in (1..n) \X Nat |-> 256 * x[2] + bytes[x[1]]]
<1>1. n \in Nat /\ \A k \in 1..n : bytes[k] \in Nat
  OBVIOUS
<1>2. PICK f \in [0..n -> Nat] : Recursive(f, n, 0, Turn)
  <2>1. Turn \in [(1..n) \X Nat -> Nat]
    <3>1. \A x \in (1..n) \X Nat : 256 * x[2] + bytes[x[1]] \in Nat
      BY <1>1
    <3> QED
      BY <3>1, ZenonT(60)
  <2> HIDE DEF Turn, n
  <2> QED
    BY <1>1, <2>1, Recursion
<1>3. f = [k \in 0..n |-> IF k = 0 THEN 0 ELSE 256 * f[k - 1] + bytes[k]]
  <2>1. \A k \in 0..n : k # 0 => k \in 1..n /\ k - 1 \in 0..n
    BY <1>1
  <2>2. \A k \in 1..n : f[k - 1] \in Nat
    BY <2>1, SMTT(60)
  <2>3. \A k \in 1..n : Turn[<<k, f[k - 1]>>] = 256 * f[k - 1] + bytes[k]
    BY <2>2
  <2>4. f = [k \in 0..n |-> f[k]]
    BY Zenon
  <2> HIDE DEF Turn
  <2> QED
    BY <1>2, <2>1, <2>3, <2>4, ZenonT(60) DEF Recursive
<1>4. r = [k \in 0..n |-> IF k = 0 THEN 0 ELSE 256 * r[k - 1] + bytes[k]]
  BY <1>3, ZenonT(60)
<1>5. BigEndian(bytes) = r[n]
  BY DEF BigEndian
<1> HIDE DEF r
<1>6. r[0] = 0 /\ \A k \in 1..n : r[k] = 256 * r[k - 1] + bytes[k]
  <2>1. 0 \in 0..n /\ \A k \in 1..n : k \in 0..n /\ k # 0
    BY <1>1
  <2> QED
    BY <1>4, <2>1, ZenonT(60)
<1> DEFINE S == {k \in 0..n : r[k] \in Nat}
<1>7. 0..n \subseteq S
  <2>1. 0 \in S
    BY <1>1, <1>6
  <2>2. ASSUME NEW k \in 1..n, k - 1 \in S PROVE k \in S
    <3>1. r[k - 1] \in Nat /\ k \in 0..n /\ bytes[k] \in Nat
      BY <1>1, <2>2
    <3>2. 256 * r[k - 1] + bytes[k] \in Nat
      BY <3>1
    <3> QED
      BY <1>6, <3>1, <3>2
  <2> HIDE DEF S
  <2> QED
    BY <1>1, <2>1, <2>2, UpTo
<1>8. r \in [0..n -> Nat]
  <2>1. r = [k \in 0..n |-> r[k]]
    BY <1>4, Zenon
  <2> QED
    BY <1>7, <2>1, Zenon
<1> QED
  BY <1>5, <1>6, <1>8, Zenon DEF Numbers

(* A length fits in 16 bits.                                               *)
Fits16(size) == size < 65536

(* A length of 16 bits comes back from two bytes.                          *)
LEMMA TwoBytesComeBack ==
  ASSUME NEW size \in Nat, Fits16(size)
  PROVE  BigEndian(<<FRAME_SET_LENGTH(size, 1), FRAME_SET_LENGTH(size, 0)>>) = size
<1>1. PICK q : Quotients(q, size) /\ \A i \in 0..7 : FRAME_SET_LENGTH(size, i) = q[i] % 256
  BY BytesAreRemainders
<1> DEFINE bytes == <<FRAME_SET_LENGTH(size, 1), FRAME_SET_LENGTH(size, 0)>>
<1>2. /\ FRAME_SET_LENGTH(size, 0) = size % 256
      /\ FRAME_SET_LENGTH(size, 1) = (size \div 256) % 256
  BY <1>1 DEF Quotients
<1>3. size % 256 \in Nat /\ (size \div 256) % 256 \in Nat
  OBVIOUS
<1>4. bytes \in Seq(Nat) /\ Len(bytes) = 2
  BY <1>2, <1>3
<1>5. PICK r : Numbers(r, bytes) /\ BigEndian(bytes) = r[Len(bytes)]
  BY <1>4, BigEndianReads, Zenon
<1>6. r[1] = (size \div 256) % 256 /\ r[2] = 256 * r[1] + (size % 256)
  BY <1>2, <1>4, <1>5 DEF Numbers
<1>7. 256 * ((size \div 256) % 256) + (size % 256) = size
  BY DEF Fits16
<1> QED
  BY <1>4, <1>5, <1>6, <1>7

(* Two quotients by 256 make one by 65536.                                 *)
LEMMA TwoQuotients == ASSUME NEW n \in Nat PROVE (n \div 256) \div 256 = n \div 65536
OBVIOUS

(* A length of 64 bits comes back from eight bytes.                        *)
LEMMA EightBytesComeBack ==
  ASSUME NEW size \in Nat, Fits64(size)
  PROVE  BigEndian([i \in 1..8 |-> FRAME_SET_LENGTH(size, 8 - i)]) = size
<1>1. PICK q : Quotients(q, size) /\ \A i \in 0..7 : FRAME_SET_LENGTH(size, i) = q[i] % 256
  BY BytesAreRemainders
<1> DEFINE bytes == [i \in 1..8 |-> FRAME_SET_LENGTH(size, 8 - i)]
<1>2. \A k \in 0..7 : q[k] \in Nat
  BY <1>1 DEF Quotients
<1>3. q[7] < 256
  <2>1. \A k \in 1..7 : q[k] = q[k - 1] \div 256
    BY <1>1 DEF Quotients
  <2>2. q[2] = q[0] \div 65536
    BY <1>2, <2>1, TwoQuotients
  <2>3. q[4] = q[2] \div 65536
    BY <1>2, <2>1, TwoQuotients
  <2>4. q[6] = q[4] \div 65536
    BY <1>2, <2>1, TwoQuotients
  <2>5. q[0] = size
    BY <1>1 DEF Quotients
  <2>6. q[6] \div 65536 = 0
    BY <2>2, <2>3, <2>4, <2>5 DEF Fits64
  <2>7. q[7] = q[6] \div 256
    BY <2>1
  <2>8. q[7] \div 256 = 0
    BY <1>2, <2>6, <2>7, TwoQuotients
  <2> QED
    BY <1>2, <2>8
<1>4. \A i \in 1..8 : 8 - i \in 0..7 /\ bytes[i] = q[8 - i] % 256
  BY <1>1
<1>5. bytes \in Seq(Nat) /\ Len(bytes) = 8
  <2>1. \A i \in 1..8 : FRAME_SET_LENGTH(size, 8 - i) \in Nat
    BY <1>1, <1>2, <1>4
  <2>2. bytes \in [1..8 -> Nat]
    BY <2>1, Zenon
  <2> HIDE DEF bytes
  <2> QED
    BY <2>2, TupleIsSeq, Zenon
<1> HIDE DEF bytes
<1>6. PICK r : Numbers(r, bytes) /\ BigEndian(bytes) = r[Len(bytes)]
  BY <1>5, BigEndianReads, Zenon
<1>7. \A k \in 1..8 : r[k] = 256 * r[k - 1] + (q[8 - k] % 256)
  <2> SUFFICES ASSUME NEW k \in 1..8 PROVE r[k] = 256 * r[k - 1] + (q[8 - k] % 256)
    OBVIOUS
  <2>1. bytes[k] = q[8 - k] % 256
    BY <1>4
  <2>2. r[k] = 256 * r[k - 1] + bytes[k]
    BY <1>5, <1>6 DEF Numbers
  <2> QED
    BY <2>1, <2>2
<1> DEFINE S == {k \in 0..8 : k > 0 => r[k] = q[8 - k]}
<1>8. ASSUME NEW k \in 1..8, k - 1 \in S PROVE k \in S
  <2>1. CASE k = 1
    <3>1. r[1] = 256 * r[0] + (q[7] % 256)
      BY <1>7
    <3>2. r[0] = 0 /\ q[7] \in Nat
      BY <1>2, <1>6 DEF Numbers
    <3>3. r[1] = q[7]
      BY <1>3, <3>1, <3>2
    <3> QED
      BY <2>1, <3>3
  <2>2. CASE k > 1
    <3>1. r[k - 1] = q[8 - (k - 1)] /\ 8 - (k - 1) \in 1..7 /\ (8 - (k - 1)) - 1 = 8 - k
      BY <1>8, <2>2
    <3>2. q[8 - (k - 1)] = q[8 - k] \div 256
      BY <1>1, <3>1 DEF Quotients
    <3>3. r[k] = 256 * (q[8 - k] \div 256) + (q[8 - k] % 256)
      BY <1>7, <3>1, <3>2
    <3>4. q[8 - k] \in Nat
      BY <1>2
    <3>5. \A m \in Nat : 256 * (m \div 256) + (m % 256) = m
      OBVIOUS
    <3>6. r[k] = q[8 - k]
      BY <3>3, <3>4, <3>5
    <3> QED
      BY <3>6
  <2> QED
    BY <2>1, <2>2
<1>9. 0..8 \subseteq S
  <2>1. 0 \in S
    OBVIOUS
  <2> HIDE DEF S
  <2> QED
    BY <1>8, <2>1, UpTo
<1>10. r[8] = q[0] /\ q[0] = size
  BY <1>1, <1>9 DEF Quotients
<1> QED
  BY <1>5, <1>6, <1>10 DEF bytes

-----------------------------------------------------------------------------
(* The header that is written.                                             *)

(* How many bytes of length follow the first two.                          *)
ExtLength(size) == IF size < 126 THEN 0 ELSE IF Fits16(size) THEN 2 ELSE 8

(* There are three encodings.                                              *)
LEMMA ExtLengthIs == ASSUME NEW size PROVE ExtLength(size) \in {0, 2, 8}
BY DEF ExtLength

(* The length field tells which.                                           *)
LEMMA LengthIsCoded ==
  ASSUME NEW size \in Nat
  PROVE  /\ size < 126 => LengthField(size) = size
         /\ LengthField(size) = 126 <=> size >= 126 /\ Fits16(size)
         /\ LengthField(size) = 127 <=> size >= 126 /\ ~Fits16(size)
         /\ size >= 126 => LengthField(size) >= 126
<1>1. CASE size < 126
  BY <1>1 DEF LengthField, Fits16
<1>2. CASE size >= 126 /\ Fits16(size)
  BY <1>2 DEF LengthField, Fits16
<1>3. CASE size >= 126 /\ ~Fits16(size)
  BY <1>3 DEF LengthField, Fits16
<1> QED
  BY <1>1, <1>2, <1>3

(* The bytes that follow it are bytes.                                     *)
LEMMA ExtensionIsCoded ==
  ASSUME NEW size \in Nat
  PROVE  ExtendedLength(size) \in Seq(Nat) /\ Len(ExtendedLength(size)) = ExtLength(size)
<1>1. PICK q : Quotients(q, size) /\ \A i \in 0..7 : FRAME_SET_LENGTH(size, i) = q[i] % 256
  BY BytesAreRemainders
<1>2. \A i \in 0..7 : FRAME_SET_LENGTH(size, i) \in Nat
  <2>1. \A i \in 0..7 : q[i] \in Nat
    BY <1>1 DEF Quotients
  <2> QED
    BY <1>1, <2>1
<1>3. CASE size < 126
  BY <1>3 DEF ExtendedLength, ExtLength, Fits16
<1>4. CASE size >= 126 /\ Fits16(size)
  <2>1. ExtLength(size) = 2
    BY <1>4 DEF Fits16, ExtLength
  <2>2. ExtendedLength(size) = <<FRAME_SET_LENGTH(size, 1), FRAME_SET_LENGTH(size, 0)>>
    BY <1>4 DEF ExtendedLength, Fits16
  <2> QED
    BY <1>2, <2>1, <2>2
<1>5. CASE size >= 126 /\ ~Fits16(size)
  <2>1. ExtLength(size) = 8
    BY <1>5 DEF Fits16, ExtLength
  <2>2. ExtendedLength(size) = [i \in 1..8 |-> FRAME_SET_LENGTH(size, 8 - i)]
    BY <1>5 DEF ExtendedLength, Fits16
  <2>3. [i \in 1..8 |-> FRAME_SET_LENGTH(size, 8 - i)] \in [1..8 -> Nat]
    <3>1. \A i \in 1..8 : 8 - i \in 0..7
      OBVIOUS
    <3>2. \A i \in 1..8 : FRAME_SET_LENGTH(size, 8 - i) \in Nat
      BY <1>2, <3>1
    <3> QED
      BY <3>2, Zenon
  <2>4. ExtendedLength(size) \in Seq(Nat) /\ Len(ExtendedLength(size)) = 8
    BY <2>2, <2>3, TupleIsSeq
  <2> QED
    BY <2>1, <2>4
<1> QED
  BY <1>3, <1>4, <1>5

KeyLength(f) == IF f.masked THEN 4 ELSE 0

(* The header is made of its two first bytes, of the length and of the key.*)
LEMMA HeaderIs ==
  ASSUME NEW f \in PeerFrames
  PROVE  /\ Len(Header(f)) = 2 + ExtLength(f.len) + KeyLength(f)
         /\ Header(f)[1] = [fin |-> f.fin, rsv |-> f.rsv, op |-> f.op]
         /\ Header(f)[2] = [mask |-> f.masked, len |-> LengthField(f.len)]
         /\ \A i \in 1..ExtLength(f.len) : Header(f)[i + 2] = ExtendedLength(f.len)[i]
         /\ f.masked => \A i \in 1..4 : Header(f)[i + 2 + ExtLength(f.len)] = <<"key", i - 1>>
<1> DEFINE a == [fin |-> f.fin, rsv |-> f.rsv, op |-> f.op]
           b == [mask |-> f.masked, len |-> LengthField(f.len)]
           e == ExtendedLength(f.len)
           k == IF f.masked THEN <<<<"key", 0>>, <<"key", 1>>, <<"key", 2>>, <<"key", 3>>>> ELSE << >>
           S == {a, b} \cup Nat \cup {<<"key", i>> : i \in 0..3}
<1>1. f.len \in Nat /\ f.masked \in BOOLEAN
  BY FrameFields
<1>2. e \in Seq(Nat) /\ Len(e) = ExtLength(f.len) /\ ExtLength(f.len) \in Nat
  <2>1. e \in Seq(Nat) /\ Len(e) = ExtLength(f.len) /\ ExtLength(f.len) \in {0, 2, 8}
    <3> DEFINE n == f.len
    <3>1. n \in Nat
      BY <1>1
    <3> HIDE DEF n
    <3> QED
      BY <3>1, ExtLengthIs, ExtensionIsCoded DEF n
  <2> QED
    BY <2>1
<1>3. e \in Seq(S)
  <2>1. Nat \subseteq S
    OBVIOUS
  <2> HIDE DEF S, e
  <2> QED
    BY <1>2, <2>1
<1>4. k \in Seq(S) /\ Len(k) = KeyLength(f) /\ (f.masked => \A i \in 1..4 : k[i] = <<"key", i - 1>>)
  <2>1. <<"key", 0>> \in S /\ <<"key", 1>> \in S /\ <<"key", 2>> \in S /\ <<"key", 3>> \in S
    OBVIOUS
  <2> HIDE DEF S
  <2>2. CASE f.masked
    <3>1. k = <<<<"key", 0>>, <<"key", 1>>, <<"key", 2>>, <<"key", 3>>>>
      BY <2>2
    <3> HIDE DEF k
    <3>2. k[1] = <<"key", 0>> /\ k[2] = <<"key", 1>> /\ k[3] = <<"key", 2>> /\ k[4] = <<"key", 3>>
          /\ Len(k) = 4
      BY <3>1
    <3>3. \A i \in 1..4 : k[i] = <<"key", i - 1>>
      BY <3>2
    <3>4. k \in Seq(S)
      BY <2>1, <3>1
    <3> QED
      BY <2>2, <3>2, <3>3, <3>4 DEF KeyLength
  <2>3. CASE ~f.masked
    BY <2>3 DEF KeyLength
  <2> QED
    BY <2>2, <2>3
<1>5. a \in S /\ b \in S
  OBVIOUS
<1>6. Header(f) = <<a, b>> \o e \o k
  BY DEF Header
<1> HIDE DEF a, b, e, k, S
<1>7. /\ Len(Header(f)) = 2 + Len(e) + Len(k) /\ Header(f)[1] = a /\ Header(f)[2] = b
      /\ \A i \in 1..Len(e) : Header(f)[i + 2] = e[i]
      /\ \A i \in 1..Len(k) : Header(f)[i + 2 + Len(e)] = k[i]
  <2> DEFINE h == <<a, b>> \o e \o k
  <2>1. Len(h) = 2 + Len(e) + Len(k) /\ h[1] = a /\ h[2] = b /\ \A i \in 1..Len(e) : h[i + 2] = e[i]
    BY <1>3, <1>4, <1>5, SMTT(60)
  <2>2. \A i \in 1..Len(k) : h[i + 2 + Len(e)] = k[i]
    BY <1>3, <1>4, <1>5
  <2> HIDE DEF h
  <2>3. Header(f) = h
    BY <1>6 DEF h
  <2> QED
    BY <2>1, <2>2, <2>3
<1>8. f.masked => \A i \in 1..4 : Header(f)[i + 2 + ExtLength(f.len)] = <<"key", i - 1>>
  BY <1>2, <1>4, <1>7 DEF KeyLength
<1> QED
  BY <1>2, <1>4, <1>7, <1>8 DEF a, b, e

-----------------------------------------------------------------------------
(* The header that is read: the first n bytes of the frame.                *)
Wire(f, n) == [i \in 1..n |-> WireByte(f, i - 1)]

WireBytes(f) == {WireByte(f, i) : i \in Nat}

(* The bytes read of a frame are a sequence of bytes of this frame.        *)
LEMMA WireIsSeq ==
  ASSUME NEW f, NEW n \in Nat
  PROVE  /\ Wire(f, n) \in Seq(WireBytes(f)) /\ Len(Wire(f, n)) = n
         /\ \A i \in 1..n : Wire(f, n)[i] = WireByte(f, i - 1)
<1>1. \A i \in 1..n : WireByte(f, i - 1) \in WireBytes(f)
  <2>1. \A i \in 1..n : i - 1 \in Nat
    OBVIOUS
  <2> QED
    BY <2>1, Zenon DEF WireBytes
<1>2. Wire(f, n) \in [1..n -> WireBytes(f)]
  BY <1>1, Zenon DEF Wire
<1>3. \A i \in 1..n : Wire(f, n)[i] = WireByte(f, i - 1)
  BY Zenon DEF Wire
<1> QED
  BY <1>2, <1>3, TupleIsSeq

(* Reading k more bytes after the first n gives the first n + k.           *)
LEMMA WireGrows ==
  ASSUME NEW f, NEW n \in Nat, NEW k \in Nat
  PROVE  Wire(f, n) \o [i \in 1..k |-> WireByte(f, n + i - 1)] = Wire(f, n + k)
<1> DEFINE S == WireBytes(f)
           s == Wire(f, n)
           t == [i \in 1..k |-> WireByte(f, n + i - 1)]
           u == Wire(f, n + k)
<1>1. s \in Seq(S) /\ Len(s) = n /\ \A i \in 1..n : s[i] = WireByte(f, i - 1)
  BY WireIsSeq
<1>2. u \in Seq(S) /\ Len(u) = n + k /\ \A i \in 1..(n + k) : u[i] = WireByte(f, i - 1)
  <2>1. n + k \in Nat
    OBVIOUS
  <2> QED
    BY <2>1, WireIsSeq
<1>3. t \in Seq(S) /\ Len(t) = k /\ \A i \in 1..k : t[i] = WireByte(f, n + i - 1)
  <2>1. \A i \in 1..k : n + i - 1 \in Nat
    OBVIOUS
  <2>2. \A i \in 1..k : WireByte(f, n + i - 1) \in S
    BY <2>1, Zenon DEF WireBytes
  <2>3. t \in [1..k -> S] /\ \A i \in 1..k : t[i] = WireByte(f, n + i - 1)
    BY <2>2, Zenon
  <2> HIDE DEF t, S
  <2> QED
    BY <2>3, TupleIsSeq
<1> HIDE DEF S, s, t, u
<1>4. /\ s \o t \in Seq(S) /\ Len(s \o t) = n + k
      /\ \A i \in 1..n : (s \o t)[i] = s[i]
      /\ \A i \in (n + 1)..(n + k) : (s \o t)[i] = t[i - n]
  <2>1. /\ s \o t \in Seq(S) /\ Len(s \o t) = Len(s) + Len(t)
        /\ \A i \in 1..Len(s) : (s \o t)[i] = s[i]
        /\ \A i \in (Len(s) + 1)..(Len(s) + Len(t)) : (s \o t)[i] = t[i - Len(s)]
    <3>1. s \in Seq(S) /\ t \in Seq(S)
      BY <1>1, <1>3
    <3> QED
      BY <3>1, ConcatIs, Zenon
  <2> QED
    BY <1>1, <1>3, <2>1
<1>5. ASSUME NEW i \in 1..(n + k) PROVE (s \o t)[i] = u[i]
  <2>1. CASE i \in 1..n
    <3>1. (s \o t)[i] = WireByte(f, i - 1)
      BY <1>1, <1>4, <2>1
    <3> QED
      BY <1>2, <3>1
  <2>2. CASE i \in (n + 1)..(n + k)
    <3>1. i - n \in 1..k /\ n + (i - n) - 1 = i - 1
      BY <2>2
    <3>2. t[i - n] = WireByte(f, i - 1)
      BY <1>3, <3>1
    <3>3. (s \o t)[i] = WireByte(f, i - 1)
      BY <1>4, <2>2, <3>2
    <3> QED
      BY <1>2, <3>3
  <2>3. i \in 1..n \/ i \in (n + 1)..(n + k)
    OBVIOUS
  <2> QED
    BY <2>1, <2>2, <2>3
<1>6. s \o t = u
  <2>1. s \o t \in Seq(S) /\ u \in Seq(S) /\ Len(s \o t) = Len(u)
        /\ \A i \in 1..Len(s \o t) : (s \o t)[i] = u[i]
    BY <1>2, <1>4, <1>5
  <2> QED
    BY <2>1, SameSeq
<1> QED
  BY <1>6 DEF s, t, u

(* The whole header and, of a close frame, its code.                       *)
FullSize(f) == Len(Header(f)) + (IF f.op = OPCODE_CLOSE /\ f.len # 0 THEN 2 ELSE 0)

(* What check_control_header requires, on the frame.                       *)
ControlPasses(f) ==
  f.op \in ControlOpcodes => f.rsv = 0 /\ f.len <= 125 /\ (f.op = OPCODE_CLOSE => f.len # 1)

(* The sizes of a frame that passes: its header fits in header[14] and in  *)
(* the frame, and its payload is what follows.                             *)
LEMMA FrameSizes ==
  ASSUME NEW f \in PeerFrames
  PROVE  /\ Len(Header(f)) \in 2..14 /\ WireLength(f) \in Nat
         /\ WireLength(f) = Len(Header(f)) + f.len
         /\ FullSize(f) \in 2..16
         /\ ControlPasses(f) => /\ FullSize(f) \in 2..14
                                /\ Payload(f) \in Nat
                                /\ WireLength(f) = FullSize(f) + Payload(f)
<1>1. f.len \in Nat /\ f.masked \in BOOLEAN /\ f.op \in 0..15
  BY FrameFields
<1>2. Len(Header(f)) = 2 + ExtLength(f.len) + KeyLength(f)
  BY HeaderIs
<1>3. ExtLength(f.len) \in {0, 2, 8} /\ KeyLength(f) \in {0, 4}
  BY <1>1, ExtLengthIs DEF KeyLength
<1>4. Len(Header(f)) \in 2..14 /\ WireLength(f) = Len(Header(f)) + f.len
  BY <1>2, <1>3 DEF WireLength
<1>5. f.len <= 125 => ExtLength(f.len) = 0
  BY <1>1 DEF ExtLength
<1> DEFINE h == Len(Header(f))
           w == WireLength(f)
           s == FullSize(f)
           p == Payload(f)
<1>6. ASSUME ControlPasses(f)
      PROVE  FullSize(f) \in 2..14 /\ Payload(f) \in Nat /\ WireLength(f) = FullSize(f) + Payload(f)
  <2>1. CASE f.op = OPCODE_CLOSE /\ f.len # 0
    <3>1. f.len <= 125 /\ f.len # 1
      BY <1>6, <2>1 DEF ControlPasses, ControlOpcodes
    <3>2. h \in 2..6 /\ w = h + f.len
      BY <1>1, <1>2, <1>3, <1>4, <1>5, <3>1
    <3>3. s = h + 2 /\ p = f.len - 2
      BY <1>1, <2>1, <3>1 DEF FullSize, Payload
    <3>4. f.len - 2 \in Nat
      BY <1>1, <2>1, <3>1
    <3> HIDE DEF h, w, s, p
    <3>5. s \in 2..14 /\ p \in Nat /\ w = s + p
      BY <1>1, <3>2, <3>3, <3>4
    <3> QED
      BY <3>5 DEF w, s, p
  <2>2. CASE ~(f.op = OPCODE_CLOSE /\ f.len # 0)
    BY <1>1, <1>4, <2>2 DEF FullSize, Payload
  <2> QED
    BY <2>1, <2>2
<1>7. FullSize(f) \in 2..16
  <2>1. s \in {h, h + 2} /\ h \in 2..14
    BY <1>4 DEF FullSize
  <2> HIDE DEF h, s
  <2>2. s \in 2..16
    BY <2>1
  <2> QED
    BY <2>2 DEF s
<1>8. WireLength(f) \in Nat
  BY <1>1, <1>4
<1> QED
  BY <1>4, <1>6, <1>7, <1>8

(* No frame is shorter than its two first bytes.                           *)
LEMMA TwoBytesAtLeast == ASSUME NEW f \in PeerFrames PROVE 2 <= WireLength(f)
<1>1. \A a \in 2..14, b \in Nat : 2 <= a + b
  OBVIOUS
<1>2. WireLength(f) = Len(Header(f)) + f.len /\ Len(Header(f)) \in 2..14 /\ f.len \in Nat
  BY FrameSizes, FrameFields
<1> QED
  BY <1>1, <1>2, Zenon

(* The two first bytes tell the fields of the frame; check_control_header  *)
(* accepts exactly the frames that pass.                                   *)
LEMMA FieldsAreRead ==
  ASSUME NEW f \in PeerFrames, NEW n \in Nat, n >= 2
  PROVE  LET h == Wire(f, n)
         IN /\ FRAME_GET_OPCODE(h) = f.op /\ FRAME_GET_FIN(h) = f.fin /\ FRAME_GET_RSV(h) = f.rsv
            /\ FRAME_GET_MASK(h) = f.masked /\ FRAME_GET_PAYLOAD_LEN(h) = LengthField(f.len)
            /\ ControlPasses(f) <=> (f.op \in ControlOpcodes => check_control_header(h))
<1> DEFINE h == Wire(f, n)
<1>1. f.len \in Nat
  BY FrameFields
<1>2. h[1] = Header(f)[1] /\ h[2] = Header(f)[2]
  <2>1. Len(Header(f)) \in 2..14
    BY FrameSizes
  <2>2. h[1] = WireByte(f, 0) /\ h[2] = WireByte(f, 1)
    <3>1. 1 \in 1..n /\ 2 \in 1..n /\ 1 - 1 = 0 /\ 2 - 1 = 1
      OBVIOUS
    <3>2. h[1] = WireByte(f, 1 - 1) /\ h[2] = WireByte(f, 2 - 1)
      BY <3>1, WireIsSeq
    <3> QED
      BY <3>1, <3>2
  <2> QED
    BY <2>1, <2>2 DEF WireByte
<1>3. /\ h[1] = [fin |-> f.fin, rsv |-> f.rsv, op |-> f.op]
      /\ h[2] = [mask |-> f.masked, len |-> LengthField(f.len)]
  BY <1>2, HeaderIs
<1> HIDE DEF h
<1>4. /\ FRAME_GET_OPCODE(h) = f.op /\ FRAME_GET_FIN(h) = f.fin /\ FRAME_GET_RSV(h) = f.rsv
      /\ FRAME_GET_MASK(h) = f.masked /\ FRAME_GET_PAYLOAD_LEN(h) = LengthField(f.len)
  BY <1>3 DEF FRAME_GET_OPCODE, FRAME_GET_FIN, FRAME_GET_RSV, FRAME_GET_MASK, FRAME_GET_PAYLOAD_LEN
<1>5. /\ f.len < 126 => LengthField(f.len) = f.len
      /\ f.len >= 126 => LengthField(f.len) >= 126
      /\ LengthField(f.len) \in Nat
  <2>1. /\ f.len < 126 => LengthField(f.len) = f.len
        /\ f.len >= 126 => LengthField(f.len) >= 126
    BY <1>1, LengthIsCoded
  <2>2. LengthField(f.len) \in Nat
    BY <1>1 DEF LengthField
  <2> QED
    BY <2>1, <2>2
<1>6. check_control_header(h) <=> f.rsv = 0 /\ f.len <= 125 /\ (f.op = OPCODE_CLOSE => f.len # 1)
  <2>1. check_control_header(h) <=>
          f.rsv = 0 /\ LengthField(f.len) <= 125 /\ (f.op = OPCODE_CLOSE => LengthField(f.len) # 1)
    BY <1>4 DEF check_control_header
  <2> QED
    BY <1>1, <1>5, <2>1
<1> QED
  BY <1>4, <1>6 DEF ControlPasses, h

(* HeaderSize asks for the whole header, and the code of a close frame.    *)
LEMMA SizeIsRead ==
  ASSUME NEW f \in PeerFrames, NEW n \in Nat, n >= 2
  PROVE  HeaderSize(Wire(f, n)) = FullSize(f)
<1> DEFINE h == Wire(f, n)
           l == LengthField(f.len)
<1>1. f.len \in Nat /\ f.masked \in BOOLEAN
  BY FrameFields
<1>2. FRAME_GET_OPCODE(h) = f.op /\ FRAME_GET_MASK(h) = f.masked /\ FRAME_GET_PAYLOAD_LEN(h) = l
  BY FieldsAreRead
<1>3. HeaderSize(h) = 2 + (IF f.op = OPCODE_CLOSE /\ l # 0 THEN 2 ELSE 0)
                        + (CASE l = 127 -> 8 [] l = 126 -> 2 [] OTHER -> 0)
                        + (IF f.masked THEN 4 ELSE 0)
  BY <1>2 DEF HeaderSize
<1>4. (CASE l = 127 -> 8 [] l = 126 -> 2 [] OTHER -> 0) = ExtLength(f.len)
  <2>1. /\ f.len < 126 => l = f.len
        /\ l = 126 <=> f.len >= 126 /\ Fits16(f.len)
        /\ l = 127 <=> f.len >= 126 /\ ~Fits16(f.len)
    BY <1>1, LengthIsCoded
  <2> HIDE DEF l
  <2> QED
    BY <1>1, <2>1 DEF ExtLength
<1>5. l # 0 <=> f.len # 0
  <2>1. (f.len < 126 => l = f.len) /\ (f.len >= 126 => l >= 126)
    BY <1>1, LengthIsCoded
  <2> HIDE DEF l
  <2> QED
    BY <1>1, <2>1
<1>6. Len(Header(f)) = 2 + ExtLength(f.len) + KeyLength(f)
  BY HeaderIs
<1>7. ExtLength(f.len) \in Nat /\ KeyLength(f) \in Nat
  <2>1. ExtLength(f.len) \in {0, 2, 8}
    BY ExtLengthIs
  <2> QED
    BY <2>1 DEF KeyLength
<1>8. HeaderSize(h) = 2 + (IF f.op = OPCODE_CLOSE /\ f.len # 0 THEN 2 ELSE 0) + ExtLength(f.len) + KeyLength(f)
  BY <1>3, <1>4, <1>5 DEF KeyLength
<1>9. FullSize(f) = (2 + ExtLength(f.len) + KeyLength(f)) + (IF f.op = OPCODE_CLOSE /\ f.len # 0 THEN 2 ELSE 0)
  BY <1>6 DEF FullSize
<1> HIDE DEF h
<1>10. HeaderSize(h) = FullSize(f)
  BY <1>7, <1>8, <1>9
<1> QED
  BY <1>10 DEF h

(* The header read is the header written, then bytes of the payload.       *)
LEMMA HeaderIsRead ==
  ASSUME NEW f \in PeerFrames
  PROVE  LET h == Wire(f, FullSize(f))
         IN /\ h \in Seq(WireBytes(f)) /\ Len(h) = FullSize(f)
            /\ \A i \in 1..Len(Header(f)) : h[i] = Header(f)[i]
            /\ \A i \in (Len(Header(f)) + 1)..FullSize(f) : h[i] = <<"pay", i - 1 - Len(Header(f))>>
<1> DEFINE h == Wire(f, FullSize(f))
           m == Len(Header(f))
           n == FullSize(f)
<1>1. m \in Nat /\ n \in Nat /\ m <= n
  BY FrameSizes DEF FullSize
<1>2. h \in Seq(WireBytes(f)) /\ Len(h) = n /\ \A i \in 1..n : h[i] = WireByte(f, i - 1)
  BY <1>1, WireIsSeq
<1> HIDE DEF h, n
<1>3. ASSUME NEW i \in 1..m PROVE h[i] = Header(f)[i]
  <2>1. i \in 1..n /\ i - 1 < m /\ (i - 1) + 1 = i
    BY <1>1
  <2> QED
    BY <1>2, <2>1 DEF WireByte
<1>4. ASSUME NEW i \in (m + 1)..n PROVE h[i] = <<"pay", i - 1 - m>>
  <2>1. i \in 1..n /\ ~(i - 1 < m)
    BY <1>1
  <2> QED
    BY <1>2, <2>1 DEF WireByte
<1> QED
  BY <1>2, <1>3, <1>4 DEF h, n

(* The length read is the one of the payload.                              *)
LEMMA PayloadIsRead ==
  ASSUME NEW f \in PeerFrames, ControlPasses(f)
  PROVE  PayloadLength(Wire(f, FullSize(f))) = Payload(f)
<1>0. /\ f.len < 126 => LengthField(f.len) = f.len
      /\ LengthField(f.len) = 126 <=> f.len >= 126 /\ Fits16(f.len)
      /\ LengthField(f.len) = 127 <=> f.len >= 126 /\ ~Fits16(f.len)
  BY FrameFields, LengthIsCoded
<1> DEFINE h == Wire(f, FullSize(f))
           l == LengthField(f.len)
           e == ExtendedLength(f.len)
           S == WireBytes(f) \cup Nat
           x == Len(e)
<1>1. f.len \in Nat /\ Fits64(f.len)
  BY FrameFields
<1>2. FRAME_GET_OPCODE(h) = f.op /\ FRAME_GET_PAYLOAD_LEN(h) = l
  <2>1. FullSize(f) \in Nat /\ FullSize(f) >= 2
    BY FrameSizes
  <2> QED
    BY <2>1, FieldsAreRead
<1>3. /\ f.len < 126 => l = f.len
      /\ l = 126 <=> f.len >= 126 /\ Fits16(f.len)
      /\ l = 127 <=> f.len >= 126 /\ ~Fits16(f.len)
      /\ e \in Seq(Nat) /\ x = ExtLength(f.len)
  <2>1. /\ f.len < 126 => l = f.len
        /\ l = 126 <=> f.len >= 126 /\ Fits16(f.len)
        /\ l = 127 <=> f.len >= 126 /\ ~Fits16(f.len)
    BY <1>0
  <2>2. e \in Seq(Nat) /\ x = ExtLength(f.len)
    BY <1>1, ExtLengthIs, ExtensionIsCoded
  <2> QED
    BY <2>1, <2>2
<1>4. /\ h \in Seq(WireBytes(f)) /\ Len(h) = FullSize(f)
      /\ \A i \in 1..Len(Header(f)) : h[i] = Header(f)[i]
  BY HeaderIsRead
<1>5. x \in Nat /\ 2 + x <= Len(Header(f)) /\ Len(Header(f)) <= FullSize(f)
  <2>1. Len(Header(f)) = 2 + x + KeyLength(f) /\ KeyLength(f) \in {0, 4}
    <3>1. Len(Header(f)) = 2 + ExtLength(f.len) + KeyLength(f)
      BY HeaderIs
    <3>2. KeyLength(f) \in {0, 4}
      BY DEF KeyLength
    <3> HIDE DEF x
    <3> QED
      BY <1>3, <3>1, <3>2
  <2>2. x \in Nat
    <3>1. \A t \in Seq(Nat) : Len(t) \in Nat
      OBVIOUS
    <3> HIDE DEF e
    <3> QED
      BY <1>3, <3>1
  <2> HIDE DEF x
  <2>3. Len(Header(f)) \in Nat /\ FullSize(f) \in {Len(Header(f)), Len(Header(f)) + 2}
    BY FrameSizes DEF FullSize
  <2> QED
    BY <2>1, <2>2, <2>3
<1>6. SubSeq(h, 3, 2 + x) = e
  <2> HIDE DEF h, e
  <2>1. h \in Seq(S) /\ e \in Seq(S)
    <3>1. WireBytes(f) \subseteq S /\ Nat \subseteq S
      OBVIOUS
    <3> HIDE DEF S
    <3> QED
      BY <1>3, <1>4, <3>1
  <2> HIDE DEF S
  <2>2. /\ SubSeq(h, 3, 2 + x) \in Seq(S) /\ Len(SubSeq(h, 3, 2 + x)) = x
        /\ \A i \in 1..x : SubSeq(h, 3, 2 + x)[i] = h[i + 2]
    <3> HIDE DEF x
    <3>1. 3 \in Nat /\ 2 + x \in Nat /\ 1 <= 3 /\ 3 <= (2 + x) + 1 /\ 2 + x <= Len(h)
          /\ (2 + x) + 1 - 3 = x /\ \A i \in 1..x : 3 + i - 1 = i + 2
      BY <1>4, <1>5
    <3>2. /\ SubSeq(h, 3, 2 + x) \in Seq(S) /\ Len(SubSeq(h, 3, 2 + x)) = (2 + x) + 1 - 3
          /\ \A i \in 1..((2 + x) + 1 - 3) : SubSeq(h, 3, 2 + x)[i] = h[3 + i - 1]
      BY <2>1, <3>1, SubSeqIs
    <3> QED
      BY <3>1, <3>2
  <2>3. \A i \in 1..x : h[i + 2] = e[i]
    <3>1. \A i \in 1..x : i + 2 \in 1..Len(Header(f))
      BY <1>5
    <3>2. \A i \in 1..x : Header(f)[i + 2] = e[i]
      <4>1. \A i \in 1..ExtLength(f.len) : Header(f)[i + 2] = ExtendedLength(f.len)[i]
        BY HeaderIs
      <4> HIDE DEF x
      <4> QED
        BY <1>3, <4>1 DEF e
    <3> QED
      BY <1>4, <3>1, <3>2
  <2> DEFINE t == SubSeq(h, 3, 2 + x)
  <2>4. t \in Seq(S) /\ Len(t) = Len(e) /\ \A i \in 1..Len(t) : t[i] = e[i]
    BY <2>2, <2>3
  <2> HIDE DEF t
  <2>5. t = e
    BY <2>1, <2>4, SameSeq
  <2> QED
    BY <2>5 DEF t
<1>7. (CASE l = 127 -> BigEndian(SubSeq(h, 3, 10))
         [] l = 126 -> BigEndian(SubSeq(h, 3, 4))
         [] OTHER -> l) = f.len
  <2>1. CASE f.len >= 126 /\ Fits16(f.len)
    <3>1. l = 126 /\ x = 2
      BY <1>3, <2>1 DEF ExtLength
    <3>2. e = <<FRAME_SET_LENGTH(f.len, 1), FRAME_SET_LENGTH(f.len, 0)>>
      BY <1>1, <2>1 DEF ExtendedLength, Fits16
    <3>3. BigEndian(e) = f.len
      BY <1>1, <2>1, <3>2, TwoBytesComeBack
    <3> HIDE DEF l, h, e, x
    <3>4. SubSeq(h, 3, 4) = e
      <4>1. 2 + x = 4
        BY <3>1
      <4> QED
        BY <1>6, <4>1, Zenon
    <3>5. BigEndian(SubSeq(h, 3, 4)) = f.len
      BY <3>3, <3>4, Zenon
    <3> QED
      BY <3>1, <3>5
  <2>2. CASE f.len >= 126 /\ ~Fits16(f.len)
    <3>1. l = 127 /\ x = 8
      BY <1>3, <2>2 DEF ExtLength
    <3>2. e = [i \in 1..8 |-> FRAME_SET_LENGTH(f.len, 8 - i)]
      BY <1>1, <2>2 DEF ExtendedLength, Fits16
    <3>3. BigEndian(e) = f.len
      BY <1>1, <3>2, EightBytesComeBack
    <3> HIDE DEF l, h, e, x
    <3>4. SubSeq(h, 3, 10) = e
      <4>1. 2 + x = 10
        BY <3>1
      <4> QED
        BY <1>6, <4>1, Zenon
    <3>5. BigEndian(SubSeq(h, 3, 10)) = f.len
      BY <3>3, <3>4, Zenon
    <3> QED
      BY <3>1, <3>5
  <2>3. CASE f.len < 126
    <3>1. l = f.len
      BY <1>3, <2>3
    <3> HIDE DEF l
    <3> QED
      BY <1>1, <2>3, <3>1
  <2> QED
    BY <1>1, <2>1, <2>2, <2>3
<1> HIDE DEF h, l
<1> QED
  BY <1>1, <1>2, <1>7 DEF PayloadLength, Payload, h

-----------------------------------------------------------------------------
(* The key of a masked payload.                                            *)

(* The key as it is from byte p of the payload.                            *)
Key(p) == [i \in 1..4 |-> <<"key", (p + i - 1) % 4>>]

(* A key has four bytes.                                                   *)
LEMMA KeyIsSeq == ASSUME NEW p PROVE Len(Key(p)) = 4
<1>1. \A i \in 1..4 : <<"key", (p + i - 1) % 4>> \in {<<"key", (p + j - 1) % 4>> : j \in 1..4}
  OBVIOUS
<1>2. Key(p) \in [1..4 -> {<<"key", (p + j - 1) % 4>> : j \in 1..4}]
  BY <1>1, Zenon DEF Key
<1> QED
  BY <1>2, TupleIsSeq

(* A key that is rotated has four bytes.                                   *)
LEMMA RotateIsSeq == ASSUME NEW k, NEW n PROVE Len(Rotate(k, n)) = 4
<1> DEFINE S == {k[1 + ((i - 1 + n) % 4)] : i \in 1..4}
<1>1. Rotate(k, n) \in [1..4 -> S]
  BY Zenon DEF Rotate
<1> HIDE DEF S
<1> QED
  BY <1>1, TupleIsSeq

(* Remainders by four of a sum.                                            *)
LEMMA Remainders ==
  ASSUME NEW a \in Nat, NEW b \in Nat
  PROVE  /\ (a + (b % 4)) % 4 = (a + b) % 4
         /\ b % 4 \in 0..3 /\ 1 + (b % 4) \in 1..4
OBVIOUS

(* Byte b of the key, counted from byte p of the payload.                  *)
LEMMA KeyByte ==
  ASSUME NEW p \in Nat, NEW b \in Nat
  PROVE  Key(p)[1 + (b % 4)] = <<"key", (p + b) % 4>>
<1> DEFINE i == 1 + (b % 4)
<1>1. i \in 1..4 /\ p + i - 1 = p + (b % 4)
  BY Remainders
<1>2. (p + i - 1) % 4 = (p + b) % 4
  BY <1>1, Remainders
<1> HIDE DEF i
<1>3. Key(p)[i] = <<"key", (p + i - 1) % 4>>
  BY <1>1 DEF Key
<1> QED
  BY <1>2, <1>3 DEF i

(* Rotating the key advances it.                                           *)
LEMMA RotateAdvances ==
  ASSUME NEW p \in Nat, NEW n \in Nat
  PROVE  Rotate(Key(p), n) = Key(p + n)
<1>1. ASSUME NEW i \in 1..4
      PROVE  Key(p)[1 + ((i - 1 + n) % 4)] = <<"key", (p + n + i - 1) % 4>>
  <2>1. i - 1 + n \in Nat /\ p + (i - 1 + n) = p + n + i - 1
    OBVIOUS
  <2> QED
    BY <2>1, KeyByte
<1> QED
  BY <1>1, Zenon DEF Rotate, Key

(* Keys are the same up to a multiple of four.                             *)
LEMMA KeyRemainder ==
  ASSUME NEW p \in Nat, NEW n \in Nat
  PROVE  Key(p + (n % 4)) = Key(p + n)
<1>1. ASSUME NEW i \in 1..4
      PROVE  ((p + (n % 4)) + i - 1) % 4 = ((p + n) + i - 1) % 4
  <2>1. p + i - 1 \in Nat /\ (p + (n % 4)) + i - 1 = (p + i - 1) + (n % 4)
        /\ (p + n) + i - 1 = (p + i - 1) + n
    BY Remainders
  <2> QED
    BY <2>1, Remainders
<1> QED
  BY <1>1, Zenon DEF Key

(* Each byte of a read is unmasked with its own byte of the key, at any    *)
(* address, and the key kept is the one of the byte that follows.          *)
LEMMA UnmaskInStep ==
  ASSUME NEW p \in Nat, NEW k \in Nat, NEW align \in 0..3
  PROVE  /\ \A i \in 0..(k - 1) : UnmaskKey(Key(p), align, k, i) = <<"key", (p + i) % 4>>
         /\ UnmaskNext(Key(p), align, k) = Key(p + k)
<1> DEFINE head == UnmaskHead(align, k)
<1>1. head \in Nat /\ head <= k
  <2>1. (4 - align) % 4 \in Nat
    OBVIOUS
  <2> QED
    BY <2>1 DEF UnmaskHead
<1>2. UnmaskNext(Key(p), align, k) = Rotate(Rotate(Key(p), head), (k - head) % 4)
      /\ \A i : UnmaskKey(Key(p), align, k, i) =
                  IF i < head THEN Key(p)[1 + (i % 4)] ELSE Rotate(Key(p), head)[1 + ((i - head) % 4)]
  BY DEF UnmaskNext, UnmaskKey
<1> HIDE DEF head
<1>3. Rotate(Key(p), head) = Key(p + head)
  BY <1>1, RotateAdvances
<1>4. ASSUME NEW i \in 0..(k - 1) PROVE UnmaskKey(Key(p), align, k, i) = <<"key", (p + i) % 4>>
  <2>1. CASE i < head
    <3>1. UnmaskKey(Key(p), align, k, i) = Key(p)[1 + (i % 4)]
      BY <1>2, <2>1
    <3>2. i \in Nat
      OBVIOUS
    <3> QED
      BY <3>1, <3>2, KeyByte
  <2>2. CASE ~(i < head)
    <3>1. i - head \in Nat /\ p + head \in Nat /\ (p + head) + (i - head) = p + i
      BY <1>1, <2>2
    <3>2. Key(p + head)[1 + ((i - head) % 4)] = <<"key", ((p + head) + (i - head)) % 4>>
      BY <3>1, KeyByte
    <3>3. UnmaskKey(Key(p), align, k, i) = Key(p + head)[1 + ((i - head) % 4)]
      BY <1>2, <1>3, <2>2
    <3> QED
      BY <3>1, <3>2, <3>3
  <2> QED
    BY <2>1, <2>2
<1>5. UnmaskNext(Key(p), align, k) = Key(p + k)
  <2>1. k - head \in Nat /\ p + head \in Nat /\ (k - head) % 4 \in Nat
        /\ (p + head) + (k - head) = p + k
    BY <1>1, Remainders
  <2>2. Rotate(Key(p + head), (k - head) % 4) = Key((p + head) + ((k - head) % 4))
    BY <2>1, RotateAdvances
  <2>3. Key((p + head) + ((k - head) % 4)) = Key((p + head) + (k - head))
    BY <2>1, KeyRemainder
  <2> QED
    BY <1>2, <1>3, <2>1, <2>2, <2>3
<1> QED
  BY <1>4, <1>5

(* The mask read is the key, unless the frame is a close.                  *)
LEMMA MaskIsRead ==
  ASSUME NEW f \in PeerFrames
  PROVE  LET m == Mask(Wire(f, FullSize(f)))
         IN /\ Len(m) \in {0, 4}
            /\ m # << >> /\ f.op # OPCODE_CLOSE => m = Key(0)
<1> DEFINE h == Wire(f, FullSize(f))
           n == Len(Header(f))
           S == WireBytes(f)
           m == SubSeq(h, Len(h) - 3, Len(h))
<1>1. FRAME_GET_MASK(h) = f.masked /\ f.masked \in BOOLEAN
  <2>1. FullSize(f) \in Nat /\ FullSize(f) >= 2
    BY FrameSizes
  <2> QED
    BY <2>1, FieldsAreRead, FrameFields
<1>2. CASE ~f.masked
  BY <1>1, <1>2 DEF Mask
<1>3. CASE f.masked
  <2>1. Mask(h) = m
    BY <1>1, <1>3 DEF Mask
  <2>2. /\ h \in Seq(S) /\ Len(h) = FullSize(f)
        /\ \A i \in 1..n : h[i] = Header(f)[i]
    BY HeaderIsRead
  <2>3. n = 2 + ExtLength(f.len) + 4 /\ ExtLength(f.len) \in {0, 2, 8}
        /\ \A i \in 1..4 : Header(f)[i + 2 + ExtLength(f.len)] = <<"key", i - 1>>
    BY <1>3, HeaderIs, FrameFields, ExtLengthIs DEF KeyLength
  <2>4. FullSize(f) \in {n, n + 2} /\ (f.op # OPCODE_CLOSE => FullSize(f) = n)
    BY DEF FullSize
  <2> HIDE DEF h, n, S
  <2>5. Len(h) \in Nat /\ Len(h) >= 4
    BY <2>2, <2>3, <2>4
  <2>6. m \in Seq(S) /\ Len(m) = 4 /\ \A i \in 1..4 : m[i] = h[Len(h) - 4 + i]
    <3> DEFINE a == Len(h) - 3
               b == Len(h)
    <3>1. a \in Nat /\ b \in Nat /\ 1 <= a /\ a <= b + 1 /\ b + 1 - a = 4
          /\ \A i \in 1..4 : a + i - 1 = Len(h) - 4 + i
      BY <2>5
    <3> HIDE DEF a, b
    <3>2. /\ SubSeq(h, a, b) \in Seq(S) /\ Len(SubSeq(h, a, b)) = b + 1 - a
          /\ \A i \in 1..(b + 1 - a) : SubSeq(h, a, b)[i] = h[a + i - 1]
      <4>1. b <= Len(h) /\ h \in Seq(S)
        BY <2>2, <2>5 DEF b
      <4> QED
        BY <3>1, <4>1, SubSeqIs
    <3> QED
      BY <3>1, <3>2 DEF a, b
  <2>7. ASSUME f.op # OPCODE_CLOSE PROVE m = Key(0)
    <3>1. ASSUME NEW i \in 1..4 PROVE m[i] = <<"key", (0 + i - 1) % 4>>
      <4>1. Len(h) - 4 + i \in 1..n /\ Len(h) - 4 + i = i + 2 + ExtLength(f.len)
        BY <2>2, <2>3, <2>4, <2>7, SMTT(60)
      <4>2. m[i] = <<"key", i - 1>>
        BY <2>2, <2>3, <2>6, <4>1
      <4>3. (0 + i - 1) % 4 = i - 1
        OBVIOUS
      <4> QED
        BY <4>2, <4>3
    <3> HIDE DEF m
    <3>2. m = [i \in 1..4 |-> m[i]]
      <4>1. m = [i \in 1..Len(m) |-> m[i]]
        BY <2>6, SeqIsTuple
      <4> QED
        BY <2>6, <4>1
    <3>3. m = [i \in 1..4 |-> <<"key", (0 + i - 1) % 4>>]
      BY <3>1, <3>2, Zenon
    <3> QED
      BY <3>3 DEF Key
  <2> HIDE DEF m
  <2> QED
    BY <2>1, <2>6, <2>7 DEF h
<1> QED
  BY <1>1, <1>2, <1>3

(* The code of a close frame is the two first bytes of its payload, when a *)
(* reason follows.                                                         *)
LEMMA CodeIsRead ==
  ASSUME NEW f \in PeerFrames, ControlPasses(f), f.op = OPCODE_CLOSE
  PROVE  CloseCode(Wire(f, FullSize(f)), Payload(f)) =
           IF f.len > 2 THEN <<<<"pay", 0>>, <<"pay", 1>>>> ELSE << >>
<1> DEFINE h == Wire(f, FullSize(f))
           n == Len(Header(f))
           S == WireBytes(f)
<1>1. f.len \in Nat /\ f.len # 1
  BY FrameFields DEF ControlPasses, ControlOpcodes
<1>2. Payload(f) = IF f.len > 0 THEN f.len - 2 ELSE 0
  BY <1>1 DEF Payload
<1>3. CASE f.len <= 2
  <2>1. Payload(f) = 0
    BY <1>1, <1>2, <1>3
  <2> QED
    BY <1>1, <1>3, <2>1 DEF CloseCode
<1>4. CASE f.len > 2
  <2>1. Payload(f) # 0
    BY <1>1, <1>2, <1>4
  <2>2. CloseCode(h, Payload(f)) = SubSeq(h, Len(h) - 1, Len(h))
    BY <2>1 DEF CloseCode
  <2>3. /\ h \in Seq(S) /\ Len(h) = FullSize(f)
        /\ \A i \in (n + 1)..FullSize(f) : h[i] = <<"pay", i - 1 - n>>
    BY HeaderIsRead
  <2>4. n \in Nat /\ FullSize(f) = n + 2
    BY <1>4, FrameSizes DEF FullSize
  <2> HIDE DEF h, n, S
  <2>5. h[Len(h) - 1] = <<"pay", 0>> /\ h[Len(h)] = <<"pay", 1>>
    <3>1. n + 1 \in (n + 1)..FullSize(f) /\ n + 2 \in (n + 1)..FullSize(f)
          /\ Len(h) - 1 = n + 1 /\ Len(h) = n + 2
      BY <2>3, <2>4
    <3>2. \A i \in (n + 1)..FullSize(f), j \in Nat : j = i - 1 - n => h[i] = <<"pay", j>>
      BY <2>3
    <3>3. 0 = (n + 1) - 1 - n /\ 1 = (n + 2) - 1 - n
      BY <2>4
    <3>4. h[n + 1] = <<"pay", 0>> /\ h[n + 2] = <<"pay", 1>>
      BY <3>1, <3>2, <3>3
    <3> QED
      BY <3>1, <3>4
  <2> DEFINE t == SubSeq(h, Len(h) - 1, Len(h))
  <2>6. t \in Seq(S) /\ Len(t) = 2 /\ t[1] = <<"pay", 0>> /\ t[2] = <<"pay", 1>>
    BY <2>3, <2>4, <2>5
  <2> HIDE DEF t
  <2>7. t = <<<<"pay", 0>>, <<"pay", 1>>>>
    BY <2>6
  <2> QED
    BY <1>4, <2>2, <2>7 DEF t, h
<1> QED
  BY <1>1, <1>3, <1>4

-----------------------------------------------------------------------------
(* The frames that the websock writes.                                     *)

(* The sums of the beginnings of the buffers.                              *)
Sums(r, lens) ==
  /\ r \in [0..Len(lens) -> Nat]
  /\ r[0] = 0 /\ \A k \in 1..Len(lens) : r[k] = r[k - 1] + lens[k]

(* A frame has the length of its buffers, one after the other.             *)
LEMMA BuffersAreSummed ==
  ASSUME NEW op, NEW fin, NEW rsv, NEW lens \in Seq(Nat)
  PROVE  \E r : /\ Sums(r, lens)
                /\ websock_send_internal_v(op, fin, rsv, lens) =
                     IF Len(lens) + 1 > MaxIov THEN << >>
                     ELSE <<Frame(op, fin, rsv, FALSE, r[Len(lens)])>>
<1> DEFINE n == Len(lens)
           r == CHOOSE f : f = [k \in 0..n |-> IF k = 0 THEN 0 ELSE f[k - 1] + lens[k]]
           Turn == [x \in (1..n) \X Nat |-> x[2] + lens[x[1]]]
<1>1. n \in Nat /\ \A k \in 1..n : lens[k] \in Nat
  OBVIOUS
<1>2. PICK f \in [0..n -> Nat] : Recursive(f, n, 0, Turn)
  <2>1. Turn \in [(1..n) \X Nat -> Nat]
    <3>1. \A x \in (1..n) \X Nat : x[2] + lens[x[1]] \in Nat
      BY <1>1
    <3> QED
      BY <3>1, Zenon
  <2> HIDE DEF Turn, n
  <2> QED
    BY <1>1, <2>1, Recursion
<1>3. f = [k \in 0..n |-> IF k = 0 THEN 0 ELSE f[k - 1] + lens[k]]
  <2>1. \A k \in 0..n : k # 0 => k \in 1..n /\ k - 1 \in 0..n
    BY <1>1
  <2>2. \A k \in 1..n : f[k - 1] \in Nat
    BY <2>1, SMTT(60)
  <2>3. \A k \in 1..n : Turn[<<k, f[k - 1]>>] = f[k - 1] + lens[k]
    BY <2>2
  <2>4. f = [k \in 0..n |-> f[k]]
    BY Zenon
  <2> HIDE DEF Turn
  <2> QED
    BY <1>2, <2>1, <2>3, <2>4, Zenon DEF Recursive
<1>4. r = [k \in 0..n |-> IF k = 0 THEN 0 ELSE r[k - 1] + lens[k]]
  BY <1>3, Zenon
<1>5. websock_send_internal_v(op, fin, rsv, lens) =
        IF n + 1 > MaxIov THEN << >> ELSE <<Frame(op, fin, rsv, FALSE, r[n])>>
  BY DEF websock_send_internal_v
<1> HIDE DEF r
<1>6. r[0] = 0 /\ \A k \in 1..n : r[k] = r[k - 1] + lens[k]
  <2>1. 0 \in 0..n /\ \A k \in 1..n : k \in 0..n /\ k # 0
    BY <1>1
  <2> QED
    BY <1>4, <2>1, ZenonT(60)
<1> DEFINE S == {k \in 0..n : r[k] \in Nat}
<1>7. 0..n \subseteq S
  <2>1. 0 \in S
    BY <1>1, <1>6
  <2>2. ASSUME NEW k \in 1..n, k - 1 \in S PROVE k \in S
    <3>1. r[k - 1] \in Nat /\ k \in 0..n /\ lens[k] \in Nat
      BY <1>1, <2>2
    <3>2. r[k - 1] + lens[k] \in Nat
      BY <3>1
    <3> QED
      BY <1>6, <3>1, <3>2
  <2> HIDE DEF S
  <2> QED
    BY <1>1, <2>1, <2>2, UpTo
<1>8. r \in [0..n -> Nat]
  <2>1. r = [k \in 0..n |-> r[k]]
    BY <1>4, Zenon
  <2> QED
    BY <1>7, <2>1, Zenon
<1> QED
  BY <1>5, <1>6, <1>8, Zenon DEF Sums

(* A pong has the length it is asked for.                                  *)
LEMMA PongIs ==
  ASSUME NEW n \in Nat
  PROVE  websock_pong(n) = IF n > 125 THEN << >> ELSE <<Frame(OPCODE_PONG, TRUE, 0, FALSE, n)>>
<1> DEFINE lens == <<n>>
<1>1. lens \in Seq(Nat) /\ Len(lens) = 1 /\ lens[1] = n
  OBVIOUS
<1>2. websock_pong(n) =
        IF n > 125 THEN << >> ELSE websock_send_internal_v(OPCODE_PONG, TRUE, 0, lens)
  BY DEF websock_pong, websock_send_v
<1> HIDE DEF lens
<1>3. PICK r : /\ Sums(r, lens)
               /\ websock_send_internal_v(OPCODE_PONG, TRUE, 0, lens) =
                    IF Len(lens) + 1 > MaxIov THEN << >>
                    ELSE <<Frame(OPCODE_PONG, TRUE, 0, FALSE, r[Len(lens)])>>
  BY <1>1, BuffersAreSummed
<1>4. r[1] = n
  <2>1. r[0] = 0 /\ r[1] = r[1 - 1] + lens[1]
    BY <1>1, <1>3 DEF Sums
  <2> QED
    BY <1>1, <2>1
<1>5. ~(Len(lens) + 1 > MaxIov)
  BY <1>1 DEF MaxIov
<1> QED
  BY <1>1, <1>2, <1>3, <1>4, <1>5

(* A close frame for an error.                                             *)
LEMMA CloseIs ==
  ASSUME NEW code, code # WEBSOCKET_CODE_NOT_SET
  PROVE  \E n \in Nat : websock_close(code, 0) = <<Frame(OPCODE_CLOSE, TRUE, 0, FALSE, n)>>
<1> DEFINE lens == <<2, 0>>
<1>1. lens \in Seq(Nat) /\ Len(lens) = 2
  OBVIOUS
<1>2. websock_close(code, 0) = websock_send_internal_v(OPCODE_CLOSE, TRUE, 0, lens)
  BY DEF websock_close, websock_send_v
<1> HIDE DEF lens
<1>3. PICK r : /\ Sums(r, lens)
               /\ websock_send_internal_v(OPCODE_CLOSE, TRUE, 0, lens) =
                    IF Len(lens) + 1 > MaxIov THEN << >>
                    ELSE <<Frame(OPCODE_CLOSE, TRUE, 0, FALSE, r[Len(lens)])>>
  BY <1>1, BuffersAreSummed
<1>4. r[2] \in Nat
  BY <1>1, <1>3 DEF Sums
<1>5. ~(Len(lens) + 1 > MaxIov)
  BY <1>1 DEF MaxIov
<1> QED
  BY <1>1, <1>2, <1>3, <1>4, <1>5

-----------------------------------------------------------------------------
(* The invariant of the reader.                                            *)

(* The frame of the last byte read, and what remains to read of it.        *)
Current == IF off > 0 THEN cur ELSE cur - 1
Remaining == IF off > 0 THEN WireLength(sent[cur]) - off ELSE 0

(* A header is begun and its frame is not finished.                        *)
InFrame == state # "INIT" /\ header # << >>

(* What the client is told, and what is written to the peer.               *)
Told == [on : {"error", "extension", "frame"}, op : 0..15, fin : BOOLEAN, size : Nat,
         code : {<< >>, <<<<"pay", 0>>, <<"pay", 1>>>>}]
Replies == [op : {OPCODE_CLOSE, OPCODE_PONG}, fin : BOOLEAN, rsv : {0}, masked : BOOLEAN, len : Nat]

(* The values of the variables.                                            *)
PositionInv ==
  /\ sent \in Seq(PeerFrames)
  /\ cur \in 1..(Len(sent) + 1) /\ off \in Nat
  /\ off > 0 => cur <= Len(sent) /\ off < WireLength(sent[cur])

TypesInv ==
  /\ PositionInv
  /\ state \in {"INIT", "START", "LENGTH", "DATA"}
  /\ Len(header) \in 0..14 /\ szhead \in 0..14 /\ length \in Nat /\ Len(mask) \in {0, 4}
  /\ itf \in Itfs
  /\ pc \in {"idle", "loop", "callback", "pong", "drop"}
  /\ events \in Seq(Told) /\ out \in Seq(Replies)
  /\ cut \in BOOLEAN /\ clear = TRUE

(* The bytes of the header are the first ones of the current frame, and    *)
(* those that remain are the ones that the state announces.                *)
StartOfFrame(f) ==
  Len(header) <= 2 /\ szhead = 2 /\ WireLength(f) = Len(header) + Remaining

LengthOfFrame(f) ==
  /\ ControlPasses(f)
  /\ Len(header) \in 2..szhead /\ szhead = FullSize(f)
  /\ WireLength(f) = Len(header) + Remaining

DataOfFrame(f) ==
  /\ ControlPasses(f)
  /\ Len(header) = szhead /\ szhead = FullSize(f)
  /\ length = Remaining /\ length <= Payload(f)
  /\ mask # << >> /\ f.op # OPCODE_CLOSE => mask = Key(f.len - length)

FrameInv ==
  /\ pc \in {"callback", "pong", "drop"} => state = "DATA"
  /\ state \in {"LENGTH", "DATA"} => header # << >>
  /\ state = "START" => szhead = 2
  /\ ~InFrame /\ ~cut => off = 0
  /\ cut => off > 0 /\ ~InFrame
  /\ InFrame => \E f \in PeerFrames :
       /\ Current \in 1..Len(sent) /\ f = sent[Current]
       /\ header = Wire(f, Len(header))
       /\ state = "START" => StartOfFrame(f)
       /\ state = "LENGTH" => LengthOfFrame(f)
       /\ state = "DATA" => DataOfFrame(f)

(* Every frame that is finished, or of which the payload is being read,    *)
(* was reported.                                                           *)
ReportedFrames == IF InFrame /\ state # "DATA" THEN Current - 1 ELSE Current

ReportInv == ~cut => Reported = Notices(SubSeq(sent, 1, ReportedFrames))

(* Every pong answers a ping; the one that pong is about to answer is the  *)
(* last one, which none answers yet.                                       *)
PongInv ==
  \E pick \in [Pongs -> Pings] :
    /\ \A i, j \in Pongs : i < j => pick[i] < pick[j]
    /\ \A i \in Pongs : out[i].len = events[pick[i]].size
    /\ pc = "pong" => /\ Len(events) \in Pings /\ events[Len(events)].size = length
                      /\ \A i \in Pongs : pick[i] < Len(events)

ReaderInv == TypesInv /\ FrameInv /\ ReportInv /\ PongInv

-----------------------------------------------------------------------------
(* Steps of the proof that an action keeps the invariant.                  *)

(* A read returns at least one byte, and what was asked for at most.       *)
LEMMA ReadSizesAre ==
  ASSUME NEW n \in Nat, NEW k \in ReadSizes(n)
  PROVE  Readable /\ k \in 1..n
BY WebsockAssumption DEF ReadSizes

(* Where the reader is.                                                    *)
LEMMA PositionIs ==
  ASSUME PositionInv
  PROVE  /\ cur \in Nat /\ off \in Nat /\ Len(sent) \in Nat
         /\ Readable => cur \in 1..Len(sent) /\ sent[cur] \in PeerFrames
         /\ Current \in 0..Len(sent) /\ Remaining \in Nat
         /\ off > 0 => Readable /\ Current = cur /\ WireLength(sent[cur]) = off + Remaining
         /\ off = 0 => Current = cur - 1 /\ Remaining = 0
         /\ Current \in 1..Len(sent) => sent[Current] \in PeerFrames
<1>1. cur \in 1..(Len(sent) + 1) /\ off \in Nat /\ Len(sent) \in Nat
      /\ \A c \in 1..Len(sent) : sent[c] \in PeerFrames
  BY DEF PositionInv
<1>2. CASE off > 0
  <2>1. cur \in 1..Len(sent) /\ off < WireLength(sent[cur]) /\ sent[cur] \in PeerFrames
    BY <1>1, <1>2 DEF PositionInv
  <2>2. WireLength(sent[cur]) \in Nat
    BY <2>1, FrameSizes
  <2>3. Current = cur /\ Remaining = WireLength(sent[cur]) - off
    BY <1>2 DEF Current, Remaining
  <2>4. \A w, o \in Nat : o < w => w - o \in Nat /\ w = o + (w - o)
    OBVIOUS
  <2>5. Remaining \in Nat /\ WireLength(sent[cur]) = off + Remaining
    BY <1>1, <2>1, <2>2, <2>3, <2>4, Zenon
  <2> QED
    BY <1>1, <1>2, <2>1, <2>3, <2>5 DEF Readable
<1>3. CASE off = 0
  BY <1>1, <1>3 DEF Current, Remaining, Readable
<1> QED
  BY <1>1, <1>2, <1>3

(* After a read the last byte is of the frame that was being read.         *)
LEMMA ConsumeIs ==
  ASSUME PositionInv, Readable, NEW k \in Nat, k > 0, k <= WireLength(sent[cur]) - off,
         Consume(k), sent' = sent
  PROVE  /\ PositionInv'
         /\ Current' = cur /\ Remaining' = WireLength(sent[cur]) - off - k
<1> DEFINE w == WireLength(sent[cur])
<1>1. cur \in 1..Len(sent) /\ off \in Nat /\ sent[cur] \in PeerFrames /\ Len(sent) \in Nat
  BY PositionIs
<1>2. w \in Nat
  BY <1>1, FrameSizes
<1>3. CASE k = w - off
  <2>1. cur' = cur + 1 /\ off' = 0
    BY <1>3 DEF Consume
  <2> HIDE DEF w
  <2>2. PositionInv'
    BY <1>1, <2>1 DEF PositionInv
  <2>3. Current' = cur /\ Remaining' = 0
    BY <1>1, <2>1 DEF Current, Remaining
  <2>4. w - off - k = 0
    BY <1>1, <1>2, <1>3
  <2> QED
    BY <2>2, <2>3, <2>4 DEF w
<1>4. CASE k # w - off
  <2>1. cur' = cur /\ off' = off + k
    BY <1>4 DEF Consume
  <2>2. WireLength(sent[cur])' = w
    BY <2>1
  <2>3. off' \in Nat /\ off' > 0 /\ off' < w /\ w - (off + k) = w - off - k
    <3>1. k <= w - off
      OBVIOUS
    <3> HIDE DEF w
    <3> QED
      BY <1>1, <1>2, <1>4, <2>1, <3>1
  <2>4. Current' = cur /\ Remaining' = w - off'
    BY <2>1, <2>2, <2>3 DEF Current, Remaining
  <2>5. cur' \in 1..(Len(sent') + 1) /\ cur' <= Len(sent')
    BY <1>1, <2>1
  <2>6. off' < WireLength(sent'[cur'])
    BY <2>2, <2>3
  <2>7. PositionInv'
    <3>1. sent' \in Seq(PeerFrames)
      BY DEF PositionInv
    <3> HIDE DEF w
    <3> QED
      BY <2>3, <2>5, <2>6, <3>1 DEF PositionInv
  <2> HIDE DEF w
  <2>8. Remaining' = w - off - k
    BY <2>1, <2>3, <2>4
  <2> QED
    BY <2>4, <2>7, <2>8 DEF w
<1> QED
  BY <1>3, <1>4

(* The current frame, while it is being read.                              *)
LEMMA FrameIs ==
  ASSUME PositionInv, FrameInv, InFrame
  PROVE  LET f == sent[Current]
         IN /\ Current \in 1..Len(sent) /\ f \in PeerFrames
            /\ header = Wire(f, Len(header))
            /\ state = "START" => StartOfFrame(f)
            /\ state = "LENGTH" => LengthOfFrame(f)
            /\ state = "DATA" => DataOfFrame(f)
            /\ ~cut
BY PositionIs DEF FrameInv

(* The frames that were reported are among the ones sent.                  *)
LEMMA ReportedFramesAre ==
  ASSUME PositionInv, FrameInv
  PROVE  ReportedFrames \in 0..Len(sent)
<1>1. Current \in 0..Len(sent) /\ Len(sent) \in Nat
  BY PositionIs
<1>2. InFrame => Current \in 1..Len(sent)
  BY DEF FrameInv
<1> QED
  BY <1>1, <1>2 DEF ReportedFrames

(* The reports stay as they are when no frame more is reported.            *)
LEMMA ReportStays ==
  ASSUME TypesInv, FrameInv, ReportInv, itf' = itf,
         sent' = sent \/ (\E f \in PeerFrames : sent' = Append(sent, f)),
         events' = events \/ events' = Append(events, ErrorEvent),
         ReportedFrames' = ReportedFrames, ~cut' => ~cut
  PROVE  ReportInv'
<1> DEFINE c == ReportedFrames
           s == SubSeq(sent, 1, c)
<1>1. sent \in Seq(PeerFrames) /\ c \in 0..Len(sent)
  BY ReportedFramesAre DEF TypesInv, PositionInv
<1>2. s' = s
  <2> HIDE DEF c
  <2>1. c' = c
    BY DEF c
  <2>2. SubSeq(sent', 1, c) = SubSeq(sent, 1, c)
    <3>1. ASSUME NEW f \in PeerFrames, sent' = Append(sent, f)
          PROVE  SubSeq(sent', 1, c) = SubSeq(sent, 1, c)
      BY <1>1, <3>1
    <3> QED
      BY <3>1
  <2> QED
    BY <2>1, <2>2
<1>3. Reported' = Reported
  <2>1. events \in Seq(Told)
    BY DEF TypesInv
  <2>2. ErrorEvent \in Told
    BY DEF ErrorEvent, Told
  <2>3. Without(Append(events, ErrorEvent), {ErrorEvent}) = Without(events, {ErrorEvent})
    <3>1. ErrorEvent \in {ErrorEvent}
      OBVIOUS
    <3> QED
      BY <2>1, <2>2, <3>1, WithoutAppend, ZenonT(60)
  <2>4. Without(events', {ErrorEvent}) = Without(events, {ErrorEvent})
    BY <2>3, Zenon
  <2>5. ErrorEvent' = ErrorEvent
    BY DEF ErrorEvent
  <2> QED
    BY <2>4, <2>5 DEF Reported
<1> HIDE DEF c, s
<1>4. Notices(s)' = Notices(s)
  BY <1>2, ZenonT(60) DEF Notices, Accepted, Notice
<1>5. ~cut => Reported = Notices(s)
  BY DEF ReportInv, s, c
<1>6. ~cut' => (Reported = Notices(s))'
  BY <1>3, <1>4, <1>5, Zenon
<1> QED
  BY <1>6 DEF ReportInv, s, c

(* One frame more: one notice more if it is accepted.                      *)
LEMMA NoticesAppend ==
  ASSUME NEW s \in Seq(PeerFrames), NEW f \in PeerFrames
  PROVE  Notices(Append(s, f)) = IF Accepted(f) THEN Append(Notices(s), Notice(f)) ELSE Notices(s)
<1> DEFINE D == {g \in PeerFrames : ~Accepted(g)}
           ok == Without(s, D)
           N(t) == [i \in DOMAIN t |-> Notice(t[i])]
<1>1. f \in D <=> ~Accepted(f)
  OBVIOUS
<1> HIDE DEF D
<1>2. Without(Append(s, f), D) = IF f \in D THEN ok ELSE Append(ok, f)
  BY WithoutAppend
<1>3. ok \in Seq(PeerFrames)
  BY WithoutKeeps
<1> HIDE DEF ok
<1>4. N(Append(ok, f)) = Append(N(ok), Notice(f))
  <2> DEFINE S == {Notice(g) : g \in PeerFrames}
             t == Append(ok, f)
  <2>1. N(ok) \in Seq(S) /\ Len(N(ok)) = Len(ok) /\ \A i \in 1..Len(ok) : N(ok)[i] = Notice(ok[i])
    <3>1. DOMAIN ok = 1..Len(ok) /\ Len(ok) \in Nat /\ \A i \in 1..Len(ok) : ok[i] \in PeerFrames
      BY <1>3
    <3>2. N(ok) \in [1..Len(ok) -> S] /\ \A i \in 1..Len(ok) : N(ok)[i] = Notice(ok[i])
      BY <3>1, Zenon
    <3> HIDE DEF N, S
    <3> QED
      BY <3>1, <3>2, TupleIsSeq
  <2>2. t \in Seq(PeerFrames) /\ Len(t) = Len(ok) + 1 /\ t[Len(ok) + 1] = f
        /\ \A i \in 1..Len(ok) : t[i] = ok[i]
    BY <1>3
  <2> HIDE DEF t
  <2>3. N(t) \in Seq(S) /\ Len(N(t)) = Len(t) /\ \A i \in 1..Len(t) : N(t)[i] = Notice(t[i])
    <3>1. DOMAIN t = 1..Len(t) /\ Len(t) \in Nat /\ \A i \in 1..Len(t) : t[i] \in PeerFrames
      BY <2>2
    <3>2. N(t) \in [1..Len(t) -> S] /\ \A i \in 1..Len(t) : N(t)[i] = Notice(t[i])
      BY <3>1, Zenon
    <3> HIDE DEF N, S
    <3> QED
      BY <3>1, <3>2, TupleIsSeq
  <2>4. Notice(f) \in S
    OBVIOUS
  <2> DEFINE a == N(t)
             b == N(ok)
             x == Notice(f)
             u == Append(b, x)
  <2>5. u \in Seq(S) /\ Len(u) = Len(ok) + 1 /\ u[Len(ok) + 1] = x
        /\ \A i \in 1..Len(ok) : u[i] = b[i]
    <3> HIDE DEF b, x, S
    <3>1. b \in Seq(S) /\ Len(b) = Len(ok) /\ x \in S
      BY <2>1, <2>4 DEF b, x
    <3> QED
      BY <3>1
  <2>6. a \in Seq(S) /\ Len(a) = Len(ok) + 1 /\ a[Len(ok) + 1] = x
        /\ \A i \in 1..Len(ok) : a[i] = b[i]
    <3>1. Len(ok) \in Nat
      BY <1>3
    <3>2. Len(ok) + 1 \in 1..Len(t) /\ \A i \in 1..Len(ok) : i \in 1..Len(t)
      BY <2>2, <3>1
    <3> HIDE DEF N, S
    <3> QED
      BY <2>1, <2>2, <2>3, <3>2
  <2> HIDE DEF a, b, x, u, S
  <2>7. \A i \in 1..Len(a) : a[i] = u[i]
    <3>1. Len(ok) \in Nat
      BY <1>3
    <3>2. \A i \in 1..(Len(ok) + 1) : i \in 1..Len(ok) \/ i = Len(ok) + 1
      BY <3>1
    <3> QED
      BY <2>5, <2>6, <3>2
  <2>8. a = u
    BY <2>5, <2>6, <2>7, SameSeq
  <2> QED
    BY <2>8 DEF a, b, x, u, t
<1>5. Notices(s) = N(ok) /\ Notices(Append(s, f)) = N(Without(Append(s, f), D))
  BY Zenon DEF Notices, D, ok
<1> HIDE DEF N
<1> QED
  BY <1>1, <1>2, <1>4, <1>5

(* The reports when a frame more is reported, or refused.                  *)
LEMMA ReportGrows ==
  ASSUME TypesInv, FrameInv, ReportInv, itf' = itf, sent' = sent, cut' = cut,
         NEW f \in PeerFrames, ReportedFrames + 1 \in 1..Len(sent), f = sent[ReportedFrames + 1],
         ReportedFrames' = ReportedFrames + 1,
         \/ Accepted(f) /\ events' = Append(events, Notice(f)) /\ Notice(f) \in Told \ {ErrorEvent}
         \/ ~Accepted(f) /\ events' = Append(events, ErrorEvent)
  PROVE  ReportInv'
<1> DEFINE c == ReportedFrames
           s == SubSeq(sent, 1, c)
           t == SubSeq(sent, 1, c + 1)
           E == {ErrorEvent}
<1>1. sent \in Seq(PeerFrames) /\ c \in 0..Len(sent)
  BY ReportedFramesAre DEF TypesInv, PositionInv
<1>2. t = Append(s, f) /\ s \in Seq(PeerFrames)
  <2>1. c + 1 \in 1..Len(sent) /\ f = sent[c + 1]
    OBVIOUS
  <2> HIDE DEF c
  <2> QED
    BY <1>1, <2>1
<1>3. events \in Seq(Told) /\ ErrorEvent \in Told
  BY DEF TypesInv, ErrorEvent, Told
<1>4. SubSeq(sent, 1, ReportedFrames)' = t
  BY DEF c
<1> HIDE DEF c, s, t
<1>5. Notices(t) = IF Accepted(f) THEN Append(Notices(s), Notice(f)) ELSE Notices(s)
  BY <1>2, NoticesAppend
<1>6. ~cut => Without(events, E) = Notices(s)
  BY DEF ReportInv, s, c, Reported
<1>7. ErrorEvent' = ErrorEvent
  BY DEF ErrorEvent
<1> DEFINE x == Notice(f)
<1>8. ASSUME Accepted(f), events' = Append(events, x), x \in Told \ E
      PROVE  Without(events', E) = Append(Without(events, E), x)
  <2> HIDE DEF x, E
  <2>1. x \in Told /\ x \notin E
    BY <1>8
  <2> QED
    BY <1>3, <1>8, <2>1, WithoutAppend
<1>9. ASSUME events' = Append(events, ErrorEvent)
      PROVE  Without(events', E) = Without(events, E)
  <2>1. ErrorEvent \in E
    OBVIOUS
  <2> HIDE DEF E
  <2> QED
    BY <1>3, <1>9, <2>1, WithoutAppend
<1> HIDE DEF E
<1>10. ~cut => Without(events', E) = Notices(t)
  <2>1. CASE Accepted(f)
    BY <1>5, <1>6, <1>8, <2>1 DEF E
  <2>2. CASE ~Accepted(f)
    BY <1>5, <1>6, <1>9, <2>2
  <2> QED
    BY <2>1, <2>2
<1>11. Notices(SubSeq(sent, 1, ReportedFrames))' = Notices(t)
  <2> DEFINE now == SubSeq(sent, 1, ReportedFrames)
  <2>1. now' = t
    BY <1>4
  <2> HIDE DEF now
  <2>2. Notices(now)' = Notices(t)
    BY <2>1, ZenonT(60) DEF Notices, Accepted, Notice
  <2> QED
    BY <2>2 DEF now
<1>12. Reported' = Without(events', E)
  BY <1>7 DEF Reported, E
<1> QED
  BY <1>10, <1>11, <1>12 DEF ReportInv

(* The pongs still answer the pings when none is written.                  *)
LEMMA PongStays ==
  ASSUME TypesInv, PongInv, pc' # "pong",
         out' = out \/ (\E r \in Replies : r.op # OPCODE_PONG /\ out' = Append(out, r)),
         events' = events \/ (\E e \in Told : events' = Append(events, e))
  PROVE  PongInv'
<1>1. out \in Seq(Replies) /\ events \in Seq(Told)
  BY DEF TypesInv
<1>2. DOMAIN out = 1..Len(out) /\ Len(out) \in Nat /\ DOMAIN events = 1..Len(events) /\ Len(events) \in Nat
  BY <1>1
<1>3. PICK pick \in [Pongs -> Pings] :
        /\ \A i, j \in Pongs : i < j => pick[i] < pick[j]
        /\ \A i \in Pongs : out[i].len = events[pick[i]].size
  BY DEF PongInv
<1>4. Pongs' = Pongs /\ \A i \in Pongs : out'[i] = out[i]
  <2>1. CASE out' = out
    BY <2>1 DEF Pongs
  <2>2. CASE \E r \in Replies : r.op # OPCODE_PONG /\ out' = Append(out, r)
    <3>1. PICK r \in Replies : r.op # OPCODE_PONG /\ out' = Append(out, r)
      BY <2>2
    <3>2. /\ DOMAIN out' = 1..(Len(out) + 1) /\ out'[Len(out) + 1] = r
          /\ \A i \in 1..Len(out) : out'[i] = out[i]
      BY <1>1, <3>1
    <3>3. \A i \in 1..(Len(out) + 1) : i \in 1..Len(out) \/ i = Len(out) + 1
      BY <1>2
    <3>4. \A i : i \in Pongs' <=> i \in 1..(Len(out) + 1) /\ out'[i].op = OPCODE_PONG
      BY <3>2 DEF Pongs
    <3>5. \A i : i \in Pongs <=> i \in 1..Len(out) /\ out[i].op = OPCODE_PONG
      BY <1>2 DEF Pongs
    <3>6. \A i : i \in 1..Len(out) => i \in 1..(Len(out) + 1)
      BY <1>2
    <3>7. \A i : i \in Pongs' <=> i \in Pongs
      BY <3>1, <3>2, <3>3, <3>4, <3>5, <3>6, Zenon
    <3> QED
      BY <3>2, <3>5, <3>7
  <2> QED
    BY <2>1, <2>2
<1>5. \A i \in Pings : i \in Pings' /\ events'[i] = events[i]
  <2>1. CASE events' = events
    BY <2>1 DEF Pings
  <2>2. CASE \E e \in Told : events' = Append(events, e)
    <3>1. PICK e \in Told : events' = Append(events, e)
      BY <2>2
    <3>2. /\ DOMAIN events' = 1..(Len(events) + 1)
          /\ \A i \in 1..Len(events) : events'[i] = events[i]
      BY <1>1, <3>1
    <3>3. \A i \in 1..Len(events) : i \in 1..(Len(events) + 1)
      BY <1>2
    <3> QED
      BY <1>2, <3>2, <3>3, Zenon DEF Pings
  <2> QED
    BY <2>1, <2>2
<1>6. pick \in [Pongs' -> Pings']
  <2>1. \A i \in Pongs : pick[i] \in Pings'
    BY <1>5
  <2> QED
    BY <1>4, <2>1
<1>7. \A i \in Pongs' : out'[i].len = events'[pick[i]].size
  BY <1>3, <1>4, <1>5
<1>8. \A i, j \in Pongs' : i < j => pick[i] < pick[j]
  BY <1>3, <1>4
<1> QED
  BY <1>6, <1>7, <1>8, Zenon DEF PongInv

(* What is in INIT is a frame that was read or nothing.                    *)
LEMMA BetweenFrames ==
  ASSUME PositionInv, FrameInv, ~cut, ~InFrame
  PROVE  off = 0 /\ ReportedFrames = cur - 1
<1>1. off = 0
  BY DEF FrameInv
<1> QED
  BY <1>1, PositionIs DEF ReportedFrames

(* The end of a frame: no byte of it remains.                              *)
LEMMA FrameEnds ==
  ASSUME TypesInv, FrameInv, state = "DATA", state' = "INIT", cut' = (cut \/ length # 0),
         pc' \in {"idle", "loop"}, UNCHANGED <<conn, header, szhead, length, mask>>
  PROVE  FrameInv' /\ ReportedFrames' = ReportedFrames
<1>1. PositionInv /\ PositionInv'
  BY DEF TypesInv, PositionInv, conn
<1>2. InFrame /\ ~InFrame'
  BY DEF FrameInv, InFrame
<1>3. length = Remaining /\ ~cut
  BY <1>1, <1>2, FrameIs DEF DataOfFrame
<1>4. off \in Nat /\ Remaining \in Nat /\ (off = 0 => Remaining = 0)
      /\ (off > 0 => WireLength(sent[cur]) = off + Remaining /\ off < WireLength(sent[cur]))
  BY <1>1, PositionIs DEF PositionInv
<1>5. Current' = Current /\ off' = off
  BY DEF Current, conn
<1>6. off = 0 <=> length = 0
  <2> DEFINE w == WireLength(sent[cur])
  <2>1. (off > 0 => w = off + Remaining /\ off < w)
    BY <1>4
  <2> HIDE DEF w
  <2> QED
    BY <1>3, <1>4, <2>1
<1>7. FrameInv'
  <2>1. cut' => off' > 0
    <3>1. cut' => length # 0
      BY <1>3
    <3> QED
      BY <1>4, <1>5, <1>6, <3>1
  <2>2. ~cut' => off' = 0
    <3>1. ~cut' => length = 0
      BY <1>3
    <3> QED
      BY <1>5, <1>6, <3>1
  <2> QED
    BY <1>2, <2>1, <2>2 DEF FrameInv
<1>8. ReportedFrames' = ReportedFrames
  BY <1>2, <1>5 DEF ReportedFrames
<1> QED
  BY <1>7, <1>8

(* A read of the payload: whatever its size and the address it is put at,  *)
(* what remains is counted, the key follows.                               *)
LEMMA DataIsRead ==
  ASSUME TypesInv, FrameInv, state = "DATA",
         NEW size \in Nat, size > 0, NEW align \in 0..3, ReadData(size, align),
         UNCHANGED <<sent, state, header, szhead, cut>>
  PROVE  /\ PositionInv' /\ length' \in Nat /\ Len(mask') \in {0, 4} /\ clear' = TRUE
         /\ FrameInv' /\ ReportedFrames' = ReportedFrames
<1> DEFINE f == sent[Current]
           n == IF size > length THEN length ELSE size
<1>1. PositionInv /\ length \in Nat /\ Len(mask) \in {0, 4} /\ clear = TRUE
  BY DEF TypesInv
<1>2. InFrame /\ InFrame'
  BY DEF FrameInv, InFrame
<1>3. Current \in 1..Len(sent) /\ f \in PeerFrames /\ DataOfFrame(f)
      /\ header = Wire(f, Len(header)) /\ ~cut
  BY <1>1, <1>2, FrameIs
<1>4. PICK k \in ReadSizes(n) :
       /\ Consume(k)
       /\ length' = length - k
       /\ mask' = IF mask = << >> THEN mask ELSE UnmaskNext(mask, align, k)
       /\ clear' =
            \/ mask = << >> /\ clear
            \/ FRAME_GET_OPCODE(header) = OPCODE_CLOSE /\ clear
            \/ /\ clear
               /\ \A i \in 0..(k - 1) :
                    UnmaskKey(mask, align, k, i) = <<"key", (PayloadPos + i) % 4>>
  BY DEF ReadData
<1>5. Readable /\ k \in 1..n /\ k \in Nat /\ k <= length /\ length' \in Nat
  <2>1. n \in Nat /\ n <= length
    BY <1>1
  <2> HIDE DEF n
  <2>2. Readable /\ k \in 1..n
    BY <2>1, ReadSizesAre
  <2> QED
    BY <1>1, <1>4, <2>1, <2>2
<1>6. length = Remaining /\ Remaining # 0
  BY <1>3, <1>5 DEF DataOfFrame
<1>7. Current = cur /\ WireLength(sent[cur]) = off + Remaining /\ off \in Nat /\ off > 0
  BY <1>1, <1>6, PositionIs
<1>8. WireLength(sent[cur]) - off = length
  <2> DEFINE w == WireLength(sent[cur])
  <2>1. w = off + length
    BY <1>6, <1>7
  <2> HIDE DEF w
  <2>2. w - off = length
    BY <1>1, <1>7, <2>1
  <2> QED
    BY <2>2 DEF w
<1>9. PositionInv' /\ Current' = cur /\ Remaining' = length - k
  <2>1. k > 0
    BY <1>5
  <2>2. k <= WireLength(sent[cur]) - off
    BY <1>5, <1>8
  <2>3. PositionInv' /\ Current' = cur /\ Remaining' = WireLength(sent[cur]) - off - k
    BY <1>1, <1>4, <1>5, <2>1, <2>2, ConsumeIs
  <2> QED
    BY <1>8, <2>3
<1>10. f = sent[cur] /\ f' = f /\ Current' = Current
  BY <1>7, <1>9
<1>11. /\ ControlPasses(f) /\ Len(header) = szhead /\ szhead = FullSize(f)
       /\ length <= Payload(f) /\ (mask # << >> /\ f.op # OPCODE_CLOSE => mask = Key(f.len - length))
  BY <1>3 DEF DataOfFrame
<1> HIDE DEF f, n
<1>12. f.len \in Nat /\ Payload(f) \in Nat /\ WireLength(f) = FullSize(f) + Payload(f)
       /\ FullSize(f) \in 2..14 /\ Len(Header(f)) \in 2..14 /\ WireLength(f) = Len(Header(f)) + f.len
  BY <1>3, <1>11, FrameSizes, FrameFields
<1>13. FRAME_GET_OPCODE(header) = f.op
  <2>1. Len(header) = FullSize(f)
    BY <1>11
  <2>2. \A s \in 2..14 : s \in Nat /\ s >= 2
    OBVIOUS
  <2>3. Len(header) \in Nat /\ Len(header) >= 2
    BY <1>12, <2>1, <2>2, Zenon
  <2> QED
    BY <1>3, <2>3, FieldsAreRead
<1>14. ASSUME f.op # OPCODE_CLOSE
       PROVE  /\ f.len - length \in Nat /\ PayloadPos = f.len - length
              /\ (f.len - length) + k = f.len - length'
  <2>1. Payload(f) = f.len
    BY <1>14 DEF Payload
  <2>2. PayloadPos = off - Len(Header(f))
    BY <1>10 DEF PayloadPos
  <2> DEFINE h == Len(Header(f))
             w == WireLength(f)
  <2>3. w = off + length /\ w = h + f.len
    BY <1>6, <1>7, <1>10, <1>12
  <2>4. \A s \in 2..14 : s \in Nat
    OBVIOUS
  <2>5. off - h = f.len - length
    <3>1. \A a, b, c, d \in Nat : a + b = c + d => a - c = d - b
      OBVIOUS
    <3>2. h \in Nat
      BY <1>12, <2>4
    <3>3. off + length = h + f.len
      BY <2>3
    <3>4. off \in Nat /\ length \in Nat /\ f.len \in Nat
      BY <1>1, <1>7, <1>12
    <3> HIDE DEF h, w
    <3> QED
      BY <3>1, <3>2, <3>3, <3>4
  <2> HIDE DEF h, w
  <2>6. length <= f.len
    BY <1>11, <2>1
  <2> QED
    BY <1>1, <1>4, <1>5, <1>12, <2>2, <2>5, <2>6, SMTT(60) DEF h
<1>15. Len(mask') \in {0, 4}
  <2>1. Len(UnmaskNext(mask, align, k)) = 4
    BY RotateIsSeq DEF UnmaskNext
  <2> QED
    BY <1>1, <1>4, <2>1
<1>16. ASSUME mask # << >>, f.op # OPCODE_CLOSE
       PROVE  /\ mask' = Key(f.len - length')
              /\ \A i \in 0..(k - 1) :
                   UnmaskKey(mask, align, k, i) = <<"key", (PayloadPos + i) % 4>>
  <2> DEFINE p == f.len - length
  <2>1. p \in Nat /\ mask = Key(p) /\ PayloadPos = p /\ p + k = f.len - length'
    BY <1>11, <1>14, <1>16
  <2> HIDE DEF p
  <2>2. /\ \A i \in 0..(k - 1) : UnmaskKey(Key(p), align, k, i) = <<"key", (p + i) % 4>>
        /\ UnmaskNext(Key(p), align, k) = Key(p + k)
    BY <1>5, <2>1, UnmaskInStep
  <2> QED
    BY <1>4, <1>16, <2>1, <2>2
<1>17. clear' = TRUE
  BY <1>1, <1>4, <1>13, <1>16
<1>18. mask' # << >> /\ f.op # OPCODE_CLOSE => mask' = Key(f.len - length')
  BY <1>4, <1>16
<1>19. (/\ ControlPasses(f)
        /\ Len(header) = szhead /\ szhead = FullSize(f)
        /\ length = Remaining /\ length <= Payload(f)
        /\ mask # << >> /\ f.op # OPCODE_CLOSE => mask = Key(f.len - length))'
  <2>1. length' = Remaining' /\ length' <= Payload(f)
    BY <1>1, <1>4, <1>5, <1>9, <1>11, <1>12
  <2> QED
    BY <1>10, <1>11, <1>18, <2>1 DEF ControlPasses, FullSize, Payload
<1>20. (\E g \in PeerFrames :
         /\ Current \in 1..Len(sent) /\ g = sent[Current]
         /\ header = Wire(g, Len(header))
         /\ DataOfFrame(g))'
  <2>1. Current' \in 1..Len(sent') /\ f = sent'[Current'] /\ header' = Wire(f, Len(header'))
    BY <1>3, <1>10 DEF f
  <2>2. DataOfFrame(f)'
    BY <1>19 DEF DataOfFrame
  <2> QED
    BY <1>3, <1>10, <2>1, <2>2
<1>21. FrameInv'
  <2>1. state' = "DATA" /\ header' # << >> /\ ~cut'
    BY <1>2, <1>3 DEF InFrame
  <2> QED
    BY <1>2, <1>20, <2>1 DEF FrameInv
<1>22. ReportedFrames' = ReportedFrames
  BY <1>10 DEF ReportedFrames
<1> QED
  BY <1>5, <1>9, <1>15, <1>17, <1>21, <1>22

(* The reader stays where it is.                                           *)
LEMMA FrameStays ==
  ASSUME TypesInv, FrameInv,
         sent' = sent \/ (\E f \in PeerFrames : sent' = Append(sent, f)),
         UNCHANGED <<cur, off, state, header, szhead, cut>>,
         state = "DATA" => UNCHANGED <<length, mask>>,
         pc' \in {"callback", "pong", "drop"} => state' = "DATA"
  PROVE  PositionInv' /\ FrameInv' /\ ReportedFrames' = ReportedFrames
<1>1. PositionInv /\ sent \in Seq(PeerFrames)
  BY DEF TypesInv, PositionInv
<1>2. /\ sent' \in Seq(PeerFrames) /\ Len(sent) \in Nat /\ Len(sent') \in Nat /\ Len(sent) <= Len(sent')
      /\ \A i \in 1..Len(sent) : i \in 1..Len(sent') /\ sent'[i] = sent[i]
  BY <1>1
<1>3. off > 0 => cur \in 1..Len(sent) /\ sent'[cur] = sent[cur]
  BY <1>1, <1>2, PositionIs DEF Readable
<1>4. Current' = Current /\ Remaining' = Remaining
  BY <1>3 DEF Current, Remaining
<1>5. PositionInv'
  BY <1>1, <1>2, <1>3 DEF PositionInv
<1>6. InFrame' = InFrame
  BY DEF InFrame
<1>7. ASSUME InFrame
      PROVE  \E f \in PeerFrames :
               /\ Current' \in 1..Len(sent') /\ f = sent'[Current']
               /\ header' = Wire(f, Len(header'))
               /\ state' = "START" => StartOfFrame(f)'
               /\ state' = "LENGTH" => LengthOfFrame(f)'
               /\ state' = "DATA" => DataOfFrame(f)'
  <2> DEFINE f == sent[Current]
  <2>1. /\ Current \in 1..Len(sent) /\ f \in PeerFrames
        /\ header = Wire(f, Len(header))
        /\ state = "START" => StartOfFrame(f)
        /\ state = "LENGTH" => LengthOfFrame(f)
        /\ state = "DATA" => DataOfFrame(f)
    BY <1>1, <1>7, FrameIs
  <2>2. f = sent'[Current'] /\ Current' \in 1..Len(sent') /\ f' = f
    BY <1>2, <1>4, <2>1
  <2> HIDE DEF f
  <2>3. /\ StartOfFrame(f) => StartOfFrame(f)'
        /\ LengthOfFrame(f) => LengthOfFrame(f)'
        /\ state = "DATA" /\ DataOfFrame(f) => DataOfFrame(f)'
    BY <1>4, <2>2 DEF StartOfFrame, LengthOfFrame, DataOfFrame, ControlPasses, FullSize, Payload
  <2>4. \A g : g = f => (StartOfFrame(g)' <=> StartOfFrame(f)')
                        /\ (LengthOfFrame(g)' <=> LengthOfFrame(f)')
                        /\ (DataOfFrame(g)' <=> DataOfFrame(f)')
    BY <2>2 DEF StartOfFrame, LengthOfFrame, DataOfFrame, ControlPasses, FullSize, Payload
  <2> QED
    BY <2>1, <2>2, <2>3, <2>4
<1>8. FrameInv'
  BY <1>6, <1>7 DEF FrameInv
<1>9. ReportedFrames' = ReportedFrames
  BY <1>4, <1>6 DEF ReportedFrames
<1> QED
  BY <1>5, <1>8, <1>9

(* What an error tells the client and the peer.                            *)
LEMMA ErrorIs ==
  ASSUME TypesInv, NEW code, code # WEBSOCKET_CODE_NOT_SET, websock_error(code)
  PROVE  /\ pc' = "idle" /\ events' = Append(events, ErrorEvent) /\ ErrorEvent \in Told
         /\ events' \in Seq(Told) /\ out' \in Seq(Replies)
         /\ out' = out \/ \E r \in Replies : r.op # OPCODE_PONG /\ out' = Append(out, r)
<1>1. events \in Seq(Told) /\ out \in Seq(Replies)
  BY DEF TypesInv
<1>2. ErrorEvent \in Told
  BY DEF ErrorEvent, Told
<1>3. /\ pc' = "idle" /\ events' = Append(events, ErrorEvent)
      /\ out' = out \/ out' = out \o websock_close(code, 0)
  BY DEF websock_error, Writes
<1>4. PICK n \in Nat : websock_close(code, 0) = <<Frame(OPCODE_CLOSE, TRUE, 0, FALSE, n)>>
  BY CloseIs
<1> DEFINE r == Frame(OPCODE_CLOSE, TRUE, 0, FALSE, n)
<1>5. r \in Replies /\ r.op # OPCODE_PONG
  BY DEF Frame, Replies, OPCODE_CLOSE, OPCODE_PONG
<1> HIDE DEF r
<1>6. (out' = out \/ out' = Append(out, r)) /\ out' \in Seq(Replies)
  <2>1. out' = out \/ out' = out \o <<r>>
    BY <1>3, <1>4 DEF r
  <2>2. CASE out' = out
    BY <1>1, <2>2
  <2>3. CASE out' = out \o <<r>>
    BY <1>1, <1>5, <2>3
  <2> QED
    BY <2>1, <2>2, <2>3
<1>7. events' \in Seq(Told)
  BY <1>1, <1>2, <1>3
<1> QED
  BY <1>2, <1>3, <1>5, <1>6, <1>7

-----------------------------------------------------------------------------
(* Each action keeps the invariant.                                        *)

(* The invariant holds when the websock is created.                        *)
LEMMA InitHolds == ASSUME Init PROVE ReaderInv
<1>1. TypesInv
  <2>1. sent \in Seq(PeerFrames) /\ events \in Seq(Told) /\ out \in Seq(Replies)
        /\ Len(sent) = 0 /\ Len(header) = 0 /\ Len(mask) = 0
    BY DEF Init
  <2>2. PositionInv
    <3>1. cur = 1 /\ off = 0
      BY DEF Init
    <3> QED
      BY <2>1, <3>1 DEF PositionInv
  <2>3. /\ state = "INIT" /\ szhead = 0 /\ length = 0 /\ itf \in Itfs /\ pc = "idle"
        /\ cut = FALSE /\ clear = TRUE
    BY DEF Init
  <2>4. Len(header) \in 0..14 /\ szhead \in 0..14 /\ length \in Nat /\ Len(mask) \in {0, 4}
    BY <2>1, <2>3
  <2>5. /\ state \in {"INIT", "START", "LENGTH", "DATA"}
        /\ pc \in {"idle", "loop", "callback", "pong", "drop"}
        /\ cut \in BOOLEAN
    BY <2>3
  <2> QED
    BY <2>1, <2>2, <2>3, <2>4, <2>5, Zenon DEF TypesInv
<1>2. FrameInv
  BY DEF Init, FrameInv, InFrame
<1>3. ReportInv
  <2>1. \A V : << >> \in Seq(V) /\ Len(<< >>) = 0
    OBVIOUS
  <2>2. ASSUME NEW V, NEW D PROVE Without(<< >>, D) = << >>
    <3>1. PICK kept : Filters(kept, << >>, D) /\ Without(<< >>, D) = kept[Len(<< >>)]
      BY <2>1, WithoutFilters
    <3> QED
      BY <2>1, <3>1 DEF Filters
  <2>3. ReportedFrames = 0 /\ SubSeq(sent, 1, 0) = << >>
    BY DEF Init, ReportedFrames, InFrame, Current
  <2>4. Reported = << >>
    BY <2>2 DEF Init, Reported
  <2>5. Notices(<< >>) = << >>
    <3> DEFINE D == {f \in PeerFrames : ~Accepted(f)}
    <3>1. Notices(<< >>) = [i \in DOMAIN Without(<< >>, D) |-> Notice(Without(<< >>, D)[i])]
      BY DEF Notices
    <3> HIDE DEF D
    <3>2. Notices(<< >>) = [i \in DOMAIN << >> |-> Notice(<< >>[i])]
      BY <2>2, <3>1
    <3> QED
      BY <3>2
  <2> QED
    BY <2>3, <2>4, <2>5 DEF ReportInv
<1>4. PongInv
  <2>1. Pongs = {}
    BY DEF Init, Pongs
  <2>2. pc # "pong"
    BY DEF Init
  <2>3. [i \in {} |-> 0] \in [Pongs -> Pings]
    BY <2>1
  <2> QED
    BY <2>1, <2>2, <2>3 DEF PongInv
<1> QED
  BY <1>1, <1>2, <1>3, <1>4 DEF ReaderInv

(* The peer writes a frame more.                                           *)
LEMMA PeerWritesHolds ==
  ASSUME ReaderInv, NEW f \in PeerFrames, PeerWrites(f)
  PROVE  ReaderInv'
<1>1. TypesInv /\ FrameInv /\ ReportInv /\ PongInv
  BY DEF ReaderInv
<1>2. sent' = Append(sent, f)
      /\ UNCHANGED <<cur, off, state, header, szhead, length, mask, itf, pc, loop, events, out, cut, clear>>
  BY DEF PeerWrites, ws
<1>3. PositionInv' /\ FrameInv' /\ ReportedFrames' = ReportedFrames
  <2>1. pc' \in {"callback", "pong", "drop"} => state' = "DATA"
    BY <1>1, <1>2 DEF FrameInv
  <2> QED
    BY <1>1, <1>2, <2>1, FrameStays
<1>4. TypesInv'
  BY <1>1, <1>2, <1>3 DEF TypesInv
<1>5. ReportInv'
  BY <1>1, <1>2, <1>3, ReportStays
<1>6. PongInv'
  BY <1>1, <1>2, ZenonT(60) DEF PongInv, Pongs, Pings
<1> QED
  BY <1>3, <1>4, <1>5, <1>6 DEF ReaderInv

(* websock_dispatch is called.                                             *)
LEMMA DispatchHolds ==
  ASSUME ReaderInv, NEW lp \in BOOLEAN, websock_dispatch(lp)
  PROVE  ReaderInv'
<1>1. TypesInv /\ FrameInv /\ ReportInv /\ PongInv
  BY DEF ReaderInv
<1>2. pc' = "loop"
      /\ UNCHANGED <<sent, cur, off, state, header, szhead, length, mask, itf, events, out, cut, clear>>
  BY DEF websock_dispatch, conn, ws
<1>3. PositionInv' /\ FrameInv' /\ ReportedFrames' = ReportedFrames
  BY <1>1, <1>2, FrameStays
<1>4. TypesInv'
  BY <1>1, <1>2, <1>3 DEF TypesInv
<1>5. ReportInv'
  BY <1>1, <1>2, <1>3, ReportStays
<1>6. PongInv'
  BY <1>1, <1>2, PongStays
<1> QED
  BY <1>3, <1>4, <1>5, <1>6 DEF ReaderInv

(* The client reads some of the payload.                                   *)
LEMMA ReadHolds ==
  ASSUME ReaderInv, NEW size \in Sizes, NEW align \in 0..3, websock_read(size, align)
  PROVE  ReaderInv'
<1>1. TypesInv /\ FrameInv /\ ReportInv /\ PongInv
  BY DEF ReaderInv
<1>2. state = "DATA" /\ pc \in {"idle", "callback"} /\ ReadData(size, align)
      /\ UNCHANGED <<sent, state, header, szhead, itf, pc, loop, events, out, cut>>
  BY DEF websock_read
<1>3. size \in Nat /\ size > 0
  BY WebsockAssumption
<1>4. /\ PositionInv' /\ length' \in Nat /\ Len(mask') \in {0, 4} /\ clear' = TRUE
      /\ FrameInv' /\ ReportedFrames' = ReportedFrames
  BY <1>1, <1>2, <1>3, DataIsRead
<1>5. TypesInv'
  BY <1>1, <1>2, <1>4 DEF TypesInv
<1>6. ReportInv'
  BY <1>1, <1>2, <1>4, ReportStays
<1>7. PongInv'
  BY <1>1, <1>2, PongStays
<1> QED
  BY <1>4, <1>5, <1>6, <1>7 DEF ReaderInv

(* A header is going to be read.                                           *)
LEMMA StateInitHolds ==
  ASSUME ReaderInv, StateInit
  PROVE  ReaderInv'
<1>1. TypesInv /\ FrameInv /\ ReportInv /\ PongInv
  BY DEF ReaderInv
<1>2. /\ pc = "loop" /\ state = "INIT" /\ header' = << >> /\ szhead' = 2 /\ state' = "START"
      /\ UNCHANGED <<sent, cur, off, length, mask, itf, pc, loop, events, out, cut, clear>>
  BY DEF StateInit, conn
<1>3. PositionInv' /\ Current' = Current
  BY <1>1, <1>2 DEF TypesInv, PositionInv, Current
<1>4. TypesInv'
  <2>1. Len(header') = 0
    BY <1>2
  <2> QED
    BY <1>1, <1>2, <1>3, <2>1 DEF TypesInv
<1>5. ~InFrame /\ ~InFrame'
  BY <1>2 DEF InFrame
<1>6. FrameInv'
  BY <1>1, <1>2, <1>5 DEF FrameInv
<1>7. ReportedFrames' = ReportedFrames
  BY <1>3, <1>5 DEF ReportedFrames
<1>8. ReportInv'
  BY <1>1, <1>2, <1>7, ReportStays
<1>9. PongInv'
  BY <1>1, <1>2, PongStays
<1> QED
  BY <1>4, <1>6, <1>8, <1>9 DEF ReaderInv

(* Bytes of a header are read, or there are none.                          *)
LEMMA ReadHeaderHolds ==
  ASSUME ReaderInv, read_header
  PROVE  ReaderInv'
<1>1. TypesInv /\ FrameInv /\ ReportInv /\ PongInv
  BY DEF ReaderInv
<1>2. /\ pc = "loop" /\ state \in {"START", "LENGTH"} /\ Len(header) < szhead
      /\ UNCHANGED <<sent, state, szhead, length, mask, itf, loop, events, out, cut, clear>>
  BY DEF read_header
<1>3. PositionInv /\ Len(header) \in Nat /\ szhead \in Nat
  BY <1>1 DEF TypesInv
<1>4. CASE pc' = "idle" /\ UNCHANGED <<cur, off, header>>
  <2>1. PositionInv' /\ FrameInv' /\ ReportedFrames' = ReportedFrames
    BY <1>1, <1>2, <1>4, FrameStays
  <2>2. TypesInv'
    BY <1>1, <1>2, <1>4, <2>1 DEF TypesInv
  <2>3. ReportInv' /\ PongInv'
    BY <1>1, <1>2, <1>4, <2>1, ReportStays, PongStays
  <2> QED
    BY <2>1, <2>2, <2>3 DEF ReaderInv
<1>5. ASSUME off = Len(header), NEW k \in ReadSizes(szhead - Len(header)), Consume(k),
             header' = header \o Bytes(k), pc' \in {"idle", "loop"}
      PROVE  ReaderInv'
  <2> DEFINE m == Len(header)
  <2>1. Readable /\ k \in Nat /\ k > 0 /\ m + k <= szhead
    <3> DEFINE n == szhead - m
    <3>1. n \in Nat
      BY <1>2, <1>3
    <3> HIDE DEF n, m
    <3>2. Readable /\ k \in 1..n
      BY <1>5, <3>1, ReadSizesAre DEF n, m
    <3>3. m + k <= szhead
      BY <1>2, <1>3, <3>2 DEF n, m
    <3> QED
      BY <3>2, <3>3
  <2>2. cur \in 1..Len(sent) /\ sent[cur] \in PeerFrames
    BY <1>3, <2>1, PositionIs
  <2>g. PICK g \in PeerFrames : g = sent[cur]
    BY <2>2
  <2>3. ~cut
    BY <1>1, <1>2, <1>5 DEF FrameInv, InFrame
  <2>4. header = Wire(g, m) /\ szhead <= WireLength(g) /\ ReportedFrames = cur - 1
        /\ (state = "LENGTH" => ControlPasses(g) /\ szhead = FullSize(g) /\ m >= 2)
        /\ (state = "START" => szhead = 2)
    <3>1. CASE header = << >>
      <4>1. state = "START" /\ ~InFrame /\ szhead = 2
        BY <1>1, <1>2, <3>1 DEF FrameInv, InFrame
      <4>2. m = 0 /\ off = 0
        BY <1>5, <3>1
      <4>3. Wire(g, 0) = << >>
        <5>1. Wire(g, 0) \in Seq(WireBytes(g)) /\ Len(Wire(g, 0)) = 0
          BY WireIsSeq
        <5> QED
          BY <5>1
      <4>4. szhead <= WireLength(g)
        BY <4>1, TwoBytesAtLeast
      <4>5. ReportedFrames = cur - 1
        BY <1>3, <2>3, <4>1, <1>1, BetweenFrames
      <4> QED
        BY <3>1, <4>1, <4>2, <4>3, <4>4, <4>5, Zenon
    <3>2. CASE header # << >>
      <4> DEFINE f == sent[Current]
      <4>1. InFrame
        BY <1>2, <3>2 DEF InFrame
      <4>2. /\ f \in PeerFrames /\ header = Wire(f, m)
            /\ state = "START" => StartOfFrame(f)
            /\ state = "LENGTH" => LengthOfFrame(f)
        BY <1>1, <1>3, <4>1, FrameIs
      <4>3. m > 0
        <5>1. m # 0
          <6>1. header \in Seq(WireBytes(f))
            BY <1>3, <4>2, WireIsSeq
          <6> HIDE DEF f
          <6> QED
            BY <3>2, <6>1
        <5> QED
          BY <1>3, <5>1
      <4>4. Current = cur /\ f = g
        BY <1>3, <1>5, <2>g, <4>3, PositionIs
      <4>5. ReportedFrames = cur - 1
        BY <1>2, <4>1, <4>4 DEF ReportedFrames
      <4> HIDE DEF f
      <4>6. CASE state = "START"
        <5>1. szhead = 2
          BY <4>2, <4>6 DEF StartOfFrame
        <5>3. szhead <= WireLength(g)
          BY <5>1, TwoBytesAtLeast
        <5> QED
          BY <4>2, <4>4, <4>5, <4>6, <5>1, <5>3
      <4>7. CASE state = "LENGTH"
        <5>1. ControlPasses(g) /\ szhead = FullSize(g) /\ m \in 2..szhead
          BY <4>2, <4>4, <4>7 DEF LengthOfFrame
        <5>2. FullSize(g) \in 2..14 /\ Payload(g) \in Nat /\ WireLength(g) = FullSize(g) + Payload(g)
          BY <4>2, <4>4, <5>1, FrameSizes
        <5>3. szhead <= WireLength(g) /\ m >= 2
          BY <1>3, <5>1, <5>2
        <5> QED
          BY <4>2, <4>4, <4>5, <4>7, <5>1, <5>3
      <4> QED
        BY <1>2, <4>6, <4>7
    <3> QED
      BY <3>1, <3>2
  <2>5. header' = Wire(g, m + k) /\ Len(header') = m + k
    <3>1. Bytes(k) = [i \in 1..k |-> WireByte(g, m + i - 1)]
      BY <1>5, <2>g DEF Bytes
    <3>2. Wire(g, m) \o [i \in 1..k |-> WireByte(g, m + i - 1)] = Wire(g, m + k)
      BY <1>3, <2>1, WireGrows
    <3>3. header' = Wire(g, m + k)
      <4>1. header' = header \o Bytes(k) /\ header = Wire(g, m)
        BY <1>5, <2>4
      <4> QED
        BY <3>1, <3>2, <4>1, Zenon
    <3>4. m + k \in Nat
      BY <1>3, <2>1
    <3>5. Len(Wire(g, m + k)) = m + k
      <4> HIDE DEF m
      <4> QED
        BY <3>4, WireIsSeq
    <3> QED
      BY <3>3, <3>5, Zenon
  <2> DEFINE w == WireLength(g)
  <2>6. PositionInv' /\ Current' = cur /\ Remaining' = w - off - k
    <3>1. w \in Nat
      BY <2>2, FrameSizes
    <3>2. k <= w - off
      <4>1. off = m /\ szhead <= w
        BY <1>5, <2>4
      <4> HIDE DEF w, m
      <4>2. m \in Nat
        BY <1>3 DEF m
      <4> QED
        BY <1>3, <2>1, <3>1, <4>1, <4>2
    <3> QED
      BY <1>2, <1>3, <1>5, <2>g, <2>1, <3>2, ConsumeIs
  <2>7. w = (m + k) + Remaining'
    <3>1. w \in Nat /\ off = m
      BY <1>5, <2>2, FrameSizes
    <3> HIDE DEF w, m
    <3>2. m \in Nat
      BY <1>3 DEF m
    <3> QED
      BY <2>1, <2>6, <3>1, <3>2
  <2>8. header' # << >>
    <3>1. m + k > 0
      BY <1>3, <2>1
    <3> HIDE DEF m
    <3> QED
      BY <2>5, <3>1
  <2>9. InFrame' /\ ReportedFrames' = ReportedFrames
    <3>1. InFrame'
      BY <1>2, <2>8 DEF InFrame
    <3>2. ReportedFrames' = cur - 1
      BY <1>2, <2>6, <3>1 DEF ReportedFrames
    <3> QED
      BY <2>4, <3>1, <3>2
  <2>10. g = sent'[Current']
    BY <1>2, <2>g, <2>6
  <2>11. Current' \in 1..Len(sent')
    BY <1>2, <2>2, <2>6
  <2>12. state' = "START" => StartOfFrame(g)'
    <3> SUFFICES ASSUME state' = "START" PROVE StartOfFrame(g)'
      OBVIOUS
    <3>1. szhead' = 2 /\ Len(header') <= 2 /\ WireLength(g) = Len(header') + Remaining'
      BY <1>2, <2>1, <2>4, <2>5, <2>7
    <3> QED
      BY <3>1 DEF StartOfFrame
  <2>13. state' = "LENGTH" => LengthOfFrame(g)'
    <3> SUFFICES ASSUME state' = "LENGTH" PROVE LengthOfFrame(g)'
      OBVIOUS
    <3>1. ControlPasses(g) /\ szhead' = FullSize(g) /\ m >= 2
      BY <1>2, <2>4
    <3>2. Len(header') \in 2..szhead'
      <4>1. szhead' = szhead
        BY <1>2
      <4>2. Len(header') = m + k
        BY <2>5
      <4> QED
        BY <1>3, <2>1, <3>1, <4>1, <4>2
    <3>3. WireLength(g) = Len(header') + Remaining'
      BY <2>5, <2>7
    <3> QED
      BY <3>1, <3>2, <3>3 DEF LengthOfFrame, ControlPasses, FullSize
  <2>14. FrameInv'
    <3>1. header' = Wire(g, Len(header'))
      BY <2>5
    <3>2. state' \in {"START", "LENGTH"} /\ pc' \in {"idle", "loop"} /\ ~cut' /\ szhead' = szhead
      BY <1>2, <1>5, <2>3
    <3>3. state' = "START" => szhead' = 2
      BY <1>2, <2>4
    <3> QED
      BY <2>8, <2>9, <2>10, <2>11, <2>12, <2>13, <3>1, <3>2, <3>3 DEF FrameInv
  <2>15. TypesInv'
    <3>1. Len(header') \in 0..14
      <4>1. Len(header') = m + k /\ szhead \in 0..14
        BY <1>1, <2>5 DEF TypesInv
      <4> QED
        BY <1>3, <2>1, <4>1, SMTT(60)
    <3>2. PositionInv' /\ pc' \in {"idle", "loop", "callback", "pong", "drop"}
      BY <1>5, <2>6
    <3> QED
      BY <1>1, <1>2, <3>1, <3>2, Zenon DEF TypesInv
  <2>16. ReportInv'
    BY <1>1, <1>2, <2>9, ReportStays
  <2>17. PongInv'
    <3>1. pc' # "pong"
      BY <1>5
    <3> QED
      BY <1>1, <1>2, <3>1, PongStays
  <2> QED
    BY <2>14, <2>15, <2>16, <2>17 DEF ReaderInv
<1> QED
  BY <1>2, <1>4, <1>5 DEF read_header

(* The two first bytes are there: an error, or the size of the header.     *)
LEMMA StateStartHolds ==
  ASSUME ReaderInv, StateStart
  PROVE  ReaderInv'
<1>1. TypesInv /\ FrameInv /\ ReportInv /\ PongInv
  BY DEF ReaderInv
<1>2. /\ pc = "loop" /\ state = "START" /\ Len(header) >= szhead
      /\ UNCHANGED <<sent, cur, off, header, length, mask, itf, loop, cut, clear>>
  BY DEF StateStart, conn
<1>3. PositionInv /\ Len(header) \in Nat /\ szhead = 2
  BY <1>1, <1>2 DEF TypesInv, FrameInv
<1>4. InFrame
  <2>1. Len(header) # 0
    BY <1>2, <1>3
  <2>2. Len(<< >>) = 0
    OBVIOUS
  <2> QED
    BY <1>2, <2>1, <2>2 DEF InFrame
<1>5. PICK f \in PeerFrames :
        /\ f = sent[Current] /\ Current \in 1..Len(sent) /\ header = Wire(f, Len(header))
        /\ StartOfFrame(f) /\ ~cut
  BY <1>1, <1>2, <1>3, <1>4, FrameIs
<1>6. Len(header) = 2 /\ WireLength(f) = Len(header) + Remaining
  <2>1. StartOfFrame(f) /\ Len(header) >= szhead
    BY <1>2, <1>5
  <2> QED
    BY <1>3, <2>1, SMTT(60) DEF StartOfFrame
<1>7. /\ FRAME_GET_OPCODE(header) = f.op
      /\ ControlPasses(f) <=> (f.op \in ControlOpcodes => check_control_header(header))
      /\ HeaderSize(header) = FullSize(f)
  <2>1. header = Wire(f, 2)
    BY <1>5, <1>6
  <2>2. 2 \in Nat /\ 2 >= 2
    OBVIOUS
  <2> QED
    BY <2>1, <2>2, FieldsAreRead, SizeIsRead
<1>8. CASE f.op \in ControlOpcodes /\ ~check_control_header(header)
  <2>1. websock_error(WEBSOCKET_CODE_PROTOCOL_ERROR) /\ UNCHANGED <<state, szhead>>
    BY <1>7, <1>8 DEF StateStart
  <2>2. /\ pc' = "idle" /\ events' = Append(events, ErrorEvent) /\ ErrorEvent \in Told
        /\ events' \in Seq(Told) /\ out' \in Seq(Replies)
        /\ out' = out \/ \E r \in Replies : r.op # OPCODE_PONG /\ out' = Append(out, r)
    BY <1>1, <2>1, ErrorIs DEF WEBSOCKET_CODE_PROTOCOL_ERROR, WEBSOCKET_CODE_NOT_SET
  <2>3. PositionInv' /\ FrameInv' /\ ReportedFrames' = ReportedFrames
    BY <1>1, <1>2, <2>1, <2>2, FrameStays
  <2>4. TypesInv'
    BY <1>1, <1>2, <2>1, <2>2, <2>3 DEF TypesInv
  <2>5. ReportInv' /\ PongInv'
    BY <1>1, <1>2, <2>2, <2>3, ReportStays, PongStays
  <2> QED
    BY <2>3, <2>4, <2>5 DEF ReaderInv
<1>9. CASE ~(f.op \in ControlOpcodes /\ ~check_control_header(header))
  <2>1. szhead' = FullSize(f) /\ state' = "LENGTH" /\ UNCHANGED <<pc, events, out>>
    BY <1>7, <1>9 DEF StateStart
  <2>2. ControlPasses(f)
    BY <1>7, <1>9
  <2>3. FullSize(f) \in 2..14
    BY <2>2, FrameSizes
  <2>4. PositionInv' /\ Current' = Current /\ Remaining' = Remaining
    BY <1>2, <1>3 DEF PositionInv, Current, Remaining
  <2>5. LengthOfFrame(f)'
    <3>1. Len(header') \in 2..szhead' /\ WireLength(f) = Len(header') + Remaining'
      BY <1>2, <1>6, <2>1, <2>3, <2>4
    <3> QED
      BY <2>1, <2>2, <3>1 DEF LengthOfFrame, ControlPasses, FullSize
  <2>6. InFrame' /\ ReportedFrames' = ReportedFrames
    BY <1>2, <1>4, <2>1, <2>4 DEF InFrame, ReportedFrames
  <2>7. FrameInv'
    BY <1>2, <1>4, <1>5, <2>1, <2>4, <2>5, <2>6 DEF FrameInv, InFrame
  <2>8. TypesInv'
    <3>1. szhead' \in 0..14
      BY <2>1, <2>3
    <3> QED
      BY <1>1, <1>2, <2>1, <2>4, <3>1, Zenon DEF TypesInv
  <2>9. ReportInv' /\ PongInv'
    BY <1>1, <1>2, <2>1, <2>6, ReportStays, PongStays
  <2> QED
    BY <2>7, <2>8, <2>9 DEF ReaderInv
<1> QED
  BY <1>8, <1>9

(* What Deliver does with a frame that is known.                           *)
LEMMA DeliverIs ==
  ASSUME TypesInv, NEW f \in PeerFrames, ControlPasses(f), Payload(f) <= MaxLength,
         header = Wire(f, FullSize(f)), length' = Payload(f), Deliver
  PROVE  /\ pc' \in {"idle", "callback", "pong", "drop"}
         /\ \/ /\ ~Accepted(f) /\ pc' = "idle"
               /\ events' = Append(events, ErrorEvent) /\ ErrorEvent \in Told
               /\ out' \in Seq(Replies)
               /\ out' = out \/ \E r \in Replies : r.op # OPCODE_PONG /\ out' = Append(out, r)
            \/ /\ Accepted(f) /\ out' = out
               /\ events' = Append(events, Notice(f)) /\ Notice(f) \in Told \ {ErrorEvent}
               /\ pc' = "pong" => Notice(f).on = "frame" /\ Notice(f).op = OPCODE_PING
                                  /\ Notice(f).size = length'
<1>1. FRAME_GET_OPCODE(header) = f.op /\ FRAME_GET_FIN(header) = f.fin /\ FRAME_GET_RSV(header) = f.rsv
  <2>1. FullSize(f) \in Nat /\ FullSize(f) >= 2
    BY FrameSizes
  <2> QED
    BY <2>1, FieldsAreRead
<1>2. /\ f.op \in 0..15 /\ f.fin \in BOOLEAN /\ f.len \in Nat
      /\ itf.on_extension \in {"none", "no", "yes"} /\ Payload(f) \in Nat
  BY FrameFields, FrameSizes, ItfsAssumption DEF TypesInv
<1>3. f.op = OPCODE_CLOSE =>
        CloseCode(header, length') = IF f.len > 2 THEN <<<<"pay", 0>>, <<"pay", 1>>>> ELSE << >>
  BY CodeIsRead
<1>4. Accepted(f) <=> itf.on_extension = "yes" \/ (f.rsv = 0 /\ f.op \in DataOpcodes \cup ControlOpcodes)
  <2>1. OPCODE_CLOSE \in ControlOpcodes
    BY DEF ControlOpcodes
  <2> QED
    BY <2>1 DEF Accepted, ControlPasses
<1>5. Notice(f) \in Told \ {ErrorEvent}
  <2>1. Notice(f).code \in {<< >>, <<<<"pay", 0>>, <<"pay", 1>>>>}
    BY DEF Notice
  <2>2. Notice(f).on \in {"extension", "frame"} /\ Notice(f).size \in Nat
        /\ Notice(f).op = f.op /\ Notice(f).fin = f.fin
    BY <1>2 DEF Notice
  <2>3. Notice(f) \in Told
    BY <1>2, <2>1, <2>2 DEF Notice, Told
  <2>4. ErrorEvent.on = "error"
    BY DEF ErrorEvent
  <2> QED
    BY <2>2, <2>3, <2>4
<1>6. CASE itf.on_extension = "yes"
  <2>1. pc' = "idle" /\ out' = out
        /\ events' = Append(events, [on |-> "extension", op |-> f.op, fin |-> f.fin,
                                     size |-> Payload(f), code |-> << >>])
    BY <1>1, <1>6 DEF Deliver, Event
  <2>2. Notice(f) = [on |-> "extension", op |-> f.op, fin |-> f.fin, size |-> Payload(f), code |-> << >>]
    BY <1>6 DEF Notice
  <2> QED
    BY <1>4, <1>5, <1>6, <2>1, <2>2
<1>7. CASE itf.on_extension # "yes" /\ (f.rsv # 0 \/ f.op \notin DataOpcodes \cup ControlOpcodes)
  <2>1. websock_error(WEBSOCKET_CODE_PROTOCOL_ERROR)
    BY <1>1, <1>7 DEF Deliver
  <2>2. /\ pc' = "idle" /\ events' = Append(events, ErrorEvent) /\ ErrorEvent \in Told
        /\ out' \in Seq(Replies)
        /\ out' = out \/ \E r \in Replies : r.op # OPCODE_PONG /\ out' = Append(out, r)
    BY <2>1, ErrorIs DEF WEBSOCKET_CODE_PROTOCOL_ERROR, WEBSOCKET_CODE_NOT_SET
  <2> QED
    BY <1>4, <1>7, <2>2
<1>8. CASE itf.on_extension # "yes" /\ ~(f.rsv # 0 \/ f.op \notin DataOpcodes \cup ControlOpcodes)
  <2> DEFINE e == [on |-> "frame", op |-> f.op, fin |-> f.fin, size |-> Payload(f),
                   code |-> IF f.op = OPCODE_CLOSE THEN CloseCode(header, length') ELSE << >>]
  <2>1. /\ events' = Append(events, e) /\ out' = out
        /\ pc' = CASE f.op = OPCODE_PING /\ ~itf.on_ping -> "pong"
                   [] f.op = OPCODE_PONG /\ ~itf.on_pong -> "drop"
                   [] OTHER -> "callback"
    BY <1>1, <1>8 DEF Deliver, Event
  <2>2. Notice(f) = e
    <3>1. e.code = IF f.op = OPCODE_CLOSE /\ f.len > 2 THEN <<<<"pay", 0>>, <<"pay", 1>>>> ELSE << >>
      BY <1>3
    <3>2. Notice(f) = [on |-> "frame", op |-> f.op, fin |-> f.fin, size |-> Payload(f),
                       code |-> IF f.op = OPCODE_CLOSE /\ f.len > 2
                                THEN <<<<"pay", 0>>, <<"pay", 1>>>> ELSE << >>]
      BY <1>8 DEF Notice
    <3> QED
      BY <3>1, <3>2
  <2>3. e.on = "frame" /\ e.op = f.op /\ e.size = Payload(f)
    OBVIOUS
  <2> HIDE DEF e
  <2>4. pc' \in {"callback", "pong", "drop"} /\ (pc' = "pong" => f.op = OPCODE_PING)
    BY <2>1
  <2>5. Accepted(f)
    BY <1>4, <1>8
  <2> QED
    BY <1>5, <2>1, <2>2, <2>3, <2>4, <2>5
<1> QED
  BY <1>6, <1>7, <1>8

(* The ping that pong is going to answer is the last frame that was told,  *)
(* and no pong answers it yet.                                             *)
LEMMA PongAwaited ==
  ASSUME TypesInv, PongInv, out' = out,
         NEW e \in Told, events' = Append(events, e), e.on = "frame", e.op = OPCODE_PING, e.size = length'
  PROVE  PongInv'
<1>1. events \in Seq(Told) /\ events' \in Seq(Told) /\ Len(events) \in Nat /\ Len(events') = Len(events) + 1
      /\ events'[Len(events) + 1] = e /\ \A i \in 1..Len(events) : events'[i] = events[i]
  BY DEF TypesInv
<1>2. PICK pick \in [Pongs -> Pings] :
        /\ \A i, j \in Pongs : i < j => pick[i] < pick[j]
        /\ \A i \in Pongs : out[i].len = events[pick[i]].size
  BY DEF PongInv
<1>3. DOMAIN events = 1..Len(events) /\ DOMAIN events' = 1..(Len(events) + 1)
  BY <1>1
<1>4. \A i \in Pings : i \in 1..Len(events) /\ i \in Pings' /\ events'[i] = events[i]
  <2>1. \A i \in 1..Len(events) : i \in 1..(Len(events) + 1)
    BY <1>1
  <2> QED
    BY <1>1, <1>3, <2>1, Zenon DEF Pings
<1>5. Pongs' = Pongs
  BY DEF Pongs
<1>6. pick \in [Pongs' -> Pings']
  BY <1>4, <1>5
<1>7. Len(events') \in Pings' /\ events'[Len(events')].size = length'
  <2>1. Len(events') \in DOMAIN events'
    BY <1>1, <1>3
  <2>2. events'[Len(events')] = e
    BY <1>1
  <2> QED
    BY <2>1, <2>2 DEF Pings
<1>8. \A i \in Pongs : pick[i] < Len(events')
  <2> SUFFICES ASSUME NEW i \in Pongs PROVE pick[i] < Len(events')
    OBVIOUS
  <2>1. pick[i] \in 1..Len(events)
    BY <1>4
  <2> QED
    BY <1>1, <2>1
<1>9. \A i \in Pongs' : out'[i].len = events'[pick[i]].size
  BY <1>2, <1>4, <1>5
<1> QED
  BY <1>2, <1>5, <1>6, <1>7, <1>8, <1>9, Zenon DEF PongInv

(* The header is complete: the frame is refused, told to the client or     *)
(* handled.                                                                *)
LEMMA StateLengthHolds ==
  ASSUME ReaderInv, StateLength
  PROVE  ReaderInv'
<1>1. TypesInv /\ FrameInv /\ ReportInv /\ PongInv
  BY DEF ReaderInv
<1>2. /\ pc = "loop" /\ state = "LENGTH" /\ Len(header) >= szhead
      /\ length' = PayloadLength(header)
      /\ UNCHANGED <<sent, cur, off, header, szhead, itf, loop, cut, clear>>
  BY DEF StateLength, conn
<1>3. PositionInv /\ InFrame
  BY <1>1, <1>2 DEF TypesInv, FrameInv, InFrame
<1>4. PICK f \in PeerFrames :
        /\ f = sent[Current] /\ Current \in 1..Len(sent) /\ header = Wire(f, Len(header))
        /\ LengthOfFrame(f) /\ ~cut
  BY <1>1, <1>2, <1>3, FrameIs
<1>5. ControlPasses(f) /\ szhead = FullSize(f) /\ Len(header) = FullSize(f)
      /\ WireLength(f) = Len(header) + Remaining
  <2>1. LengthOfFrame(f) /\ Len(header) >= szhead /\ szhead \in 0..14
    BY <1>1, <1>2, <1>4 DEF TypesInv
  <2>2. Len(header) = szhead
    <3>1. Len(header) \in 2..szhead
      BY <2>1 DEF LengthOfFrame
    <3> QED
      BY <2>1, <3>1
  <2> QED
    BY <2>1, <2>2 DEF LengthOfFrame
<1>6. header = Wire(f, FullSize(f))
  BY <1>4, <1>5
<1>7. length' = Payload(f) /\ Payload(f) \in Nat
  BY <1>2, <1>5, <1>6, PayloadIsRead, FrameSizes
<1>8. Remaining \in Nat /\ Remaining = Payload(f)
  <2>1. Remaining \in Nat
    BY <1>3, PositionIs
  <2>2. FullSize(f) \in 2..14 /\ WireLength(f) = FullSize(f) + Payload(f)
    BY <1>5, FrameSizes
  <2>3. \A a \in 2..14, b, c \in Nat : a + b = a + c => b = c
    OBVIOUS
  <2>4. FullSize(f) + Remaining = FullSize(f) + Payload(f)
    BY <1>5, <2>2
  <2> QED
    BY <1>7, <2>1, <2>2, <2>3, <2>4
<1>9. PositionInv' /\ Current' = Current /\ Remaining' = Remaining
  BY <1>2, <1>3 DEF PositionInv, Current, Remaining
<1>10. CASE length' > MaxLength
  <2>1. websock_error(WEBSOCKET_CODE_MESSAGE_TOO_LARGE) /\ UNCHANGED <<state, mask>>
    BY <1>10 DEF StateLength
  <2>2. /\ pc' = "idle" /\ events' = Append(events, ErrorEvent) /\ ErrorEvent \in Told
        /\ events' \in Seq(Told) /\ out' \in Seq(Replies)
        /\ out' = out \/ \E r \in Replies : r.op # OPCODE_PONG /\ out' = Append(out, r)
    BY <1>1, <2>1, ErrorIs DEF WEBSOCKET_CODE_MESSAGE_TOO_LARGE, WEBSOCKET_CODE_NOT_SET
  <2>3. PositionInv' /\ FrameInv' /\ ReportedFrames' = ReportedFrames
    BY <1>1, <1>2, <2>1, <2>2, FrameStays
  <2>4. TypesInv'
    BY <1>1, <1>2, <1>7, <2>1, <2>2, <2>3 DEF TypesInv
  <2>5. ReportInv' /\ PongInv'
    BY <1>1, <1>2, <2>2, <2>3, ReportStays, PongStays
  <2> QED
    BY <2>3, <2>4, <2>5 DEF ReaderInv
<1>11. CASE ~(length' > MaxLength)
  <2>1. mask' = Mask(header) /\ state' = "DATA" /\ Deliver
    BY <1>11 DEF StateLength
  <2>2. Payload(f) <= MaxLength
    BY <1>7, <1>11, WebsockAssumption
  <2>3. /\ pc' \in {"idle", "callback", "pong", "drop"}
        /\ \/ /\ ~Accepted(f) /\ pc' = "idle"
              /\ events' = Append(events, ErrorEvent) /\ ErrorEvent \in Told
              /\ out' \in Seq(Replies)
              /\ out' = out \/ \E r \in Replies : r.op # OPCODE_PONG /\ out' = Append(out, r)
           \/ /\ Accepted(f) /\ out' = out
              /\ events' = Append(events, Notice(f)) /\ Notice(f) \in Told \ {ErrorEvent}
              /\ pc' = "pong" => Notice(f).on = "frame" /\ Notice(f).op = OPCODE_PING
                                 /\ Notice(f).size = length'
    BY <1>1, <1>5, <1>6, <1>7, <2>1, <2>2, DeliverIs
  <2>4. Len(mask') \in {0, 4} /\ (mask' # << >> /\ f.op # OPCODE_CLOSE => mask' = Key(0))
    BY <1>6, <2>1, MaskIsRead
  <2>5. f.op # OPCODE_CLOSE => f.len - length' = 0
    <3>1. f.op # OPCODE_CLOSE => length' = f.len
      BY <1>7 DEF Payload
    <3> QED
      BY <3>1, FrameFields
  <2>6. DataOfFrame(f)'
    <3>1. Len(header') = szhead' /\ szhead' = FullSize(f)
      BY <1>2, <1>5
    <3>2. length' = Remaining' /\ length' <= Payload(f)
      BY <1>7, <1>8, <1>9
    <3>3. mask' # << >> /\ f.op # OPCODE_CLOSE => mask' = Key(f.len - length')
      BY <2>4, <2>5
    <3> QED
      BY <1>5, <3>1, <3>2, <3>3 DEF DataOfFrame, ControlPasses, FullSize, Payload
  <2>7. InFrame' /\ ReportedFrames + 1 = Current /\ ReportedFrames' = ReportedFrames + 1
    <3>1. Current \in Nat
      BY <1>3, PositionIs
    <3>2. InFrame' /\ ReportedFrames = Current - 1 /\ ReportedFrames' = Current
      BY <1>2, <1>3, <1>9, <2>1 DEF InFrame, ReportedFrames
    <3> QED
      BY <3>1, <3>2
  <2>8. FrameInv'
    <3>1. state' = "DATA" /\ header' # << >> /\ ~cut'
      BY <1>2, <1>3, <1>4, <2>1 DEF InFrame
    <3>2. /\ Current' \in 1..Len(sent') /\ f = sent'[Current'] /\ header' = Wire(f, Len(header'))
      BY <1>2, <1>4, <1>9
    <3> QED
      BY <2>6, <2>7, <3>1, <3>2 DEF FrameInv
  <2>9. events \in Seq(Told) /\ out \in Seq(Replies)
    BY <1>1 DEF TypesInv
  <2>10. TypesInv'
    <3>1. events' \in Seq(Told) /\ out' \in Seq(Replies)
      <4>1. \A e \in Told : Append(events, e) \in Seq(Told)
        BY <2>9
      <4> QED
        BY <2>3, <2>9, <4>1, Zenon
    <3>2. pc' \in {"idle", "loop", "callback", "pong", "drop"} /\ length' \in Nat
          /\ state' \in {"INIT", "START", "LENGTH", "DATA"}
      BY <1>7, <2>1, <2>3
    <3> QED
      BY <1>1, <1>2, <1>9, <2>4, <3>1, <3>2, Zenon DEF TypesInv
  <2>11. ReportInv'
    <3>1. ReportedFrames + 1 \in 1..Len(sent) /\ f = sent[ReportedFrames + 1]
      BY <1>4, <2>7
    <3>2. UNCHANGED <<itf, sent, cut>>
      BY <1>2
    <3> QED
      BY <1>1, <2>3, <2>7, <3>1, <3>2, ReportGrows
  <2>12. PongInv'
    <3>1. CASE pc' = "pong"
      <4>1. /\ out' = out /\ events' = Append(events, Notice(f)) /\ Notice(f) \in Told
            /\ Notice(f).on = "frame" /\ Notice(f).op = OPCODE_PING /\ Notice(f).size = length'
        BY <2>3, <3>1
      <4> QED
        BY <1>1, <4>1, PongAwaited
    <3>2. CASE pc' # "pong"
      BY <1>1, <2>3, <3>2, PongStays
    <3> QED
      BY <3>1, <3>2
  <2> QED
    BY <2>8, <2>10, <2>11, <2>12 DEF ReaderInv
<1> QED
  BY <1>10, <1>11

(* The payload is waited for, or the frame is finished.                    *)
LEMMA StateDataHolds ==
  ASSUME ReaderInv, StateData
  PROVE  ReaderInv'
<1>1. TypesInv /\ FrameInv /\ ReportInv /\ PongInv
  BY DEF ReaderInv
<1>2. /\ pc = "loop" /\ state = "DATA"
      /\ UNCHANGED <<sent, cur, off, header, szhead, length, mask, itf, loop, events, out, cut, clear>>
  BY DEF StateData, conn
<1>3. PositionInv'
  BY <1>1, <1>2 DEF TypesInv, PositionInv
<1>4. PongInv' /\ pc' \in {"idle", "loop"}
  <2>1. pc' \in {"idle", "loop"}
    BY <1>2 DEF StateData
  <2> QED
    BY <1>1, <1>2, <2>1, PongStays
<1>5. FrameInv' /\ ReportedFrames' = ReportedFrames /\ state' \in {"INIT", "DATA"}
  <2>1. CASE length # 0
    <3>1. pc' = "idle" /\ state' = state
      BY <2>1 DEF StateData
    <3> QED
      BY <1>1, <1>2, <3>1, FrameStays
  <2>2. CASE length = 0
    <3>1. state' = "INIT"
      BY <2>2 DEF StateData
    <3>2. cut' = (cut \/ length # 0)
      BY <1>1, <1>2, <2>2 DEF TypesInv
    <3>3. UNCHANGED <<conn, header, szhead, length, mask>>
      BY <1>2 DEF conn
    <3> QED
      BY <1>1, <1>2, <1>4, <3>1, <3>2, <3>3, FrameEnds
  <2> QED
    BY <2>1, <2>2
<1>6. TypesInv'
  BY <1>1, <1>2, <1>3, <1>4, <1>5 DEF TypesInv
<1>7. ReportInv'
  BY <1>1, <1>2, <1>5, ReportStays
<1> QED
  BY <1>4, <1>5, <1>6, <1>7 DEF ReaderInv

(* A callback returns.                                                     *)
LEMMA CallbackReturnsHolds ==
  ASSUME ReaderInv, CallbackReturns
  PROVE  ReaderInv'
<1>1. TypesInv /\ FrameInv /\ ReportInv /\ PongInv
  BY DEF ReaderInv
<1>2. /\ state = "DATA"
      /\ UNCHANGED <<sent, cur, off, header, szhead, length, mask, itf, loop, events, out, clear>>
  BY <1>1 DEF CallbackReturns, FrameInv, conn
<1>3. PositionInv'
  BY <1>1, <1>2 DEF TypesInv, PositionInv
<1>4. PongInv' /\ pc' \in {"idle", "loop"}
  <2>1. pc' \in {"idle", "loop"}
    BY DEF CallbackReturns
  <2> QED
    BY <1>1, <1>2, <2>1, PongStays
<1>5. /\ FrameInv' /\ ReportedFrames' = ReportedFrames /\ state' \in {"INIT", "DATA"}
      /\ cut' \in BOOLEAN /\ (~cut' => ~cut)
  <2>1. CASE FRAME_GET_OPCODE(header) \in {OPCODE_PING, OPCODE_PONG}
    <3>1. state' = "INIT" /\ cut' = (cut \/ length # 0)
      BY <2>1 DEF CallbackReturns
    <3>2. UNCHANGED <<conn, header, szhead, length, mask>>
      BY <1>2 DEF conn
    <3> QED
      BY <1>1, <1>2, <1>4, <3>1, <3>2, FrameEnds
  <2>2. CASE FRAME_GET_OPCODE(header) \notin {OPCODE_PING, OPCODE_PONG}
    <3>1. UNCHANGED <<state, cut>>
      BY <2>2 DEF CallbackReturns
    <3>2. FrameInv' /\ ReportedFrames' = ReportedFrames
      BY <1>1, <1>2, <1>4, <3>1, FrameStays
    <3> QED
      BY <1>1, <1>2, <3>1, <3>2 DEF TypesInv
  <2> QED
    BY <2>1, <2>2
<1>6. TypesInv'
  BY <1>1, <1>2, <1>3, <1>4, <1>5 DEF TypesInv
<1>7. ReportInv'
  BY <1>1, <1>2, <1>5, ReportStays
<1> QED
  BY <1>4, <1>5, <1>6, <1>7 DEF ReaderInv

(* A payload that is dropped is dropped, or cut.                           *)
LEMMA DropReturnsHolds ==
  ASSUME ReaderInv, DropReturns
  PROVE  ReaderInv'
<1>1. TypesInv /\ FrameInv /\ ReportInv /\ PongInv
  BY DEF ReaderInv
<1>2. /\ state = "DATA" /\ state' = "INIT" /\ cut' = (cut \/ length # 0)
      /\ UNCHANGED <<sent, cur, off, header, szhead, length, mask, itf, loop, events, out, clear>>
  BY <1>1 DEF DropReturns, FrameInv, conn
<1>3. PositionInv'
  BY <1>1, <1>2 DEF TypesInv, PositionInv
<1>4. PongInv' /\ pc' \in {"idle", "loop"}
  <2>1. pc' \in {"idle", "loop"}
    BY DEF DropReturns
  <2> QED
    BY <1>1, <1>2, <2>1, PongStays
<1>5. FrameInv' /\ ReportedFrames' = ReportedFrames
  <2>1. UNCHANGED <<conn, header, szhead, length, mask>>
    BY <1>2 DEF conn
  <2> QED
    BY <1>1, <1>2, <1>4, <2>1, FrameEnds
<1>6. TypesInv'
  <2>1. cut' \in BOOLEAN
    BY <1>2
  <2> QED
    BY <1>1, <1>2, <1>3, <1>4, <2>1 DEF TypesInv
<1>7. ReportInv'
  BY <1>1, <1>2, <1>5, ReportStays
<1> QED
  BY <1>4, <1>5, <1>6, <1>7 DEF ReaderInv

(* Some of a payload is dropped.                                           *)
LEMMA DropReadsHolds ==
  ASSUME ReaderInv, NEW align \in 0..3, DropReads(align)
  PROVE  ReaderInv'
<1>1. TypesInv /\ FrameInv /\ ReportInv /\ PongInv
  BY DEF ReaderInv
<1>2. state = "DATA" /\ pc = "drop" /\ ReadData(8000, align)
      /\ UNCHANGED <<sent, state, header, szhead, itf, pc, loop, events, out, cut>>
  BY <1>1 DEF DropReads, FrameInv
<1>3. /\ PositionInv' /\ length' \in Nat /\ Len(mask') \in {0, 4} /\ clear' = TRUE
      /\ FrameInv' /\ ReportedFrames' = ReportedFrames
  <2> DEFINE size == 8000
  <2>1. size \in Nat /\ size > 0 /\ ReadData(size, align)
    BY <1>2
  <2>2. state = "DATA" /\ UNCHANGED <<sent, state, header, szhead, cut>>
    BY <1>2
  <2> HIDE DEF size
  <2> QED
    BY <1>1, <2>1, <2>2, DataIsRead
<1>4. TypesInv'
  BY <1>1, <1>2, <1>3 DEF TypesInv
<1>5. ReportInv'
  BY <1>1, <1>2, <1>3, ReportStays
<1>6. PongInv'
  BY <1>1, <1>2, PongStays
<1> QED
  BY <1>3, <1>4, <1>5, <1>6 DEF ReaderInv

(* A pong is written: the last ping is answered.                           *)
LEMMA PongAnswers ==
  ASSUME TypesInv, PongInv, pc = "pong", pc' # "pong", events' = events,
         out' = out \o websock_pong(length)
  PROVE  PongInv' /\ out' \in Seq(Replies)
<1>1. out \in Seq(Replies) /\ Len(out) \in Nat /\ events \in Seq(Told) /\ length \in Nat
      /\ DOMAIN out = 1..Len(out)
  BY DEF TypesInv
<1>2. PICK pick \in [Pongs -> Pings] :
        /\ \A i, j \in Pongs : i < j => pick[i] < pick[j]
        /\ \A i \in Pongs : out[i].len = events[pick[i]].size
        /\ Len(events) \in Pings /\ events[Len(events)].size = length
        /\ \A i \in Pongs : pick[i] < Len(events)
  BY DEF PongInv
<1>3. CASE length > 125
  <2>1. websock_pong(length) = << >>
    BY <1>1, <1>3, PongIs
  <2>2. out \o << >> = out
    BY <1>1
  <2>3. out' = out
    BY <2>1, <2>2
  <2> QED
    BY <1>1, <2>3, PongStays
<1>4. CASE ~(length > 125)
  <2> DEFINE r == Frame(OPCODE_PONG, TRUE, 0, FALSE, length)
             n == Len(out) + 1
             more == [i \in Pongs' |-> IF i = n THEN Len(events) ELSE pick[i]]
  <2>1. r \in Replies /\ r.op = OPCODE_PONG /\ r.len = length
    BY <1>1 DEF Frame, Replies
  <2>2. out' = out \o <<r>>
    BY <1>1, <1>4, PongIs
  <2> HIDE DEF r
  <2>3. /\ out' \in Seq(Replies) /\ DOMAIN out' = 1..n /\ out'[n] = r
        /\ \A i \in 1..Len(out) : out'[i] = out[i]
    BY <1>1, <2>1, <2>2
  <2>4. /\ n \in 1..n /\ n \notin 1..Len(out) /\ \A i \in 1..Len(out) : i \in 1..n /\ i < n
        /\ \A i \in 1..n : i \in 1..Len(out) \/ i = n
    BY <1>1
  <2> HIDE DEF n
  <2>5. \A i : i \in Pongs <=> i \in 1..Len(out) /\ out[i].op = OPCODE_PONG
    BY <1>1 DEF Pongs
  <2>6. \A i : i \in Pongs' <=> i \in 1..n /\ out'[i].op = OPCODE_PONG
    BY <2>3 DEF Pongs
  <2>7. n \in Pongs' /\ \A i \in Pongs' : i # n => i \in Pongs /\ out'[i] = out[i] /\ i < n
    BY <2>1, <2>3, <2>4, <2>5, <2>6
  <2>8. Pings' = Pings
    BY DEF Pings
  <2>9. more \in [Pongs' -> Pings']
    <3>1. \A i \in Pongs' : (IF i = n THEN Len(events) ELSE pick[i]) \in Pings'
      BY <1>2, <2>7, <2>8
    <3> QED
      BY <3>1, Zenon
  <2>10. more[n] = Len(events) /\ \A i \in Pongs' : i # n => more[i] = pick[i]
    BY <2>7
  <2> HIDE DEF more
  <2>11. \A i \in Pongs' : out'[i].len = events'[more[i]].size
    BY <1>2, <2>1, <2>3, <2>7, <2>10
  <2>12. \A i, j \in Pongs' : i < j => more[i] < more[j]
    <3> SUFFICES ASSUME NEW i \in Pongs', NEW j \in Pongs', i < j PROVE more[i] < more[j]
      OBVIOUS
    <3>1. i # n
      <4>1. j \in 1..n /\ i \in 1..n
        BY <2>6
      <4>2. n \in Nat
        BY <1>1 DEF n
      <4> QED
        BY <4>1, <4>2
    <3>2. CASE j = n
      BY <1>2, <2>7, <2>10, <3>1, <3>2
    <3>3. CASE j # n
      BY <1>2, <2>7, <2>10, <3>1, <3>3
    <3> QED
      BY <3>2, <3>3
  <2>13. PongInv'
    BY <2>9, <2>11, <2>12, Zenon DEF PongInv
  <2> QED
    BY <2>3, <2>13
<1> QED
  BY <1>3, <1>4

(* pong reads and answers.                                                 *)
LEMMA PongReadsHolds ==
  ASSUME ReaderInv, NEW align \in 0..3, PongReads(align)
  PROVE  ReaderInv'
<1>1. TypesInv /\ FrameInv /\ ReportInv /\ PongInv
  BY DEF ReaderInv
<1>2. state = "DATA" /\ pc = "pong" /\ pc' = "drop"
      /\ UNCHANGED <<sent, state, header, szhead, itf, loop, events, cut>>
  BY <1>1 DEF PongReads, FrameInv
<1>3. out' = out \/ out' = out \o websock_pong(length)
  BY DEF PongReads, Writes
<1>4. /\ PositionInv' /\ length' \in Nat /\ Len(mask') \in {0, 4} /\ clear' = TRUE
      /\ FrameInv' /\ ReportedFrames' = ReportedFrames
  <2> DEFINE Reads == ReadData(8000, align)
  <2>1. CASE Reads
    <3> DEFINE size == 8000
    <3>1. size \in Nat /\ size > 0 /\ ReadData(size, align)
      BY <2>1
    <3> HIDE DEF size
    <3> QED
      BY <1>1, <1>2, <3>1, DataIsRead
  <2>2. CASE UNCHANGED <<cur, off, length, mask, clear>>
    <3>1. PositionInv' /\ FrameInv' /\ ReportedFrames' = ReportedFrames
      BY <1>1, <1>2, <2>2, FrameStays
    <3> QED
      BY <1>1, <2>2, <3>1 DEF TypesInv
  <2>3. Reads \/ UNCHANGED <<cur, off, length, mask, clear>>
    BY DEF PongReads
  <2> HIDE DEF Reads
  <2> QED
    BY <2>1, <2>2, <2>3
<1>5. PongInv' /\ out' \in Seq(Replies)
  <2>1. CASE out' = out
    BY <1>1, <1>2, <2>1, PongStays DEF TypesInv
  <2>2. CASE out' = out \o websock_pong(length)
    BY <1>1, <1>2, <2>2, PongAnswers
  <2> QED
    BY <1>3, <2>1, <2>2
<1>6. TypesInv'
  BY <1>1, <1>2, <1>4, <1>5 DEF TypesInv
<1>7. ReportInv'
  BY <1>1, <1>2, <1>4, ReportStays
<1> QED
  BY <1>4, <1>5, <1>6, <1>7 DEF ReaderInv

(* A step that changes nothing.                                            *)
LEMMA StutterHolds ==
  ASSUME ReaderInv, UNCHANGED vars
  PROVE  ReaderInv'
<1>1. TypesInv /\ FrameInv /\ ReportInv /\ PongInv
  BY DEF ReaderInv
<1>2. UNCHANGED <<sent, cur, off, state, header, szhead, length, mask, itf, pc, events, out, cut, clear>>
  BY DEF vars, conn, ws
<1>3. PositionInv' /\ FrameInv' /\ ReportedFrames' = ReportedFrames
  <2>1. pc' \in {"callback", "pong", "drop"} => state' = "DATA"
    BY <1>1, <1>2 DEF FrameInv
  <2> QED
    BY <1>1, <1>2, <2>1, FrameStays
<1>4. TypesInv'
  BY <1>1, <1>2, <1>3 DEF TypesInv
<1>5. ReportInv'
  BY <1>1, <1>2, <1>3, ReportStays
<1>6. PongInv'
  BY <1>1, <1>2 DEF PongInv, Pongs, Pings
<1> QED
  BY <1>3, <1>4, <1>5, <1>6 DEF ReaderInv

-----------------------------------------------------------------------------
(* The theorems.                                                           *)

(* Every action of websock_dispatch and of the client keeps ReaderInv.     *)
LEMMA NextHolds ==
  ASSUME ReaderInv, [Next]_vars
  PROVE  ReaderInv'
<1>1. ASSUME NEW f \in PeerFrames, PeerWrites(f) PROVE ReaderInv'
  BY <1>1, PeerWritesHolds
<1>2. ASSUME NEW lp \in BOOLEAN, websock_dispatch(lp) PROVE ReaderInv'
  BY <1>2, DispatchHolds
<1>3. ASSUME NEW size \in Sizes, NEW align \in 0..3, websock_read(size, align) PROVE ReaderInv'
  BY <1>3, ReadHolds
<1>4. CASE StateInit
  BY <1>4, StateInitHolds
<1>5. CASE read_header
  BY <1>5, ReadHeaderHolds
<1>6. CASE StateStart
  BY <1>6, StateStartHolds
<1>7. CASE StateLength
  BY <1>7, StateLengthHolds
<1>8. CASE StateData
  BY <1>8, StateDataHolds
<1>9. CASE CallbackReturns
  BY <1>9, CallbackReturnsHolds
<1>10. CASE DropReturns
  BY <1>10, DropReturnsHolds
<1>11. ASSUME NEW align \in 0..3, PongReads(align) PROVE ReaderInv'
  BY <1>11, PongReadsHolds
<1>12. ASSUME NEW align \in 0..3, DropReads(align) PROVE ReaderInv'
  BY <1>12, DropReadsHolds
<1>13. CASE UNCHANGED vars
  BY <1>13, StutterHolds
<1> QED
  BY <1>1, <1>2, <1>3, <1>4, <1>5, <1>6, <1>7, <1>8, <1>9, <1>10, <1>11, <1>12, <1>13, Zenon
     DEF Next, Step

(* The reader keeps its place in the frames of the peer, in the key and in *)
(* the reports, whatever is read at once and wherever it is put.           *)
THEOREM ReaderCorrect == Spec => []ReaderInv
<1>1. Init => ReaderInv
  BY InitHolds
<1>2. ReaderInv /\ [Next]_vars => ReaderInv'
  BY NextHolds
<1> QED
  BY <1>1, <1>2, PTL DEF Spec

(* The reader never overruns header[14] or the frame that it reads, is at  *)
(* the start of a frame between two frames, and unmasks in step.           *)
THEOREM AlignedHolds == Spec => []Aligned
<1>1. ReaderInv => Aligned
  <2> SUFFICES ASSUME ReaderInv PROVE Aligned
    OBVIOUS
  <2>1. TypesInv /\ FrameInv /\ PositionInv
    BY DEF ReaderInv, TypesInv
  <2>2. TypeOK /\ MaskStaysInStep
    BY <2>1 DEF TypesInv, PositionInv, TypeOK, MaskStaysInStep
  <2>3. ASSUME ~cut, state = "INIT" \/ (state = "START" /\ header = << >>) PROVE off = 0
    BY <2>1, <2>3 DEF FrameInv, InFrame
  <2>4. ASSUME state = "DATA" PROVE length = IF off = 0 THEN 0 ELSE WireLength(sent[cur]) - off
    <3>1. InFrame
      BY <2>1, <2>4 DEF FrameInv, InFrame
    <3>2. length = Remaining
      BY <2>1, <2>4, <3>1, FrameIs DEF DataOfFrame
    <3>3. off \in Nat
      BY <2>1 DEF PositionInv
    <3> QED
      BY <3>2, <3>3 DEF Remaining
  <2> QED
    BY <2>2, <2>3, <2>4 DEF Aligned, AtFrames
<1> QED
  BY <1>1, ReaderCorrect, PTL

(* What is told of the first frames begins what is told of all of them.    *)
LEMMA NoticesBegin ==
  ASSUME NEW s \in Seq(PeerFrames), NEW c \in 0..Len(s)
  PROVE  IsPrefix(Notices(SubSeq(s, 1, c)), Notices(s))
<1> DEFINE D == {f \in PeerFrames : ~Accepted(f)}
           a == Without(SubSeq(s, 1, c), D)
           b == Without(s, D)
           N(t) == [i \in DOMAIN t |-> Notice(t[i])]
           S == {Notice(f) : f \in PeerFrames}
<1>1. /\ a \in Seq(PeerFrames) /\ b \in Seq(PeerFrames) /\ Len(a) <= Len(b)
      /\ \A i \in 1..Len(a) : a[i] = b[i]
  <2> HIDE DEF D
  <2> QED
    BY WithoutBegins
<1>2. Notices(SubSeq(s, 1, c)) = N(a) /\ Notices(s) = N(b)
  BY Zenon DEF Notices
<1> HIDE DEF D, a, b
<1>3. ASSUME NEW t \in Seq(PeerFrames)
      PROVE  N(t) \in Seq(S) /\ Len(N(t)) = Len(t) /\ \A i \in 1..Len(t) : N(t)[i] = Notice(t[i])
  <2>1. DOMAIN t = 1..Len(t) /\ Len(t) \in Nat /\ \A i \in 1..Len(t) : t[i] \in PeerFrames
    OBVIOUS
  <2>2. N(t) \in [1..Len(t) -> S] /\ \A i \in 1..Len(t) : N(t)[i] = Notice(t[i])
    BY <2>1, Zenon
  <2> HIDE DEF N, S
  <2> QED
    BY <2>1, <2>2, TupleIsSeq
<1> DEFINE x == N(a)
           y == N(b)
<1>4. /\ x \in Seq(S) /\ y \in Seq(S) /\ Len(x) <= Len(y)
      /\ \A i \in 1..Len(x) : x[i] = y[i]
  <2>1. x \in Seq(S) /\ Len(x) = Len(a) /\ \A i \in 1..Len(a) : x[i] = Notice(a[i])
    BY <1>1, <1>3
  <2>2. y \in Seq(S) /\ Len(y) = Len(b) /\ \A i \in 1..Len(b) : y[i] = Notice(b[i])
    BY <1>1, <1>3
  <2>3. \A i \in 1..Len(a) : i \in 1..Len(b)
    BY <1>1
  <2> HIDE DEF x, y, S
  <2> QED
    BY <1>1, <2>1, <2>2, <2>3
<1> HIDE DEF x, y, S, N
<1>5. SubSeq(x, 1, Len(x)) = SubSeq(y, 1, Len(x))
  <2>1. Len(x) \in Nat /\ Len(y) \in Nat
    BY <1>4
  <2> DEFINE n == Len(x)
             u == SubSeq(x, 1, n)
             v == SubSeq(y, 1, n)
  <2>2. 1 \in Nat /\ 1 <= 1 /\ n \in Nat /\ 1 <= n + 1 /\ n <= Len(x) /\ n <= Len(y)
        /\ n + 1 - 1 = n /\ \A i \in 1..n : 1 + i - 1 = i
    BY <1>4, <2>1
  <2> HIDE DEF n
  <2>3. u \in Seq(S) /\ Len(u) = n /\ \A i \in 1..n : u[i] = x[i]
    BY <1>4, <2>2, SubSeqIs
  <2>4. v \in Seq(S) /\ Len(v) = n /\ \A i \in 1..n : v[i] = y[i]
    BY <1>4, <2>2, SubSeqIs
  <2> HIDE DEF u, v
  <2>5. u = v
    BY <1>4, <2>3, <2>4, SameSeq DEF n
  <2> QED
    BY <2>5 DEF u, v, n
<1>6. IsPrefix(x, y)
  BY <1>4, <1>5 DEF IsPrefix
<1> QED
  BY <1>2, <1>6 DEF x, y

(* The client is told of every frame that is accepted once, in order, as   *)
(* it was sent; each pong answers a ping of its own, of the same size.     *)
THEOREM ReportedCorrect == Spec => []FramesAreReported
<1>1. ReaderInv => FramesAreReported
  <2> SUFFICES ASSUME ReaderInv PROVE FramesAreReported
    OBVIOUS
  <2>1. TypesInv /\ FrameInv /\ PositionInv /\ ReportInv /\ PongInv
    BY DEF ReaderInv, TypesInv
  <2>2. ASSUME ~cut PROVE IsPrefix(Reported, Notices(sent))
    <3>1. Reported = Notices(SubSeq(sent, 1, ReportedFrames))
      BY <2>1, <2>2 DEF ReportInv
    <3>2. sent \in Seq(PeerFrames) /\ ReportedFrames \in 0..Len(sent)
      BY <2>1, ReportedFramesAre DEF PositionInv
    <3> QED
      BY <3>1, <3>2, NoticesBegin
  <2>3. ASSUME ~cut, state = "INIT" PROVE Reported = Notices(SubSeq(sent, 1, cur - 1))
    <3>1. ~InFrame
      BY <2>3 DEF InFrame
    <3>2. ReportedFrames = cur - 1
      BY <2>1, <2>3, <3>1, BetweenFrames
    <3> QED
      BY <2>1, <2>3, <3>2 DEF ReportInv
  <2>4. PongsAnswerPings
    BY <2>1, Zenon DEF PongInv, PongsAnswerPings
  <2> QED
    BY <2>2, <2>3, <2>4 DEF FramesAreReported, ReportedInOrder
<1> QED
  BY <1>1, ReaderCorrect, PTL
=============================================================================
