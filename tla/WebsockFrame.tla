---------------------------- MODULE WebsockFrame ----------------------------
(***************************************************************************)
(* Frames of the WebSocket protocol as src/sandbox/websock.c writes them   *)
(* and reads them.  A frame is a record; what goes on the wire is a header *)
(* whose bytes are modelled one by one, followed by len payload bytes that *)
(* are only counted (the k-th is <<"pay", k>>).                            *)
(***************************************************************************)
EXTENDS Integers, Sequences, SequencesExt

OPCODE_CONTINUATION == 0
OPCODE_TEXT   == 1
OPCODE_BINARY == 2
OPCODE_CLOSE  == 8
OPCODE_PING   == 9
OPCODE_PONG   == 10

DataOpcodes == {OPCODE_CONTINUATION, OPCODE_TEXT, OPCODE_BINARY}
ControlOpcodes == {OPCODE_CLOSE, OPCODE_PING, OPCODE_PONG}

WEBSOCKET_CODE_NOT_SET == "NOT_SET"
WEBSOCKET_CODE_PROTOCOL_ERROR == "PROTOCOL_ERROR"
WEBSOCKET_CODE_MESSAGE_TOO_LARGE == "MESSAGE_TOO_LARGE"

(* fin, rsv: bits of the first byte; masked: bit of the second; len: bytes *)
(* of payload, of which a close frame uses the first two for its code.     *)
Frame(op, fin, rsv, masked, len) ==
  [op |-> op, fin |-> fin, rsv |-> rsv, masked |-> masked, len |-> len]

-----------------------------------------------------------------------------
(* The sending half.                                                       *)

MaxIov == 32

(* The byte idx of the size, from the least significant one.               *)
FRAME_SET_LENGTH(size, idx) ==
  LET Shifted[k \in 0..7] == IF k = 0 THEN size ELSE Shifted[k - 1] \div 256
  IN Shifted[idx] % 256

(* A length fits in 64 bits.                                               *)
Fits64(size) == (((size \div 65536) \div 65536) \div 65536) \div 65536 = 0

(* The bytes that follow the first two: nothing, two or eight bytes, the   *)
(* most significant one first.                                             *)
ExtendedLength(size) ==
  CASE size < 126   -> << >>
    [] size >= 126 /\ size < 65536 ->
         <<FRAME_SET_LENGTH(size, 1), FRAME_SET_LENGTH(size, 0)>>
    [] size >= 65536 ->
         [i \in 1..8 |-> FRAME_SET_LENGTH(size, 8 - i)]

LengthField(size) ==
  CASE size < 126 -> size
    [] size >= 126 /\ size < 65536 -> 126
    [] size >= 65536 -> 127

Header(f) ==
  <<[fin |-> f.fin, rsv |-> f.rsv, op |-> f.op],
    [mask |-> f.masked, len |-> LengthField(f.len)]>>
  \o ExtendedLength(f.len)
  \o (IF f.masked THEN <<<<"key", 0>>, <<"key", 1>>, <<"key", 2>>, <<"key", 3>>>>
                  ELSE << >>)

WireLength(f) == Len(Header(f)) + f.len

(* The byte at offset off of the frame.                                    *)
WireByte(f, off) ==
  IF off < Len(Header(f)) THEN Header(f)[off + 1]
                          ELSE <<"pay", off - Len(Header(f))>>

(* What one call writes: one frame, or nothing when it is refused.  lens   *)
(* are the lengths of the buffers given by the caller.                     *)
websock_send_internal_v(op, fin, rsv, lens) ==
  LET Size[k \in 0..Len(lens)] == IF k = 0 THEN 0 ELSE Size[k - 1] + lens[k]
  IN IF Len(lens) + 1 > MaxIov THEN << >>
     ELSE <<Frame(op, fin, rsv, FALSE, Size[Len(lens)])>>

(* rsv2 and rsv3 go to the bit of rsv1: the macro FRAME_SET_RSV1 is used   *)
(* for the three of them.  No caller in this file sets any of them.        *)
websock_send_v(op, fin, rsv1, rsv2, rsv3, lens) ==
  websock_send_internal_v(op, fin, IF rsv1 + rsv2 + rsv3 > 0 THEN 4 ELSE 0, lens)

websock_close(code, length) ==
  IF code = WEBSOCKET_CODE_NOT_SET /\ length = 0
  THEN websock_send_v(OPCODE_CLOSE, TRUE, 0, 0, 0, <<0>>)
  ELSE IF length > 123 THEN << >>
       ELSE websock_send_v(OPCODE_CLOSE, TRUE, 0, 0, 0, <<2, length>>)

websock_ping(length) ==
  IF length > 125 THEN << >>
  ELSE websock_send_v(OPCODE_PING, TRUE, 0, 0, 0, <<length>>)

websock_pong(length) ==
  IF length > 125 THEN << >>
  ELSE websock_send_v(OPCODE_PONG, TRUE, 0, 0, 0, <<length>>)

(* websock_text(_v), websock_binary(_v), websock_continue(_v)              *)
websock_data(op, last, lens) == websock_send_v(op, last, 0, 0, 0, lens)

-----------------------------------------------------------------------------
(* The receiving half: what is computed from the header bytes.             *)

FRAME_GET_OPCODE(h) == h[1].op
FRAME_GET_FIN(h) == h[1].fin
FRAME_GET_RSV(h) == h[1].rsv
FRAME_GET_MASK(h) == h[2].mask
FRAME_GET_PAYLOAD_LEN(h) == h[2].len

(* Variant: the length of a control frame is not limited. *)
check_control_header_nolimit(h) ==
  /\ FRAME_GET_RSV(h) = 0
  /\ FRAME_GET_OPCODE(h) = OPCODE_CLOSE => FRAME_GET_PAYLOAD_LEN(h) # 1

check_control_header(h) ==
  /\ FRAME_GET_RSV(h) = 0
  /\ FRAME_GET_PAYLOAD_LEN(h) <= 125
  /\ FRAME_GET_OPCODE(h) = OPCODE_CLOSE => FRAME_GET_PAYLOAD_LEN(h) # 1

(* Bytes of header wanted once the first two are known.                    *)
HeaderSize(h) ==
  2 + (IF FRAME_GET_OPCODE(h) = OPCODE_CLOSE /\ FRAME_GET_PAYLOAD_LEN(h) # 0
       THEN 2 ELSE 0)
    + (CASE FRAME_GET_PAYLOAD_LEN(h) = 127 -> 8
         [] FRAME_GET_PAYLOAD_LEN(h) = 126 -> 2
         [] OTHER -> 0)
    + (IF FRAME_GET_MASK(h) THEN 4 ELSE 0)

BigEndian(bytes) ==
  LET Read[k \in 0..Len(bytes)] == IF k = 0 THEN 0 ELSE 256 * Read[k - 1] + bytes[k]
  IN Read[Len(bytes)]

(* Length of what remains to read after the header.                        *)
PayloadLength(h) ==
  LET len == CASE FRAME_GET_PAYLOAD_LEN(h) = 127 -> BigEndian(SubSeq(h, 3, 10))
               [] FRAME_GET_PAYLOAD_LEN(h) = 126 -> BigEndian(SubSeq(h, 3, 4))
               [] OTHER -> FRAME_GET_PAYLOAD_LEN(h)
  IN IF FRAME_GET_OPCODE(h) = OPCODE_CLOSE /\ len # 0 THEN len - 2 ELSE len

(* The four last bytes of the header, or << >> for a mask of zero.         *)
Mask(h) == IF FRAME_GET_MASK(h) THEN SubSeq(h, Len(h) - 3, Len(h)) ELSE << >>

(* Code given to on_close: the two last bytes of the header as they are,   *)
(* still masked if the frame is; << >> stands for the code NOT_SET, which  *)
(* is given when nothing follows these two bytes.                          *)
CloseCode(h, len) == IF len = 0 THEN << >> ELSE SubSeq(h, Len(h) - 1, Len(h))

-----------------------------------------------------------------------------
(* unmask: bytes up to the first aligned address, then words, then the     *)
(* bytes that remain.  align is the address of the buffer modulo 4.        *)

Rotate(mask, n) == [i \in 1..4 |-> mask[1 + ((i - 1 + n) % 4)]]

UnmaskHead(align, size) ==
  LET toAlign == (4 - align) % 4 IN IF size < toAlign THEN size ELSE toAlign

(* Byte of the key xored to byte i (from 0) of the buffer.                 *)
UnmaskKey(mask, align, size, i) ==
  LET head == UnmaskHead(align, size)
      turned == Rotate(mask, head)
  IN IF i < head THEN mask[1 + (i % 4)] ELSE turned[1 + ((i - head) % 4)]

(* The mask kept for the bytes that follow.                                *)
UnmaskNext(mask, align, size) ==
  LET head == UnmaskHead(align, size)
  IN Rotate(Rotate(mask, head), (size - head) % 4)
=============================================================================
