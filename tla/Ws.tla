--------------------------------- MODULE Ws ---------------------------------
(***************************************************************************)
(* src/sandbox/ws.c: a websocket that is given the received bytes in       *)
(* buffers it owns, and gives the client pieces of these buffers, which    *)
(* the client releases.  Bytes are 0..255.  A buffer is [id, data]; id     *)
(* stands for its address.                                                 *)
(***************************************************************************)
EXTENDS Integers, Sequences, SequencesExt, FiniteSets, FiniteSetsExt

CONSTANTS WS_BUFS_COUNT,
          MaxLength,    \* maxlength
          Frames,       \* frames the peer sends: [first, payload, key]
          RawBuffers,   \* other received bytes
          Itfs,         \* [on_ping, on_pong, on_extension: BOOLEAN]
          MaxBuffers    \* bound: buffers received

ASSUME WsAssumption ==
  /\ WS_BUFS_COUNT \in Nat /\ MaxLength \in Nat /\ MaxBuffers \in Nat
  /\ Frames \subseteq [first : 0..255, payload : Seq(0..255), key : Seq(0..255)]
  /\ \A f \in Frames : f.key = << >> \/ Len(f.key) = 4
  /\ RawBuffers \subseteq Seq(0..255)
  /\ Itfs \subseteq [on_ping : BOOLEAN, on_pong : BOOLEAN, on_extension : BOOLEAN]

VARIABLES ws,      \* struct ws_s
          itf,
          held,    \* pieces the client has not released
          freed,   \* buffers freed
          wrong,   \* a buffer freed twice
          lost,    \* lost[id]: references nobody will release
          events, out,   \* calls of the client, frames sent
          given,   \* buffers received
          clean    \* {the frames received}, {} when a payload was not at the end of one buffer

wsVars == <<ws, itf, held, freed, wrong, lost, events, out, given, clean>>

GET_FIN(h) == h[1] \div 128 = 1
GET_RSV123(h) == (h[1] \div 16) % 8
GET_OPCODE(h) == h[1] % 16
GET_MASK(h) == h[2] \div 128 = 1
GET_PAYLOAD_LEN(h) == h[2] % 128
Control == {8, 9, 10}

-----------------------------------------------------------------------------
(* The sending half: a frame of the first byte and the payload, as a       *)
(* sequence of the frames that were sent; << >> when the call is refused.  *)
(* What writev returns is given back to the caller and changes nothing     *)
(* else, so that it is taken here to write everything.                     *)
MAKE_LENGTH(size, idx) == (size \div 256^idx) % 256

Framed(first, payload) ==
  LET size == Len(payload)
      long == IF size < 126 THEN <<size>>
              ELSE IF size < 65536 THEN <<126, MAKE_LENGTH(size, 1), MAKE_LENGTH(size, 0)>>
              ELSE <<127, 0, 0, 0, 0, MAKE_LENGTH(size, 3), MAKE_LENGTH(size, 2), MAKE_LENGTH(size, 1), MAKE_LENGTH(size, 0)>>
  IN <<<<first>> \o long \o payload>>

(* The payload in several buffers: with that of the header they are 32 at  *)
(* most.                                                                   *)
ws_send_internal_v(first, bufs) == IF Len(bufs) + 1 > 32 THEN << >> ELSE Framed(first, FlattenSeq(bufs))

(* ws_text, ws_binary, ws_continue and their _v forms: op is 1, 2 or 0.    *)
ws_send(last, op, payload) == Framed((IF last THEN 128 ELSE 0) + op, payload)
ws_send_v(last, op, bufs) == ws_send_internal_v((IF last THEN 128 ELSE 0) + op, bufs)

ws_ping(payload) == IF Len(payload) > 125 THEN << >> ELSE ws_send(TRUE, 9, payload)
ws_pong(payload) == IF Len(payload) > 125 THEN << >> ELSE ws_send(TRUE, 10, payload)

WS_CODE_PROTOCOL_ERROR == 1002
WS_CODE_NOT_SET == 1005
WS_CODE_MESSAGE_TOO_LARGE == 1009

ws_close(code, payload) ==
  CASE code = WS_CODE_NOT_SET /\ payload = << >> -> ws_send(TRUE, 8, << >>)
    [] Len(payload) > 123 -> << >>
    [] OTHER -> ws_send(TRUE, 8, <<code \div 256, code % 256>> \o payload)

-----------------------------------------------------------------------------
(* A call d of ws_dispatch in progress: what it changes, and rc.           *)
Event(on, op, fin, payload) == [on |-> on, op |-> op, fin |-> fin, payload |-> payload]

ws_error(d, code, rc) ==
  [d EXCEPT !.out = @ \o ws_close(code, << >>), !.events = Append(@, Event("error", 8, TRUE, << >>)), !.rc = rc]

(* Slots are tried from the last one.                                      *)
_addbuf_(d) == LET none == {i \in DOMAIN d.ws.uses : d.ws.uses[i] = 0} IN IF none = {} THEN 0 ELSE Max(none)

_getbuf_(d, i) == [d EXCEPT !.ws.uses[i] = @ + 1]

_putbuf_(d, i) ==
  LET id == d.ws.bufs[i].id
  IN IF d.ws.uses[i] > 1 THEN [d EXCEPT !.ws.uses[i] = @ - 1]
     ELSE [d EXCEPT !.ws.uses[i] = 0, !.freed = @ \cup {id}, !.wrong = @ \/ id \in d.freed]

(* Variant: the bound of the buffer is not looked at.                      *)
InBufferBefore(buf, piece) == piece.from > 0

(* A piece [id, from, len] starts in the buffer; from is 0 for NULL.       *)
InBuffer(buf, piece) == buf.id = piece.id /\ piece.from \in 1..Len(buf.data)

(* ws_release: the last slot in use whose buffer has the start of piece.   *)
_putbufat_(d, piece) ==
  LET at == {i \in DOMAIN d.ws.uses : d.ws.uses[i] > 0 /\ InBuffer(d.ws.bufs[i], piece)}
  IN IF at = {} THEN d ELSE _putbuf_(d, Max(at))

Lose(d, i) == [d EXCEPT !.lost[d.ws.bufs[i].id] = @ + 1]

(* The client is called, on_extension for the frames with reserved bits,   *)
(* which it takes all when it is set.  The client keeps the piece or       *)
(* releases it at once.  What does not start in its buffer is never found. *)
Report(d, i, on, piece, fin, keep) ==
  LET data == d.ws.bufs[i].data
      told == [d EXCEPT !.events = Append(@, Event(on, GET_OPCODE(d.ws.header), fin,
                          IF piece.len = 0 THEN << >> ELSE SubSeq(data, piece.from, piece.from + piece.len - 1)))]
  IN IF ~InBuffer(d.ws.bufs[i], piece) THEN Lose(told, i)
     ELSE IF keep THEN [told EXCEPT !.held = Append(@, piece)]
     ELSE _putbufat_(told, piece)

(* The exclusive or of two bytes.                                          *)
Xor(a, b) ==
  LET Differ(bit) == IF (a \div bit) % 2 # (b \div bit) % 2 THEN bit ELSE 0
  IN Differ(1) + Differ(2) + Differ(4) + Differ(8) + Differ(16) + Differ(32) + Differ(64) + Differ(128)

(* Variant: the mask is not turned.                                        *)
unmask_same(mask, data) == [data |-> [k \in DOMAIN data |-> Xor(data[k], mask[1])], mask |-> mask]

unmask(mask, data) ==
  [data |-> [k \in DOMAIN data |-> Xor(data[k], mask[((k - 1) % 4) + 1])],
   mask |-> [k \in 1..4 |-> mask[((k - 1 + Len(data)) % 4) + 1]]]

(* _dispatch_ in its loop: pos is where buffer points, length what is      *)
(* left, 0 when it returns.  After a payload buffer still points at its    *)
(* start.                                                                  *)
Reading(d, pos, length) == [d |-> d, pos |-> pos, length |-> length]

(* STATE_DATA                                                              *)
Data(d, i, pos, length, keep) ==
  LET w == d.ws
      h == w.header
      op == GET_OPCODE(h)
      whole == w.length <= length
      n == IF whole THEN w.length ELSE length
      fin == whole /\ GET_FIN(h)
      un == unmask(w.mask, SubSeq(w.bufs[i].data, pos, pos + n - 1))
      data == IF w.mask = <<0, 0, 0, 0>> THEN w.bufs[i].data ELSE 
                SubSeq(w.bufs[i].data, 1, pos - 1) \o un.data \o SubSeq(w.bufs[i].data, pos + n, Len(w.bufs[i].data))
      got == _getbuf_([d EXCEPT !.ws.state = IF whole THEN "INIT" ELSE @,
                                !.ws.mask = IF @ = <<0, 0, 0, 0>> THEN @ ELSE un.mask,
                                !.ws.bufs[i].data = data], i)
      piece == [id |-> w.bufs[i].id, from |-> IF w.length = 0 THEN 0 ELSE pos, len |-> n]
      Next(r) == Reading(r, pos, length - n)
      Refuse(r) == Reading(ws_error(r, WS_CODE_PROTOCOL_ERROR, "EPROTO"), pos, 0)
  IN CASE GET_RSV123(h) # 0 -> IF itf.on_extension THEN Next(Report(got, i, "extension", piece, fin, keep))
                               ELSE Refuse(_putbuf_(got, i))
       [] GET_RSV123(h) = 0 /\ op \in {0, 1, 2} -> Next(Report(got, i, "data", piece, fin, keep))
       [] GET_RSV123(h) = 0 /\ op \in Control /\ fin ->
           (CASE op = 8 -> IF n = 1 THEN Refuse(Lose(got, i))
                           ELSE Reading(Report(got, i, "close", IF n = 0 THEN piece ELSE [piece EXCEPT !.from = @ + 2, !.len = @ - 2], fin, keep), pos, 0)
              [] op = 9 -> IF itf.on_ping THEN Next(Report(got, i, "ping", piece, fin, keep))
                           ELSE Next([Lose(got, i) EXCEPT !.out = @ \o ws_pong(IF n = 0 THEN << >> ELSE SubSeq(data, pos, pos + n - 1))])
              [] op = 10 -> Next(IF itf.on_pong THEN Report(got, i, "pong", piece, fin, keep) ELSE Lose(got, i)))
       [] OTHER -> Refuse(_putbuf_(got, i))

(* The header bytes that are read from the buffer.                         *)
Header(d, i, pos, length) ==
  LET k == Min({d.ws.szhead - Len(d.ws.header), length})
  IN [d EXCEPT !.ws.header = @ \o SubSeq(d.ws.bufs[i].data, pos, pos + k - 1)]
Complete(d) == Len(d.ws.header) = d.ws.szhead

BigEndian(bytes) ==
  LET Read[k \in 0..Len(bytes)] == IF k = 0 THEN 0 ELSE Read[k - 1] * 256 + bytes[k]
  IN Read[Len(bytes)]

(* The length of the payload, which is after the two first bytes if long.  *)
PayloadLength(h) ==
  LET l == GET_PAYLOAD_LEN(h)
  IN IF l < 126 THEN l ELSE BigEndian(SubSeq(h, 3, IF l = 126 THEN 4 ELSE 10))

(* STATE_LENGTH                                                            *)
Length(d, i, pos, length, keep) ==
  LET r == Header(d, i, pos, length)
      k == Len(r.ws.header) - Len(d.ws.header)
      h == r.ws.header
      known == [r EXCEPT !.ws.length = PayloadLength(h),
                         !.ws.mask = IF GET_MASK(h) THEN SubSeq(h, Len(h) - 3, Len(h)) ELSE <<0, 0, 0, 0>>,
                         !.ws.state = "DATA"]
  IN IF ~Complete(r) THEN Reading(r, pos, 0)
     ELSE IF PayloadLength(h) > MaxLength
     THEN Reading(ws_error([r EXCEPT !.ws.length = PayloadLength(h)], WS_CODE_MESSAGE_TOO_LARGE, "EMSGSIZE"), pos, 0)
     ELSE Data(known, i, pos + k, length - k, keep)

HeaderSize(h) ==
  2 + (CASE GET_PAYLOAD_LEN(h) = 127 -> 8 [] GET_PAYLOAD_LEN(h) = 126 -> 2 [] OTHER -> 0) + (IF GET_MASK(h) THEN 4 ELSE 0)

(* STATE_START                                                             *)
Start(d, i, pos, length, keep) ==
  LET r == Header(d, i, pos, length)
      k == Len(r.ws.header) - Len(d.ws.header)
      h == r.ws.header
  IN IF ~Complete(r) THEN Reading(r, pos, 0)
     ELSE IF GET_OPCODE(h) \in Control /\ (GET_RSV123(h) # 0 \/ GET_PAYLOAD_LEN(h) > 125)
     THEN Reading(ws_error(r, WS_CODE_PROTOCOL_ERROR, "EPROTO"), pos, 0)
     ELSE Length([r EXCEPT !.ws.szhead = HeaderSize(h), !.ws.state = "LENGTH"], i, pos + k, length - k, keep)

(* One turn of the loop; STATE_INIT goes on in STATE_START.                *)
Turn(x, i, keep) ==
  LET first == [x.d EXCEPT !.ws.header = << >>, !.ws.szhead = 2, !.ws.state = "START"]
  IN IF x.length = 0 THEN x
     ELSE CASE x.d.ws.state \in {"INIT", "START"} -> Start(IF x.d.ws.state = "INIT" THEN first ELSE x.d, i, x.pos, x.length, keep)
            [] x.d.ws.state = "LENGTH" -> Length(x.d, i, x.pos, x.length, keep)
            [] x.d.ws.state = "DATA" -> Data(x.d, i, x.pos, x.length, keep)

(* Each turn reads a byte at least, or is the last.                        *)
_dispatch_(d, i, keep) ==
  LET length == Len(d.ws.bufs[i].data)
      after[k \in 0..length] == IF k = 0 THEN Reading(d, 1, length) ELSE Turn(after[k - 1], i, keep)
      turns == CHOOSE k \in 0..length : after[k].length = 0
  IN after[turns].d

(* A buffer has a slot while it is dispatched; after an error, or if there *)
(* is no slot, it is freed.                                                *)
DispatchBuffer(d, b, keep) ==
  LET i == _addbuf_(d)
  IN IF d.rc # "ok" \/ i = 0
     THEN [d EXCEPT !.rc = IF @ = "ok" THEN "EBUSY" ELSE @, !.freed = @ \cup {b.id}, !.wrong = @ \/ b.id \in d.freed]
     ELSE _putbuf_(_dispatch_([d EXCEPT !.ws.uses[i] = 1, !.ws.bufs[i] = b], i, keep), i)

Dispatch(d, buffers, keep) ==
  LET after[k \in 0..Len(buffers)] == IF k = 0 THEN d ELSE DispatchBuffer(after[k - 1], buffers[k], keep)
  IN after[Len(buffers)]

-----------------------------------------------------------------------------
ws_init ==
  [state |-> "INIT", header |-> << >>, szhead |-> 0, length |-> 0, mask |-> <<0, 0, 0, 0>>,
   bufs |-> [i \in 1..WS_BUFS_COUNT |-> [id |-> 0, data |-> << >>]], uses |-> [i \in 1..WS_BUFS_COUNT |-> 0]]

WsInit ==
  /\ ws = ws_init /\ itf \in Itfs
  /\ held = << >> /\ freed = {} /\ wrong = FALSE /\ lost = [id \in 1..MaxBuffers |-> 0]
  /\ events = << >> /\ out = << >> /\ given = 0 /\ clean = {<< >>}

Now == [ws |-> ws, held |-> held, freed |-> freed, wrong |-> wrong, lost |-> lost, events |-> events, out |-> out, rc |-> "ok"]

Becomes(d) ==
  /\ ws' = d.ws /\ held' = d.held /\ freed' = d.freed /\ wrong' = d.wrong /\ lost' = d.lost
  /\ events' = d.events /\ out' = d.out

Receives(datas, keep) ==
  Dispatch(Now, [k \in DOMAIN datas |-> [id |-> given + k, data |-> datas[k]]], keep)

(* A frame that comes in one buffer, or in two when the cut is in the      *)
(* header, as long as all was so.                                          *)
Wire(f) ==
  <<f.first, Len(f.payload) + (IF f.key = << >> THEN 0 ELSE 128)>> \o f.key
  \o [k \in DOMAIN f.payload |-> IF f.key = << >> THEN f.payload[k] ELSE Xor(f.payload[k], f.key[((k - 1) % 4) + 1])]

DispatchFrame(f, cut, keep) ==
  LET wire == Wire(f)
      datas == IF cut = 0 THEN <<wire>> ELSE <<SubSeq(wire, 1, cut), SubSeq(wire, cut + 1, Len(wire))>>
      d == Receives(datas, keep)
  IN /\ clean # {} /\ cut < Len(wire) - Len(f.payload)
     /\ given + Len(datas) <= MaxBuffers
     /\ Becomes(d)
     /\ clean' = IF d.rc = "ok" /\ f.first # 136 THEN {Append(fs, f) : fs \in clean} ELSE {}
     /\ given' = given + Len(datas) /\ UNCHANGED itf

DispatchRaw(data, keep) ==
  /\ given < MaxBuffers
  /\ Becomes(Receives(<<data>>, keep))
  /\ clean' = {} /\ given' = given + 1 /\ UNCHANGED itf

ws_release(k) ==
  /\ k \in DOMAIN held
  /\ Becomes([_putbufat_(Now, held[k]) EXCEPT !.held = RemoveAt(@, k)])
  /\ UNCHANGED <<itf, given, clean>>

WsNext ==
  \/ \E keep \in BOOLEAN : \/ \E f \in Frames, cut \in 0..5 : DispatchFrame(f, cut, keep)
                           \/ \E data \in RawBuffers : DispatchRaw(data, keep)
  \/ \E k \in 1..MaxBuffers : ws_release(k)

WsSpec == WsInit /\ [][WsNext]_wsVars

-----------------------------------------------------------------------------
(* What the client has not released is in a buffer that is neither freed   *)
(* nor replaced by another one in its slot; no buffer is freed twice.      *)
HeldIsThere ==
  /\ ~wrong
  /\ \A k \in DOMAIN held :
       /\ held[k].id \notin freed
       /\ \E i \in DOMAIN ws.uses : /\ ws.uses[i] > 0 /\ InBuffer(ws.bufs[i], held[k])
                                   /\ held[k].from + held[k].len - 1 <= Len(ws.bufs[i].data)

(* A buffer is freed when the client has released its pieces.  The pieces  *)
(* that cannot be released keep theirs: empty payloads, pings and pongs    *)
(* without callback, close frames of length 1 or at the end of the buffer. *)
AllIsFreed ==
  \A id \in 1..given : (id \in freed) <=> (lost[id] = 0 /\ \A k \in DOMAIN held : held[k].id # id)

(* The event that a frame is for, as a sequence.                           *)
Expected(f) ==
  LET op == f.first % 16
      on == CASE (f.first \div 16) % 8 # 0 -> "extension" [] op \in {0, 1, 2} -> "data" [] op = 9 -> "ping" [] op = 10 -> "pong"
      silent == (on = "ping" /\ ~itf.on_ping) \/ (on = "pong" /\ ~itf.on_pong)
  IN IF silent THEN << >> ELSE <<Event(on, op, f.first >= 128, f.payload)>>

(* Frames are reported, in order and unmasked, wherever their header is    *)
(* cut, as long as each payload ends its buffer; the pings the client does *)
(* not handle are answered.                                                *)
FramesReported ==
  \A fs \in clean :
    /\ events = FlattenSeq([k \in DOMAIN fs |-> Expected(fs[k])])
    /\ out = FlattenSeq([k \in DOMAIN fs |-> IF fs[k].first = 137 /\ ~itf.on_ping THEN ws_pong(fs[k].payload) ELSE << >>])

(* What the sending half makes is read by the receiving half as it was,    *)
(* in however many buffers up to 31 it was given, and 32 are refused.      *)
SentIsRead ==
  given = 0 =>
    \A op \in {0, 1, 2}, last \in BOOLEAN, size \in {0, 1, 125, 126, 300} :
      LET payload == [k \in 1..size |-> k % 256]
          half == size \div 2
          Cut(n) == [k \in 1..n - 2 |-> << >>] \o <<SubSeq(payload, 1, half), SubSeq(payload, half + 1, size)>>
          sent == ws_send(last, op, payload)
          r == Dispatch(Now, <<[id |-> 1, data |-> sent[1]]>>, FALSE)
      IN /\ \A n \in {2, 31} : ws_send_v(last, op, Cut(n)) = sent
         /\ ws_send_v(last, op, Cut(32)) = << >>
         /\ IF size > MaxLength THEN r.rc = "EMSGSIZE"
            ELSE r.rc = "ok" /\ r.events = <<Event("data", op, last, payload)>>

(* The counts of the buffers of ws.c are those of the pieces in use: a buffer *)
(* is there while the client holds a piece of it and is freed after the last. *)
BuffersAreKept == HeldIsThere /\ AllIsFreed
=============================================================================
