------------------------------- MODULE Websock -------------------------------
(***************************************************************************)
(* The receiving end of src/sandbox/websock.c: websock_dispatch and the    *)
(* functions a client calls to read the payload, over a connection whose   *)
(* reads return fewer bytes than asked for, or fail because nothing is     *)
(* there yet.  The peer writes whole frames; the reader sees bytes.  The   *)
(* writes take everything or fail.                                         *)
(*                                                                         *)
(* A call of websock_dispatch is a sequence of steps (pc # "idle"), one    *)
(* for each read of the connection and for each callback, since the client *)
(* reads the payload inside its callbacks or after them.                   *)
(***************************************************************************)
EXTENDS WebsockFrame, Lists, FiniteSets

CONSTANTS
  PeerFrames,   \* frames the peer may write
  MaxFrames,    \* how many frames it writes at most
  MaxLength,    \* maxlength of the websock
  MaxReplies,   \* bound of the frames written by the websock itself, and of its errors
  Itfs,         \* interfaces: [on_ping, on_pong: BOOLEAN, on_extension: {"none", "no", "yes"}]
  Leaves,       \* bytes a short read may leave of what was asked for
  Sizes         \* sizes of the buffers the client gives to websock_read

ASSUME WebsockAssumption ==
  /\ MaxFrames \in Nat /\ MaxLength \in Nat /\ MaxReplies \in Nat
  /\ Leaves \subseteq Nat \ {0} /\ Sizes \subseteq Nat \ {0}

ASSUME FramesAssumption ==
  \A f \in PeerFrames :
    /\ f \in [op : 0..15, fin : BOOLEAN, rsv : 0..7, masked : BOOLEAN, len : Nat]
    /\ Fits64(f.len)

ASSUME ItfsAssumption ==
  \A i \in Itfs : i.on_ping \in BOOLEAN /\ i.on_pong \in BOOLEAN
                   /\ i.on_extension \in {"none", "no", "yes"}

VARIABLES
  sent,     \* frames written by the peer
  cur, off, \* bytes read so far: off bytes of frame cur, all of the previous ones
  state, header, szhead, length, mask,  \* struct websock; Len(header) is lenhead
  itf,      \* ws->itf: which callbacks are set, and what on_extension answers
  pc, loop, \* step of the current call of websock_dispatch and its argument
  events,   \* calls made to the client: on_text, on_ping, ... on_error
  out,      \* frames written by the websock
  cut,      \* the payload of a ping or pong was left unread and forgotten
  clear     \* every byte of data read so far was unmasked with its own key byte

conn == <<sent, cur, off>>
ws == <<state, header, szhead, length, mask>>
vars == <<conn, ws, itf, pc, loop, events, out, cut, clear>>

Init ==
  /\ sent = << >> /\ cur = 1 /\ off = 0
  /\ state = "INIT" /\ header = << >> /\ szhead = 0 /\ length = 0 /\ mask = << >>
  /\ itf \in Itfs
  /\ pc = "idle" /\ loop = FALSE
  /\ events = << >> /\ out = << >>
  /\ cut = FALSE /\ clear = TRUE

-----------------------------------------------------------------------------
(* The connection.                                                         *)

PeerWrites(f) ==
  /\ Len(sent) < MaxFrames
  /\ sent' = Append(sent, f)
  /\ UNCHANGED <<cur, off, ws, itf, pc, loop, events, out, cut, clear>>

Readable == cur <= Len(sent)

(* Bytes a read of at most n bytes may return.  Reads for a frame never go *)
(* past its end (a property of the websock, see Aligned).                  *)
ReadSizes(n) ==
  IF Readable /\ n > 0
  THEN {n} \cup {n - k : k \in {k \in Leaves : k < n}}
  ELSE {}

Consume(k) ==
  LET rest == WireLength(sent[cur]) - off
  IN IF k = rest THEN cur' = cur + 1 /\ off' = 0
                 ELSE cur' = cur /\ off' = off + k

Bytes(k) == [i \in 1..k |-> WireByte(sent[cur], off + i - 1)]

-----------------------------------------------------------------------------
(* websock_read, for a buffer of size bytes at an address of which align   *)
(* is the remainder modulo 4.  got is the position in the payload.         *)

PayloadPos == off - Len(Header(sent[cur]))

ReadData(size, align) ==
  LET n == IF size > length THEN length ELSE size
  IN \E k \in ReadSizes(n) :
       /\ Consume(k)
       /\ length' = length - k
       /\ mask' = IF mask = << >> THEN mask ELSE UnmaskNext(mask, align, k)
       /\ clear' =
            \/ mask = << >> /\ clear
            \/ FRAME_GET_OPCODE(header) = OPCODE_CLOSE /\ clear
            \/ /\ clear
               /\ \A i \in 0..(k - 1) :
                    UnmaskKey(mask, align, k, i) = <<"key", (PayloadPos + i) % 4>>

(* The client reads from a callback, or later; it never reads more than    *)
(* what remains.  In another state than DATA the call returns 0.           *)
websock_read(size, align) ==
  /\ pc \in {"idle", "callback"}
  /\ state = "DATA"
  /\ ReadData(size, align)
  /\ UNCHANGED <<sent, state, header, szhead, itf, pc, loop, events, out, cut>>

-----------------------------------------------------------------------------
(* websock_dispatch                                                        *)

websock_dispatch(lp) ==
  /\ pc = "idle"
  /\ pc' = "loop" /\ loop' = lp
  /\ UNCHANGED <<conn, ws, itf, events, out, cut, clear>>

StateInit ==
  /\ pc = "loop" /\ state = "INIT"
  /\ header' = << >> /\ szhead' = 2 /\ state' = "START"
  /\ UNCHANGED <<conn, length, mask, itf, pc, loop, events, out, cut, clear>>

(* read_header and the return that follows when it is not complete.  Once  *)
(* cut, the bytes of a payload would be taken for a header: what is done   *)
(* with them depends on their values and is left out.                      *)
read_header ==
  /\ pc = "loop" /\ state \in {"START", "LENGTH"}
  /\ Len(header) < szhead
  /\ \/ /\ off = Len(header)
        /\ \E k \in ReadSizes(szhead - Len(header)) :
             /\ Consume(k)
             /\ header' = header \o Bytes(k)
             /\ pc' = IF Len(header) + k < szhead THEN "idle" ELSE pc
     \/ /\ pc' = "idle"
        /\ UNCHANGED <<cur, off, header>>
  /\ UNCHANGED <<sent, state, szhead, length, mask, itf, loop, events, out, cut, clear>>

(* What writev returns is not looked at.                                   *)
Writes(frames) == out' = out \/ out' = out \o frames

(* websock_error: sends a close frame and tells the client; the call of    *)
(* websock_dispatch returns and the state stays as it is.                  *)
ErrorEvent == [on |-> "error", op |-> 0, fin |-> TRUE, size |-> 0, code |-> << >>]

websock_error(code) ==
  /\ Len(out) < MaxReplies /\ Len(events) < MaxFrames + MaxReplies
  /\ Writes(websock_close(code, 0))
  /\ events' = Append(events, ErrorEvent)
  /\ pc' = "idle"

StateStart ==
  /\ pc = "loop" /\ state = "START" /\ Len(header) >= szhead
  /\ IF FRAME_GET_OPCODE(header) \in ControlOpcodes /\ ~check_control_header(header)
     THEN /\ websock_error(WEBSOCKET_CODE_PROTOCOL_ERROR)
          /\ UNCHANGED <<state, szhead>>
     ELSE /\ szhead' = HeaderSize(header)
          /\ state' = "LENGTH"
          /\ UNCHANGED <<pc, events, out>>
  /\ UNCHANGED <<conn, header, length, mask, itf, loop, cut, clear>>

Event(on) ==
  LET op == FRAME_GET_OPCODE(header)
  IN events' = Append(events,
       [on |-> on, op |-> op, fin |-> FRAME_GET_FIN(header), size |-> length',
        code |-> IF on = "frame" /\ op = OPCODE_CLOSE THEN CloseCode(header, length') ELSE << >>])

(* The frame is known: it is given to the client by a callback, or handled *)
(* here (pong, websock_drop).                                              *)
Deliver ==
  LET op == FRAME_GET_OPCODE(header)
  IN CASE itf.on_extension = "yes" -> pc' = "idle" /\ Event("extension") /\ UNCHANGED out
       [] itf.on_extension # "yes" /\ (FRAME_GET_RSV(header) # 0
                               \/ op \notin DataOpcodes \cup ControlOpcodes) ->
            websock_error(WEBSOCKET_CODE_PROTOCOL_ERROR)
       [] OTHER ->
            /\ Event("frame")
            /\ pc' = CASE op = OPCODE_PING /\ ~itf.on_ping -> "pong"
                       [] op = OPCODE_PONG /\ ~itf.on_pong -> "drop"
                       [] OTHER -> "callback"
            /\ UNCHANGED out

StateLength ==
  /\ pc = "loop" /\ state = "LENGTH" /\ Len(header) >= szhead
  /\ length' = PayloadLength(header)
  /\ IF length' > MaxLength
     THEN /\ websock_error(WEBSOCKET_CODE_MESSAGE_TOO_LARGE)
          /\ UNCHANGED <<state, mask>>
     ELSE /\ mask' = Mask(header)
          /\ state' = "DATA"
          /\ Deliver
  /\ UNCHANGED <<conn, header, szhead, itf, loop, cut, clear>>

(* Back from on_continue, on_text, on_binary, on_close, on_ping, on_pong.  *)
(* The last two are expected to have read the payload: the next frame is   *)
(* read from where they stopped.                                           *)
CallbackReturns ==
  /\ pc = "callback"
  /\ LET op == FRAME_GET_OPCODE(header)
     IN /\ IF op \in {OPCODE_PING, OPCODE_PONG}
           THEN state' = "INIT" /\ cut' = (cut \/ length # 0)
           ELSE UNCHANGED <<state, cut>>
        /\ pc' = IF loop /\ op # OPCODE_CLOSE THEN "loop" ELSE "idle"
  /\ UNCHANGED <<conn, header, szhead, length, mask, itf, loop, events, out, clear>>

(* pong: one read, then a pong of the length of the ping, even if less was *)
(* read, or nothing at the end of the connection, then the rest is         *)
(* dropped.  Nothing is sent if the read fails.                            *)
PongReads(align) ==
  /\ pc = "pong"
  /\ pc' = "drop"
  /\ \/ length > 0 /\ ReadData(8000, align)
     \/ UNCHANGED <<cur, off, length, mask, clear>>
  /\ Writes(websock_pong(length))
  /\ Len(out) < MaxReplies
  /\ UNCHANGED <<sent, state, header, szhead, itf, loop, events, cut>>

DropReads(align) ==
  /\ pc = "drop"
  /\ length > 0
  /\ ReadData(8000, align)
  /\ UNCHANGED <<sent, state, header, szhead, itf, pc, loop, events, out, cut>>

(* websock_drop returns: nothing remains, or a read failed.  Its result is *)
(* not looked at.  (At the end of the connection no read fails and it      *)
(* would not return: the peer does not leave here.)                        *)
DropReturns ==
  /\ pc = "drop"
  /\ state' = "INIT"
  /\ cut' = (cut \/ length # 0)
  /\ pc' = IF loop THEN "loop" ELSE "idle"
  /\ UNCHANGED <<conn, header, szhead, length, mask, itf, loop, events, out, clear>>

(* Variant: the payload that remains is not waited for. *)
StateDataEager ==
  /\ pc = "loop" /\ state = "DATA"
  /\ state' = "INIT"
  /\ UNCHANGED <<conn, header, szhead, length, mask, itf, pc, loop, events, out, cut, clear>>

(* Variant: the end of the payload is not noticed. *)
StateDataStuck ==
  /\ pc = "loop" /\ state = "DATA"
  /\ pc' = "idle"
  /\ UNCHANGED <<conn, ws, itf, loop, events, out, cut, clear>>

StateData ==
  /\ pc = "loop" /\ state = "DATA"
  /\ IF length # 0 THEN pc' = "idle" /\ UNCHANGED state
                   ELSE state' = "INIT" /\ UNCHANGED pc
  /\ UNCHANGED <<conn, header, szhead, length, mask, itf, loop, events, out, cut, clear>>

Step ==
  \/ StateInit \/ read_header \/ StateStart \/ StateLength \/ StateData
  \/ CallbackReturns \/ DropReturns
  \/ \E align \in 0..3 : PongReads(align) \/ DropReads(align)

Next ==
  \/ \E f \in PeerFrames : PeerWrites(f)
  \/ \E lp \in BOOLEAN : websock_dispatch(lp)
  \/ \E size \in Sizes, align \in 0..3 : websock_read(size, align)
  \/ Step

Spec == Init /\ [][Next]_vars

(* The client keeps calling websock_dispatch when it may, and keeps        *)
(* reading the payload it was told about; a read that finds nothing does   *)
(* not fail for ever while bytes are there.                                *)
HeaderArrives == read_header /\ Len(header') > Len(header)

Fairness ==
  /\ WF_vars(Step)
  /\ WF_vars(websock_dispatch(TRUE))
  /\ SF_vars(HeaderArrives)
  /\ SF_vars(pc = "idle" /\ \E size \in Sizes : websock_read(size, 0))

FairSpec == Spec /\ Fairness

-----------------------------------------------------------------------------
(* Properties                                                              *)

(* The fields of struct websock and the position in the connection stay in *)
(* their ranges: header[14] is never overrun by the sizes websock_dispatch *)
(* computes, and no read goes past the frame being read.                   *)
TypeOK ==
  /\ state \in {"INIT", "START", "LENGTH", "DATA"}
  /\ Len(header) \in 0..14 /\ szhead \in 0..14
  /\ length \in Nat
  /\ Len(mask) \in {0, 4}
  /\ pc \in {"idle", "loop", "callback", "pong", "drop"}
  /\ cur \in 1..(Len(sent) + 1)
  /\ off \in Nat
  /\ off > 0 => cur <= Len(sent) /\ off < WireLength(sent[cur])

(* Between two frames the websock is at the start of a frame of the peer,  *)
(* and while a payload is being read it expects exactly the bytes the peer *)
(* has left of it, however the reads were split.  The only way out is a    *)
(* ping or pong of which the payload was forgotten (cut).                  *)
AtFrames ==
  ~cut =>
    /\ state = "INIT" \/ (state = "START" /\ header = << >>) => off = 0
    /\ state = "DATA" =>
         length = IF off = 0 THEN 0 ELSE WireLength(sent[cur]) - off

(* What the client must be told of a frame.  Stated on the frame, not on   *)
(* the bytes of its header.  The code of a close is not payload.           *)
Payload(f) == IF f.op = OPCODE_CLOSE /\ f.len > 0 THEN f.len - 2 ELSE f.len

Accepted(f) ==
  /\ f.op \in ControlOpcodes => f.rsv = 0 /\ f.len <= 125
  /\ f.op = OPCODE_CLOSE => f.len # 1
  /\ Payload(f) <= MaxLength
  /\ itf.on_extension = "yes" \/ (f.rsv = 0 /\ f.op \in DataOpcodes \cup ControlOpcodes)

Notice(f) ==
  [on |-> IF itf.on_extension = "yes" THEN "extension" ELSE "frame",
   op |-> f.op,
   fin |-> f.fin,
   size |-> Payload(f),
   code |-> IF itf.on_extension # "yes" /\ f.op = OPCODE_CLOSE /\ f.len > 2
            THEN <<<<"pay", 0>>, <<"pay", 1>>>> ELSE << >>]

Notices(frames) ==
  LET ok == Without(frames, {f \in PeerFrames : ~Accepted(f)})
  IN [i \in DOMAIN ok |-> Notice(ok[i])]

Reported == Without(events, {ErrorEvent})

(* Frames are reported to the client once each, in the order of the peer,  *)
(* with the bit FIN and the length they were sent with, across the three   *)
(* encodings of the length, a close with the first two bytes of its        *)
(* payload as code if a reason follows: never one that is refused, and all *)
(* the ones that were read when the websock is between two frames.         *)
ReportedInOrder ==
  ~cut =>
    /\ IsPrefix(Reported, Notices(sent))
    /\ state = "INIT" => Reported = Notices(SubSeq(sent, 1, cur - 1))

(* A masked payload read in pieces, at whatever addresses, is unmasked     *)
(* with the key in step: byte n of the payload with byte n modulo 4 of the *)
(* key.  Close frames are excepted (see README).                           *)
MaskStaysInStep == clear

(* The reader stays in step with the peer: with its frames, with the mask, *)
(* and inside header[14], however websock_dispatch and websock_read split  *)
(* the stream.                                                             *)
Aligned == TypeOK /\ AtFrames /\ MaskStaysInStep

(* Each pong written by the default handler answers a ping of its own, of  *)
(* the same size, in the order of the pings, however short the reads were. *)
Pongs == {i \in DOMAIN out : out[i].op = OPCODE_PONG}
Pings == {i \in DOMAIN events : events[i].on = "frame" /\ events[i].op = OPCODE_PING}

PongsAnswerPings ==
  \E pick \in [Pongs -> Pings] :
    /\ \A i, j \in Pongs : i < j => pick[i] < pick[j]
    /\ \A i \in Pongs : out[i].len = events[pick[i]].size

(* websock_dispatch reports every frame as it was sent, once and in order, *)
(* and the default handler answers the pings.                              *)
FramesAreReported == ReportedInOrder /\ PongsAnswerPings

(* Every frame written by the peer leads to a call of the client, unless a *)
(* payload was cut: no state of the dispatcher waits for bytes that the    *)
(* frame does not have.                                                    *)
FramesAreServed ==
  \A i \in 1..MaxFrames : (Len(sent) >= i) ~> (Len(events) >= i \/ cut)

-----------------------------------------------------------------------------
(* Instances of the constants for TLC.                                     *)

(* Frames of a peer that uses the sending half of websock.c ...            *)
LibraryFrames ==
  UNION {ToSet(r) : r \in
    {websock_data(OPCODE_TEXT, FALSE, <<3>>), websock_data(OPCODE_BINARY, TRUE, <<126>>),
     websock_data(OPCODE_CONTINUATION, TRUE, <<40000, 25536>>),
     websock_ping(5), websock_pong(0), websock_ping(126),
     websock_close("code", 3), websock_close(WEBSOCKET_CODE_NOT_SET, 0)}}

(* ... and of another one: masked, with an extension bit, malformed.       *)
OtherFrames ==
  {Frame(OPCODE_TEXT, TRUE, 0, TRUE, 7), Frame(OPCODE_PING, TRUE, 0, TRUE, 6),
   Frame(OPCODE_CLOSE, TRUE, 0, TRUE, 2), Frame(OPCODE_CLOSE, TRUE, 0, FALSE, 1),
   Frame(OPCODE_PONG, TRUE, 0, FALSE, 126), Frame(3, TRUE, 0, FALSE, 0),
   Frame(OPCODE_TEXT, TRUE, 4, FALSE, 0), Frame(OPCODE_TEXT, TRUE, 0, FALSE, 70000)}

AnyFrames == LibraryFrames \cup OtherFrames

SomeItfs ==
  {[on_ping |-> FALSE, on_pong |-> FALSE, on_extension |-> "none"],
   [on_ping |-> TRUE, on_pong |-> TRUE, on_extension |-> "no"],
   [on_ping |-> FALSE, on_pong |-> FALSE, on_extension |-> "yes"]}
=============================================================================
