------------------------------ MODULE HppCodec ------------------------------
(***************************************************************************)
(* The values and the inputs given to the readers and writers of           *)
(* src/json/json.hpp.  A behaviour builds a value, or an input of one of   *)
(* the formats byte after byte; each state is written and read back.       *)
(***************************************************************************)
EXTENDS HppParser

CONSTANTS HppLeaves,        \* the values that are not containers
          HppItems,         \* the ones that are put in containers
          HppKeys,          \* keys of objects
          HppCopies,        \* how many times a value may be repeated
          HppChunks,        \* for each kind of input, the bytes that may be added to it
          MaxChunks         \* how many times

VARIABLES hppKind,          \* "value", or the kind of the input: a binary format, "text", "utf8"
          hppValue, hppInput,
          hppFed            \* the number of chunks of the input
hppVars == <<hppKind, hppValue, hppInput, hppFed>>

MaxWritten == 40     \* how large in CBOR are the values of texts, what is written and cut
Formats == {"cbor", "cbor_ignore", "msgpack", "ubjson", "bson"}

HppInit ==
  /\ hppKind \in {"value"} \cup DOMAIN HppChunks
  /\ hppValue = JNull
  /\ hppInput = << >> /\ hppFed = 0

(* The value becomes a leaf, an item of a container, several items; or one *)
(* more member comes in the container.                                     *)
IsLeaf(v) == v.t \notin {"array", "object"}
BuildLeaf == \E v \in HppLeaves : hppValue = JNull /\ v # JNull /\ hppValue' = v
OfItems(v) == Len(v.kids) \in 1..2 /\ \A i \in DOMAIN v.kids : v.kids[i].v \in HppItems
BuildBox ==
  /\ IsLeaf(hppValue) \/ OfItems(hppValue)
  /\ \/ hppValue' = JArray(<<hppValue>>)
     \/ \E k \in HppKeys : hppValue' = SetMember(JObject(<< >>), k, hppValue)
BuildMember ==
  /\ OfItems(hppValue) /\ Len(hppValue.kids) = 1
  /\ \E v \in HppItems :
       \/ hppValue.t = "array" /\ hppValue' = json_object_array_add(hppValue, v)
       \/ \E k \in HppKeys : hppValue.t = "object" /\ hppValue' = SetMember(hppValue, k, v)
BuildCopies ==
  /\ hppValue \in HppItems
  /\ \E n \in HppCopies : hppValue' = JArray([i \in 1..n |-> hppValue])
Build == hppKind = "value" /\ (BuildLeaf \/ BuildBox \/ BuildMember \/ BuildCopies) /\ UNCHANGED <<hppKind, hppInput, hppFed>>

Feed ==
  /\ hppKind # "value" /\ hppFed < MaxChunks
  /\ \E chunk \in HppChunks[hppKind] : hppInput' = hppInput \o chunk
  /\ hppFed' = hppFed + 1
  /\ UNCHANGED <<hppKind, hppValue>>

HppNext == Build \/ Feed

-----------------------------------------------------------------------------
(* The leaves of a value, each one replaced.                               *)
RECURSIVE MapLeaves(_, _)
MapLeaves(v, g) ==
  IF IsLeaf(v) THEN (IF v \in DOMAIN g THEN g[v] ELSE v)
  ELSE [v EXCEPT !.kids = [i \in DOMAIN v.kids |-> [k |-> v.kids[i].k, v |-> MapLeaves(v.kids[i].v, g)]]]
RECURSIVE LeavesOf(_)
LeavesOf(v) == IF IsLeaf(v) THEN {v} ELSE UNION {LeavesOf(v.kids[i].v) : i \in DOMAIN v.kids}
AsNumber(v) == Plain(v)

(* What a format keeps of a leaf: CBOR has one NaN and no subtype, UBJSON  *)
(* has arrays of numbers for binaries, BSON always has a subtype, a text   *)
(* has neither binaries nor the floats that are not finite.                *)
QuietNaN == HFloat(Double(0, 2047, 4194304))
NumbersOf(s) == JArray([i \in DOMAIN s |-> HUnsigned(Bytes(s[i]))])
Kept(format, v) ==
  CASE v.t = "float" /\ IsNaN(v.s) /\ format \in {"cbor", "cbor_ignore"} -> QuietNaN
    [] v.t = "float" /\ ~Finite(v.s) /\ format = "text" -> JNull
    [] v.t = "binary" /\ format = "cbor_ignore" -> HBinary(NoSubtype, v.s)
    [] v.t = "binary" /\ format = "ubjson" -> NumbersOf(v.s)
    [] v.t = "binary" /\ format = "bson" /\ v.n = NoSubtype -> HBinary(0, v.s)
    [] v.t = "binary" /\ format = "text" ->
         JObject(<<[k |-> BytesKey, v |-> NumbersOf(v.s)],
                   [k |-> SubtypeKey, v |-> IF v.n = NoSubtype THEN JNull ELSE HUnsigned(Bytes(v.n))]>>)
    [] OTHER -> v
ReadBack(format, v) == AsNumber(MapLeaves(v, [x \in LeavesOf(v) |-> Kept(format, x)]))

(* What is written of v: nothing when BSON refuses it.                     *)
Written(format, v) ==
  CASE format \in {"cbor", "cbor_ignore"} -> {write_cbor(v)}
    [] format = "msgpack" -> {write_msgpack(v)}
    [] format = "ubjson" -> {write_ubjson(v, use.count, use.type, TRUE) : use \in {u \in [count : BOOLEAN, type : BOOLEAN] : u.type => u.count}}
    [] format = "bson" -> {b.out : b \in {x \in {write_bson(v)} : x.ok}}
HasSubtype(v) == \E x \in LeavesOf(v) : x.t = "binary" /\ x.n # NoSubtype

(* For each binary format, what to_cbor, to_msgpack, to_ubjson and to_bson *)
(* write of a value is read back by from_...: numbers have the same value, *)
(* only what the format has no place for is lost; CBOR tags are refused    *)
(* unless they are ignored.  No beginning of it is taken for a value.      *)
Beginnings(bytes) == IF Len(bytes) <= MaxWritten THEN 0..Len(bytes) - 1 ELSE {}
WrittenIsRead ==
  hppKind = "value" =>
    \A format \in Formats : \A bytes \in Written(format, hppValue) : \A n \in {Len(bytes)} \cup Beginnings(bytes) :
      AsNumber(from_binary(SubSeq(bytes, 1, n), format)) =
        IF n < Len(bytes) \/ (format = "cbor" /\ HasSubtype(hppValue)) THEN Discarded ELSE ReadBack(format, hppValue)

(* The sizes that BSON writes before a document are the ones of what it    *)
(* writes.                                                                 *)
BsonSizesAreTrue ==
  hppKind = "value" => \A b \in {write_bson(hppValue)} : b.ok => Unsigned(Reverse(SubSeq(b.out, 1, 4))) = Bytes(Len(b.out))

(* An input that is accepted gives a value that is written and read back   *)
(* as itself.                                                              *)
AcceptedIsStable ==
  hppKind \in Formats =>
    \A v \in {from_binary(hppInput, hppKind)} :
      v # Discarded => \A bytes \in Written(hppKind, v) : AsNumber(from_binary(bytes, hppKind)) = ReadBack(hppKind, v)

-----------------------------------------------------------------------------
(* Texts.                                                                  *)
Style(pretty, ascii, handler) == [pretty |-> pretty, step |-> 2, ascii |-> ascii, handler |-> handler]
Short == hppKind = "value" /\ Len(write_cbor(hppValue)) <= MaxWritten
Styles == {Style(pretty, ascii, "strict") : pretty \in BOOLEAN, ascii \in BOOLEAN}

(* What dump writes of a value that it accepts is parsed to that value,    *)
(* whatever the indentation and the escapes are.                           *)
TextIsRead ==
  Short =>
    \A style \in Styles :
      ~DumpThrows(hppValue, style) => AsNumber(parse(dump(hppValue, style, 0), FALSE)) = ReadBack("text", hppValue)

(* The same for every text that is parsed: integers and floats stay what  *)
(* they are (-0 is the integer 0), duplicated keys and blanks are gone.    *)
ParsedIsStable ==
  hppKind = "text" =>
    \A v \in {parse(hppInput, FALSE)} :
      v # Discarded => \A style \in Styles : AsNumber(parse(dump(v, style, 0), FALSE)) = AsNumber(v)

(* Comments are blanks for the lexer that ignores them, and errors for the *)
(* other one.                                                              *)
Commented(text) ==
  FoldLeft(LAMBDA acc, c : acc \o (CASE c = 32 -> <<47, 42, 42, 42, 47>> [] c = 10 -> <<47, 47, 42, 10>> [] OTHER -> <<c>>), << >>, text)
CommentsAreBlanks ==
  Short /\ ~DumpThrows(hppValue, Style(TRUE, TRUE, "strict")) =>
    \A text \in {dump(hppValue, Style(TRUE, TRUE, "strict"), 0)} : \A ignore_comments \in BOOLEAN :
      AsNumber(parse(Commented(text), ignore_comments)) =
        IF ~ignore_comments /\ 10 \in ToSet(text) THEN Discarded ELSE ReadBack("text", hppValue)

(* The two decoders of UTF-8 agree: what the serializer refuses to write   *)
(* is what the lexer refuses to read, byte for byte, when no byte must be  *)
(* escaped.                                                                *)
Quoted(s) == <<34>> \o s \o <<34>>
DecodersAgree ==
  hppKind = "utf8" /\ (\A i \in DOMAIN hppInput : hppInput[i] >= 32 /\ hppInput[i] \notin {34, 92}) =>
    \A v \in {parse(Quoted(hppInput), FALSE)} : \A ensure_ascii \in BOOLEAN :
      v = IF dump_escaped(hppInput, "strict", ensure_ascii).ok THEN JString(hppInput) ELSE Discarded

(* What is written with replace or ignore is always a text that is parsed, *)
(* to the same string with and without ensure_ascii; the strings of replace*)
(* without the replacement characters are the ones of ignore.              *)
WithoutReplacement(s) ==
  LET at == {i \in 1..Len(s) - 2 : SubSeq(s, i, i + 2) = <<239, 191, 189>>}
  IN FoldLeft(LAMBDA acc, i : IF \E j \in 0..2 : i - j \in at THEN acc ELSE Append(acc, s[i]), << >>, [i \in DOMAIN s |-> i])
RepairedIsRead ==
  hppKind = "utf8" =>
    LET Same(read) ==
          /\ Discarded \notin {read[h][a] : h \in DOMAIN read, a \in BOOLEAN}
          /\ \A h \in DOMAIN read : read[h][TRUE] = read[h][FALSE]
          /\ read["ignore"][TRUE].s = WithoutReplacement(read["replace"][TRUE].s)
    IN Same([handler \in {"replace", "ignore"} |->
               [ascii \in BOOLEAN |-> parse(Quoted(dump_escaped(hppInput, handler, ascii).out), FALSE)]])

(* string_buffer is never written past its end, and what is written does   *)
(* not depend on when it is flushed.                                       *)
Repeated(s, n) == FoldLeft(LAMBDA acc, i : acc \o s, << >>, [i \in 1..n |-> i])
BufferIsEnough ==
  hppKind = "utf8" =>
    \A ascii \in BOOLEAN : \A handler \in {"replace", "ignore"} : \A n \in {3, 5} :
      \A long \in {dump_escaped(Repeated(Append(hppInput, 97), n), handler, ascii)} :
        ~long.over /\ long.out = Repeated(dump_escaped(Append(hppInput, 97), handler, ascii).out, n)

-----------------------------------------------------------------------------
(* Parsing with a callback that refuses some events.                       *)
RefusedKey == <<97>>
Callback(refused, depth, event, value) == ~(event \in refused /\ (event = "key" => value.s = RefusedKey))

(* The value without what is refused; null for nothing.                    *)
Drops(refused, key, v) ==
  \/ v.t = "object" /\ refused \cap {"object_start", "object_end"} # {}
  \/ v.t = "array" /\ refused \cap {"array_start", "array_end"} # {}
  \/ IsLeaf(v) /\ "value" \in refused
  \/ key = RefusedKey /\ "key" \in refused
RECURSIVE Skipped(_, _)
Skipped(refused, v) ==
  LET left == SelectSeq(v.kids, LAMBDA m : ~Drops(refused, m.k, m.v))
  IN [v EXCEPT !.kids = [i \in DOMAIN left |-> [k |-> left[i].k, v |-> Skipped(refused, left[i].v)]]]
RECURSIVE HasObject(_)
HasObject(v) == v.t = "object" \/ \E i \in DOMAIN v.kids : HasObject(v.kids[i].v)

(* Objects, and members of a key, that the callback refuses are as if they *)
(* had never been read, and so are the arrays and values refused in a text *)
(* without objects; what is refused at the top is null.  (The arrays and   *)
(* values refused in an object stay in it as discarded values.)            *)
RefusedIsSkipped ==
  Short /\ ~DumpThrows(hppValue, Style(FALSE, FALSE, "strict")) =>
    \A text \in {dump(hppValue, Style(FALSE, FALSE, "strict"), 0)} : \A v \in {ReadBack("text", hppValue)} :
    \A refused \in {{"object_start"}, {"object_end"}, {"key"}} \cup
                    (IF HasObject(v) THEN {} ELSE {{"array_start"}, {"array_end"}, {"value"}, {"array_end", "value"}}) :
      AsNumber(parse_filtered(text, refused)) = IF Drops(refused, << >>, v) THEN JNull ELSE Skipped(refused, v)

(* A value survives the four binary formats and the text of json.hpp: what *)
(* is written is read back, no beginning of it is taken for a value, BSON  *)
(* sizes are those of what follows, comments are blanks and what a callback *)
(* refuses is skipped.                                                     *)
ValuesSurvive ==
  /\ WrittenIsRead /\ BsonSizesAreTrue
  /\ TextIsRead /\ CommentsAreBlanks /\ RefusedIsSkipped

(* Any input, well made or not, that the readers of json.hpp accept gives a *)
(* value that is written and read as itself; the decoders of the lexer and *)
(* of dump_escaped accept the same UTF-8, what dump_escaped repairs is read, *)
(* and its buffer of fixed size never overflows.                           *)
InputsAreStable ==
  /\ AcceptedIsStable /\ ParsedIsStable
  /\ DecodersAgree /\ RepairedIsRead /\ BufferIsEnough
=============================================================================
