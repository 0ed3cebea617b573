------------------------------ MODULE HppParser -----------------------------
(***************************************************************************)
(* Reading of a JSON text by src/json/json.hpp: the lexer, the consumers of *)
(* its events, the parser between them; then the reading of the binary     *)
(* formats, which has the same consumers.                                  *)
(***************************************************************************)
EXTENDS HppValue

(* class lexer of src/json/json.hpp.  in is the whole input, p the number  *)
(* of characters read of it: get is p + 1, unget is p - 1, and the current *)
(* character is At(in, p).  A scanned token is [type, pos, buf, v], buf    *)
(* being token_buffer and v the number.                                    *)

CONSTANT strtod(_)     \* the eight bytes of the double that a text denotes

EOF == -1
At(in, p) == IF p \in DOMAIN in THEN in[p] ELSE EOF
Token(type, p, buf, s) == [type |-> type, pos |-> p, buf |-> buf, s |-> s]
Refused(p) == Token("parse_error", p, << >>, << >>)

-----------------------------------------------------------------------------
(* Four hexadecimal digits after p, or -1.                                 *)
HexValue(c) ==
  CASE c \in 48..57 -> c - 48
    [] c \in 65..70 -> c - 55
    [] c \in 97..102 -> c - 87
    [] OTHER -> -1
get_codepoint(in, p) ==
  LET d == [i \in 1..4 |-> HexValue(At(in, p + i))]
  IN IF \E i \in 1..4 : d[i] = -1 THEN -1 ELSE ((d[1] * 16 + d[2]) * 16 + d[3]) * 16 + d[4]

(* The bytes of a code point.                                              *)
Utf8(cp) ==
  CASE cp < 128 -> <<cp>>
    [] cp \in 128..2047 -> <<192 + (cp \div 64), 128 + (cp % 64)>>
    [] cp \in 2048..65535 -> <<224 + (cp \div 4096), 128 + ((cp \div 64) % 64), 128 + (cp % 64)>>
    [] OTHER -> <<240 + (cp \div 262144), 128 + ((cp \div 4096) % 64), 128 + ((cp \div 64) % 64), 128 + (cp % 64)>>

(* What follows \u, the u being at p: the code point and where it ends.    *)
High == 55296..56319
LowSurrogates == 56320..57343
surrogate_pair(p, cp1, cp2) ==
  CASE cp1 = -1 \/ cp1 \in LowSurrogates \/ (cp1 \in High /\ cp2 \notin LowSurrogates) -> [ok |-> FALSE, pos |-> p, cp |-> 0]
    [] cp1 \in High /\ cp2 \in LowSurrogates -> [ok |-> TRUE, pos |-> p + 10, cp |-> (cp1 - 55296) * 1024 + (cp2 - 56320) + 65536]
    [] OTHER -> [ok |-> TRUE, pos |-> p + 4, cp |-> cp1]
UnicodeEscape(in, p) ==
  surrogate_pair(p, get_codepoint(in, p), IF At(in, p + 5) = 92 /\ At(in, p + 6) = 117 THEN get_codepoint(in, p + 6) ELSE -1)

(* The ranges of the bytes that must follow a byte of a string.            *)
Tails == 128..191
Unescaped == (32..127) \ {34, 92}
byte_ranges(c) ==
  CASE c \in 194..223 -> <<Tails>>
    [] c = 224 -> <<160..191, Tails>>
    [] c \in (225..239) \ {237} -> <<Tails, Tails>>
    [] c = 237 -> <<128..159, Tails>>
    [] c = 240 -> <<144..191, Tails, Tails>>
    [] c \in 241..243 -> <<Tails, Tails, Tails>>
    [] c = 244 -> <<128..143, Tails, Tails>>
    [] OTHER -> << >>

(* The bytes after the current one, at p, are in the ranges: where the last*)
(* one is, or -1.                                                          *)
next_byte_in_range(in, p, ranges) ==
  IF ranges # << >> /\ \A i \in DOMAIN ranges : At(in, p + i) \in ranges[i] THEN p + Len(ranges) ELSE -1

(* The characters that follow a backslash, and what they stand for.        *)
Escapes == 34 :> 34 @@ 92 :> 92 @@ 47 :> 47 @@ 98 :> 8 @@ 102 :> 12 @@ 110 :> 10 @@ 114 :> 13 @@ 116 :> 9

RECURSIVE ScanString(_, _, _)
AfterUnicode(in, p, buf, u) == IF u.ok THEN ScanString(in, u.pos, buf \o Utf8(u.cp)) ELSE Refused(p)
AfterBytes(in, p, buf, last) == IF last = -1 THEN Refused(p) ELSE ScanString(in, last, buf \o SubSeq(in, p + 1, last))
ScanString(in, p, buf) ==
  LET c == At(in, p + 1)
      e == At(in, p + 2)
  IN CASE c = 34 -> Token("value_string", p + 1, buf, << >>)
       [] c = 92 /\ e \in DOMAIN Escapes -> ScanString(in, p + 2, Append(buf, Escapes[e]))
       [] c = 92 /\ e = 117 -> AfterUnicode(in, p, buf, UnicodeEscape(in, p + 2))
       [] c \in Unescaped -> ScanString(in, p + 1, Append(buf, c))
       [] c \in 128..255 -> AfterBytes(in, p, buf, next_byte_in_range(in, p + 1, byte_ranges(c)))
       [] OTHER -> Refused(p)

scan_string(in, p) == ScanString(in, p, << >>)

-----------------------------------------------------------------------------
(* Numbers: the states of the comment of scan_number and their transitions.*)
Kind(c) ==
  CASE c = 48 -> "zero" [] c \in 49..57 -> "digit" [] c \in {69, 101} -> "e"
    [] c = 43 -> "plus" [] c = 45 -> "minus" [] c = 46 -> "point" [] OTHER -> "other"
IntegerState(state, kind) ==
  CASE state = "init" /\ kind = "minus" -> "minus"
    [] state \in {"init", "minus"} /\ kind = "zero" -> "zero"
    [] state \in {"init", "minus"} /\ kind = "digit" -> "any1"
    [] state = "any1" /\ kind \in {"zero", "digit"} -> "any1"
    [] state \in {"zero", "any1"} /\ kind = "point" -> "decimal1"
    [] state \in {"zero", "any1"} /\ kind = "e" -> "exponent"
    [] state = "zero" /\ kind \notin {"point", "e"} -> "done"
    [] state = "any1" /\ kind \notin {"point", "e", "zero", "digit"} -> "done"
    [] OTHER -> "error"
FractionState(state, kind) ==
  CASE state \in {"decimal1", "decimal2"} /\ kind \in {"zero", "digit"} -> "decimal2"
    [] state = "decimal2" /\ kind = "e" -> "exponent"
    [] state = "exponent" /\ kind \in {"plus", "minus"} -> "sign"
    [] state \in {"exponent", "sign", "any2"} /\ kind \in {"zero", "digit"} -> "any2"
    [] state = "decimal2" /\ kind \notin {"zero", "digit", "e"} -> "done"
    [] state = "any2" /\ kind \notin {"zero", "digit"} -> "done"
    [] OTHER -> "error"
NextState(state, kind) == IF state \in {"init", "minus", "zero", "any1"} THEN IntegerState(state, kind) ELSE FractionState(state, kind)

(* The place of the last character of the number, or -1: state is the one  *)
(* after the character at p.                                               *)
RECURSIVE EndOfNumber(_, _, _)
EndOfNumber(in, p, state) ==
  CASE state = "done" -> p - 1
    [] state = "error" -> -1
    [] OTHER -> EndOfNumber(in, p + 1, NextState(state, Kind(At(in, p + 1))))

(* -s in two's complement.                                                 *)
Negated(s) ==
  LET last == Max({i \in 1..8 : s[i] # 0} \cup {0})
  IN [i \in 1..8 |-> IF i > last THEN 0 ELSE IF i = last THEN 256 - s[i] ELSE 255 - s[i]]

(* The conversion of the text of a number: integers that overflow are      *)
(* converted to floats.                                                    *)
converted(text, p, s) ==
  CASE Len(s) = 8 /\ text[1] # 45 -> Token("value_unsigned", p, text, s)
    [] Len(s) = 8 /\ text[1] = 45 /\ (Negative(s) \/ s = Bytes(0)) -> Token("value_integer", p, text, s)
    [] OTHER -> Token("value_float", p, text, strtod(text))
negated(s) == IF Len(s) = 8 /\ (~Negative(s) \/ s = Negated(s)) THEN Negated(s) ELSE << >>
scan_number_done(text, p) ==
  CASE \E i \in DOMAIN text : Kind(text[i]) \in {"point", "e"} -> converted(text, p, << >>)
    [] text[1] = 45 -> converted(text, p, negated(FromDigits(Tail(text))))
    [] OTHER -> converted(text, p, FromDigits(text))

(* The first character of the number is the current one.                   *)
number_upto(in, p, e) == IF e = -1 THEN Refused(p) ELSE scan_number_done(SubSeq(in, p, e), e)
scan_number(in, p) ==
  number_upto(in, p, EndOfNumber(in, p - 1, "init"))

-----------------------------------------------------------------------------
Literals == [literal_true |-> <<116, 114, 117, 101>>, literal_false |-> <<102, 97, 108, 115, 101>>, literal_null |-> <<110, 117, 108, 108>>]
scan_literal(in, p, type) ==
  LET e == p + Len(Literals[type]) - 1
  IN IF e <= Len(in) /\ SubSeq(in, p, e) = Literals[type] THEN Token(type, e, << >>, << >>) ELSE Refused(p)

(* Where the comment whose / is at p ends, or -1.                          *)
RECURSIVE LineEnd(_, _)
LineEnd(in, p) == IF At(in, p + 1) \in {10, 13, 0, EOF} THEN p + 1 ELSE LineEnd(in, p + 1)
RECURSIVE StarEnd(_, _)
StarEnd(in, p) ==
  LET c == At(in, p + 1)
  IN CASE c \in {0, EOF} -> -1
       [] c = 42 /\ At(in, p + 2) = 47 -> p + 2
       [] OTHER -> StarEnd(in, p + 1)
scan_comment(in, p) ==
  CASE At(in, p + 1) = 47 -> LineEnd(in, p + 1)
    [] At(in, p + 1) = 42 -> StarEnd(in, p + 1)
    [] OTHER -> -1

(* Where the current character is after white space.                       *)
RECURSIVE skip_whitespace(_, _)
skip_whitespace(in, p) == IF At(in, p + 1) \in {32, 9, 10, 13} THEN skip_whitespace(in, p + 1) ELSE p + 1

RECURSIVE SkipComments(_, _)
AfterComment(in, e) == IF e = -1 THEN -1 ELSE SkipComments(in, skip_whitespace(in, e))
SkipComments(in, p) ==
  IF At(in, p) # 47 THEN p ELSE AfterComment(in, scan_comment(in, p))

Structural ==
  91 :> "begin_array" @@ 93 :> "end_array" @@ 123 :> "begin_object" @@ 125 :> "end_object"
    @@ 58 :> "name_separator" @@ 44 :> "value_separator" @@ 0 :> "end_of_input" @@ EOF :> "end_of_input"

(* The token at q, -1 for a comment that is not one.                       *)
TokenAt(in, p, q) ==
  LET c == At(in, q)
  IN CASE q = -1 -> Refused(p)
       [] q # -1 /\ c \in DOMAIN Structural -> Token(Structural[c], q, << >>, << >>)
       [] c = 116 -> scan_literal(in, q, "literal_true")
       [] c = 102 -> scan_literal(in, q, "literal_false")
       [] c = 110 -> scan_literal(in, q, "literal_null")
       [] c = 34 -> scan_string(in, q)
       [] c \in {45} \cup 48..57 -> scan_number(in, q)
       [] OTHER -> Refused(q)

(* An incomplete byte order mark is refused; positions are only compared   *)
(* with 0 at the beginning of the first token.                             *)
scan(in, p, ignore_comments) ==
  LET bom == p = 0 /\ At(in, 1) = 239
      badbom == bom /\ ~(At(in, 2) = 187 /\ At(in, 3) = 191)
      blank == skip_whitespace(in, IF bom THEN 3 ELSE p)
  IN IF badbom THEN Refused(p) ELSE TokenAt(in, p, IF ignore_comments THEN SkipComments(in, blank) ELSE blank)

-----------------------------------------------------------------------------
(* The SAX events of src/json/json.hpp and the two classes that make a     *)
(* value of them: json_sax_dom_parser and json_sax_dom_callback_parser,    *)
(* whose callback drops values.  The pointers of ref_stack and             *)
(* object_element are paths from root; the NULL pointer is Nowhere.        *)

SaxEvent(e, v, k) == [e |-> e, v |-> v, k |-> k]
Value(v) == SaxEvent("value", v, << >>)
StartEvent(type) == SaxEvent("start", [JObject(<< >>) EXCEPT !.t = type], << >>)
Key(k) == SaxEvent("key", JNull, k)
EndEvent(type) == SaxEvent("end", Leaf(type, 0, << >>), << >>)

(* A step of a path is a place in an array or a key of an object.          *)
InArray(i) == [i |-> i, k |-> << >>]
InObject(k) == [i |-> 0, k |-> k]
Nowhere == <<InArray(0)>>
Discarded == Leaf("discarded", 0, << >>)

KidAt(v, step) == IF step.i # 0 THEN step.i ELSE IndexOf(v, step.k)
RECURSIVE Sub(_, _)
Sub(v, path) == IF path = << >> THEN v ELSE Sub(v.kids[KidAt(v, Head(path))].v, Tail(path))
RECURSIVE Put(_, _, _)
Put(v, path, w) ==
  IF path = << >> THEN w
  ELSE LET i == KidAt(v, Head(path)) IN [v EXCEPT !.kids[i].v = Put(@, Tail(path), w)]

-----------------------------------------------------------------------------
(* json_sax_dom_parser                                                     *)
Dom == [root |-> JNull, ref_stack |-> << >>, object_element |-> Nowhere]

(* Where the value v goes, and the tree once it is there.                  *)
handle_value(d, v) ==
  IF d.ref_stack = << >> THEN [at |-> << >>, root |-> v]
  ELSE LET back == Last(d.ref_stack)
           box == Sub(d.root, back)
       IN IF box.t = "array"
            THEN [at |-> Append(back, InArray(Len(box.kids) + 1)), root |-> Put(d.root, back, json_object_array_add(box, v))]
            ELSE [at |-> d.object_element, root |-> Put(d.root, d.object_element, v)]

(* operator[](key): the member stays, or is added with v.                  *)
KeyAdded(box, key, v) == IF IndexOf(box, key) = 0 THEN SetMember(box, key, v) ELSE box

dom_event(d, x) ==
  LET h == handle_value(d, x.v)
      back == Last(d.ref_stack)
  IN CASE x.e = "value" -> [d EXCEPT !.root = h.root]
       [] x.e = "start" -> [d EXCEPT !.root = h.root, !.ref_stack = Append(@, h.at)]
       [] x.e = "key"   -> [d EXCEPT !.root = Put(@, back, KeyAdded(Sub(@, back), x.k, JNull)),
                                     !.object_element = Append(back, InObject(x.k))]
       [] x.e = "end"   -> [d EXCEPT !.ref_stack = Front(@)]

json_sax_dom_parser(events) == FoldLeft(dom_event, Dom, events).root

-----------------------------------------------------------------------------
(* json_sax_dom_callback_parser: callback tells what is kept of the events *)
(* of a value; filter is what tells one callback from another.             *)
CONSTANT callback(_, _, _, _)   \* filter, depth, event, value

CallbackDom ==
  [root |-> JNull, ref_stack |-> << >>, object_element |-> Nowhere, keep_stack |-> <<TRUE>>, key_keep_stack |-> << >>]

(* handle_value: at is Nowhere when the value is not kept.                 *)
handle_kept(d, v, keep) ==
  LET plain == handle_value(d, v)
      in_object == d.ref_stack # << >> /\ Last(d.ref_stack) # Nowhere /\ Sub(d.root, Last(d.ref_stack)).t = "object"
      popped == [d EXCEPT !.key_keep_stack = Front(@)]
  IN CASE ~Last(d.keep_stack) \/ ~keep -> [at |-> Nowhere, d |-> d]
       [] Last(d.keep_stack) /\ keep /\ d.ref_stack # << >> /\ Last(d.ref_stack) = Nowhere -> [at |-> Nowhere, d |-> d]
       [] Last(d.keep_stack) /\ keep /\ in_object ->
            IF Last(d.key_keep_stack) THEN [at |-> plain.at, d |-> [popped EXCEPT !.root = plain.root]]
                                      ELSE [at |-> Nowhere, d |-> popped]
       [] OTHER -> [at |-> plain.at, d |-> [d EXCEPT !.root = plain.root]]

callback_start(d, x, kept) ==
  LET h == handle_kept([d EXCEPT !.keep_stack = Append(@, kept)], x.v, TRUE)
  IN [h.d EXCEPT !.ref_stack = Append(@, h.at)]

(* A key is added with the value discarded.                                *)
callback_key(d, x, kept) ==
  LET pushed == [d EXCEPT !.key_keep_stack = Append(@, kept)]
      back == Last(d.ref_stack)
  IN IF kept /\ back # Nowhere
       THEN [pushed EXCEPT !.root = Put(@, back, SetMember(Sub(@, back), x.k, Discarded)),
                           !.object_element = Append(back, InObject(x.k))]
       ELSE pushed

(* The value that ends becomes discarded; the end of an object removes the *)
(* first discarded value of the container around it, the one of an array   *)
(* the last item of the array around it.                                   *)
RemoveKid(v, i) == [v EXCEPT !.kids = RemoveAt(@, i)]
FirstDiscarded(v) == SelectInSeq(v.kids, LAMBDA m : m.v.t = "discarded")
callback_end(d, x, kept) ==
  LET back == Last(d.ref_stack)
      left == [d EXCEPT !.root = IF back # Nowhere /\ ~kept THEN Put(@, back, Discarded) ELSE @,
                        !.ref_stack = Front(@), !.keep_stack = Front(@)]
      around == IF left.ref_stack = << >> THEN Nowhere ELSE Last(left.ref_stack)
      box == Sub(left.root, around)
  IN CASE around = Nowhere -> left
       [] around # Nowhere /\ x.v.t = "object" /\ FirstDiscarded(box) # 0 ->
            [left EXCEPT !.root = Put(@, around, RemoveKid(box, FirstDiscarded(box)))]
       [] around # Nowhere /\ x.v.t = "array" /\ back # Nowhere /\ ~kept /\ box.t = "array" ->
            [left EXCEPT !.root = Put(@, around, RemoveKid(box, Len(box.kids)))]
       [] OTHER -> left

parse_event_t(x) == (IF x.v.t = "object" THEN [start |-> "object_start", end |-> "object_end"]
                                         ELSE [start |-> "array_start", end |-> "array_end"])[x.e]

(* The values that the callback is given: discarded at a start, the string *)
(* of a key, the whole container at an end.                                *)
callback_event(d, x, filter) ==
  LET depth == Len(d.ref_stack)
      ending == Sub(d.root, Last(d.ref_stack))
  IN CASE x.e = "value" -> handle_kept(d, x.v, callback(filter, depth, "value", x.v)).d
       [] x.e = "start" -> callback_start(d, x, callback(filter, depth, parse_event_t(x), Discarded))
       [] x.e = "key"   -> callback_key(d, x, callback(filter, depth, "key", JString(x.k)))
       [] x.e = "end"   -> callback_end(d, x, Last(d.ref_stack) = Nowhere \/ callback(filter, depth - 1, parse_event_t(x), ending))

(* A top-level value that is discarded becomes null (parser::parse).       *)
json_sax_dom_callback_parser(events, filter) ==
  LET OrNull(root) == IF root.t = "discarded" THEN JNull ELSE root
  IN OrNull(FoldLeft(LAMBDA d, x : callback_event(d, x, filter), CallbackDom, events).root)

-----------------------------------------------------------------------------
(* class parser of src/json/json.hpp: the tokens of the lexer to the      *)
(* events of the consumer.  A parser is at last_token, in the containers   *)
(* states (TRUE for an array); done is "" until sax_parse_internal returns. *)

get_token(in, r, ignore_comments) == [r EXCEPT !.last_token = scan(in, @.pos, ignore_comments)]
Parser(in, ignore_comments) ==
  [last_token |-> scan(in, 0, ignore_comments), states |-> << >>, skip |-> FALSE, evs |-> << >>, done |-> ""]
Sent(r, event) == [r EXCEPT !.evs = Append(@, event)]
parse_error(r) == [r EXCEPT !.done = "error"]

(* The value of a token that is one.                                       *)
token_value(tok) ==
  CASE tok.type = "literal_null" -> JNull
    [] tok.type \in {"literal_true", "literal_false"} -> JBool(IF tok.type = "literal_true" THEN 1 ELSE 0)
    [] tok.type = "value_integer" -> HInteger(tok.s)
    [] tok.type = "value_unsigned" -> HUnsigned(tok.s)
    [] tok.type = "value_float" -> HFloat(tok.s)
    [] tok.type = "value_string" -> JString(tok.buf)
    [] OTHER -> Discarded
Finite(s) == ~IsNaN(s) /\ ~IsInf(s)

(* The current token must be a key, and : after it: the parser is then at  *)
(* the token of the value.                                                 *)
parse_colon(in, colon, key, c) ==
  IF colon.last_token.type # "name_separator" THEN parse_error(colon) ELSE Sent(get_token(in, colon, c), Key(key))
parse_key(in, r, c) ==
  IF r.last_token.type # "value_string" THEN parse_error(r) ELSE parse_colon(in, get_token(in, r, c), r.last_token.buf, c)

(* A container that is not empty is entered.                               *)
Enter(r, array) == [r EXCEPT !.states = Append(@, array)]
Empty(r, type) == Sent([r EXCEPT !.skip = TRUE], EndEvent(type))
in_object(in, x, c) == IF x.last_token.type = "end_object" THEN Empty(x, "object") ELSE Enter(parse_key(in, x, c), FALSE)
in_array(x) == IF x.last_token.type = "end_array" THEN Empty(x, "array") ELSE Enter(x, TRUE)
begin_object(in, r, c) == in_object(in, Sent(get_token(in, r, c), StartEvent("object")), c)
begin_array(in, r, c) == in_array(Sent(get_token(in, r, c), StartEvent("array")))

(* The token of a value.                                                   *)
parse_value(in, r, c) ==
  LET tok == r.last_token
      v == token_value(tok)
  IN CASE tok.type = "begin_object" -> begin_object(in, r, c)
       [] tok.type = "begin_array" -> begin_array(in, r, c)
       [] v.t = "discarded" /\ tok.type \notin {"begin_object", "begin_array"} -> parse_error(r)
       [] v.t = "float" /\ ~Finite(v.s) -> parse_error(r)
       [] OTHER -> Sent([r EXCEPT !.skip = TRUE], Value(v))

(* After a value: the end, a comma or the end of the container.            *)
AfterComma(in, r, c) == IF Last(r.states) THEN r ELSE parse_key(in, r, c)
AfterItem(in, next, c) ==
  LET array == Last(next.states)
  IN CASE next.last_token.type = "value_separator" -> AfterComma(in, get_token(in, [next EXCEPT !.skip = FALSE], c), c)
       [] next.last_token.type = (IF array THEN "end_array" ELSE "end_object") ->
            Sent([next EXCEPT !.states = Front(@)], EndEvent(IF array THEN "array" ELSE "object"))
       [] OTHER -> parse_error(next)
state_evaluation(in, r, c) ==
  IF r.states = << >> THEN [r EXCEPT !.done = "ok"] ELSE AfterItem(in, get_token(in, r, c), c)

RECURSIVE sax_parse_internal(_, _, _)
sax_parse_internal(in, r, c) ==
  IF r.done # "" THEN r
  ELSE sax_parse_internal(in, IF r.skip THEN state_evaluation(in, r, c) ELSE parse_value(in, r, c), c)

(* sax_parse with strict: nothing may follow the value.                    *)
strict(in, r, ignore_comments) ==
  [ok |-> r.done = "ok" /\ get_token(in, r, ignore_comments).last_token.type = "end_of_input", evs |-> r.evs]
sax_parse(in, ignore_comments) == strict(in, sax_parse_internal(in, Parser(in, ignore_comments), ignore_comments), ignore_comments)

(* What parse gives: the discarded value for an error.                     *)
DomOf(r) == IF r.ok THEN json_sax_dom_parser(r.evs) ELSE Discarded
FilteredDomOf(r, filter) == IF r.ok THEN json_sax_dom_callback_parser(r.evs, filter) ELSE Discarded
parse(in, ignore_comments) == DomOf(sax_parse(in, ignore_comments))
parse_filtered(in, filter) == FilteredDomOf(sax_parse(in, FALSE), filter)

-----------------------------------------------------------------------------
(* class binary_reader of src/json/json.hpp: CBOR, MessagePack, UBJSON and *)
(* BSON to the events of a consumer.  A reader is [ok, pos, evs]: pos is   *)
(* chars_read, current the character At(in, pos), ok turns false when a    *)
(* function returns false.  What is got of the input comes with it in got. *)

Reader == [ok |-> TRUE, pos |-> 0, evs |-> << >>, got |-> << >>]
Error(r) == [r EXCEPT !.ok = FALSE]
Current(in, r) == At(in, r.pos)
get(r) == [r EXCEPT !.pos = @ + 1]
Sax(r, event) == IF r.ok THEN Sent(r, event) ELSE r

RECURSIVE get_ignore_noop(_, _)
get_ignore_noop(in, r) == IF Current(in, get(r)) = Ch.N THEN get_ignore_noop(in, get(r)) ELSE get(r)

(* get_number of w bytes, get_string and get_binary of w bytes.            *)
get_number(in, r, w) ==
  CASE ~r.ok -> r
    [] r.ok /\ r.pos + w <= Len(in) -> [r EXCEPT !.pos = @ + w, !.got = SubSeq(in, r.pos + 1, r.pos + w)]
    [] OTHER -> Error([r EXCEPT !.pos = Len(in) + 1])
get_string(in, r, len) == IF len = HUGE THEN Error(r) ELSE get_number(in, r, len)
get_binary(in, r, len) == get_string(in, r, len)

(* The bytes whose length was got before them.                             *)
get_sized(in, n) == IF n.ok THEN get_string(in, n, LengthOf(Unsigned(n.got))) ELSE n

(* The value made of the bytes got.                                        *)
GotUnsigned(r) == IF r.ok THEN Sax(r, Value(HUnsigned(Unsigned(r.got)))) ELSE r
GotInteger(r) == IF r.ok THEN Sax(r, Value(HInteger(Signed(r.got)))) ELSE r
GotString(r) == Sax(r, Value(JString(r.got)))
GotKey(r) == Sax(r, Key(r.got))
GotBinary(subtype, r) == Sax(r, Value(HBinary(subtype, r.got)))

(* f n times while it succeeds: more times than bytes remain would fail.   *)
Times(in, r, n, f(_)) ==
  LET most == Len(in) + 2
  IN FoldLeft(LAMBDA acc, i : IF acc.ok THEN f(acc) ELSE acc, r, [i \in 1..Min({n, most}) |-> i])
Widths == <<1, 2, 4, 8>>

-----------------------------------------------------------------------------
(* CBOR: the type of the current byte is in its three high bits, its low   *)
(* bits tell the number or how many bytes of it follow.                    *)
Info(c) == c % 32
cbor_number(in, r) ==
  LET c == Current(in, r)
  IN CASE Info(c) <= 23 -> [r EXCEPT !.got = <<Info(c)>>]
       [] Info(c) \in 24..27 -> get_number(in, r, Widths[Info(c) - 23])
       [] OTHER -> Error(r)
Indefinite(c) == Info(c) = 31
cbor_length(r) == IF r.ok THEN LengthOf(Unsigned(r.got)) ELSE 0
SizeMax(r) == r.ok /\ r.got = [i \in 1..8 |-> 255]    \* std::size_t(-1)

cbor_unsigned_value(in, r) == GotUnsigned(cbor_number(in, r))
cbor_negative_value(in, r) ==
  LET Negated1(n) == IF n.ok THEN Sax(n, Value(HInteger(Complement(Unsigned(n.got))))) ELSE n IN Negated1(cbor_number(in, r))

(* Strings (base 96) and binaries (base 64) of a known length, or chunks   *)
(* up to the byte 255; chunks may be of unknown length too.                *)
RECURSIVE get_cbor_bytes(_, _, _)
RECURSIVE cbor_chunks(_, _, _, _)
get_cbor_bytes(in, r, base) ==
  LET c == Current(in, r)
  IN CASE c \notin base..base + 31 -> Error(r)
       [] c = base + 31 -> cbor_chunks(in, get(r), base, << >>)
       [] c \in base..base + 30 -> get_sized(in, cbor_number(in, r))
cbor_chunks(in, r, base, bytes) ==
  LET More(chunk) == IF chunk.ok THEN cbor_chunks(in, get(chunk), base, bytes \o chunk.got) ELSE chunk
  IN IF Current(in, r) = 255 THEN [r EXCEPT !.got = bytes] ELSE More(get_cbor_bytes(in, r, base))
get_cbor_string(in, r) == get_cbor_bytes(in, r, 96)
get_cbor_binary(in, r) == GotBinary(NoSubtype, get_cbor_bytes(in, r, 64))

(* The double of a half-precision number.                                  *)
HalfToDouble(b) ==
  LET Number(sign, e, m) ==
        CASE e = 0 /\ m = 0 -> Double(sign, 0, 0)
          [] e = 31 -> Double(sign, 2047, IF m = 0 THEN 0 ELSE 4194304)
          [] OTHER -> Scaled(sign, IF e = 0 THEN m ELSE m + 1024, IF e = 0 THEN -24 ELSE e - 25)
  IN Number(b[1] \div 128, (b[1] \div 4) % 32, (b[1] % 4) * 256 + b[2])

GotFloat(r) ==
  LET Double64(b) == CASE Len(b) = 2 -> HalfToDouble(b) [] Len(b) = 4 -> FloatToDouble(b) [] OTHER -> b
  IN IF r.ok THEN Sax(r, Value(HFloat(Double64(r.got)))) ELSE r

(* get_char is TRUE when a new character is to be got.                     *)
RECURSIVE parse_cbor_internal(_, _, _, _)
RECURSIVE cbor_items(_, _, _)
RECURSIVE cbor_pairs(_, _, _)
cbor_items(in, r, ignore) ==
  LET More(item) == IF item.ok THEN cbor_items(in, get(item), ignore) ELSE item
  IN IF Current(in, r) = 255 THEN r ELSE More(parse_cbor_internal(in, r, FALSE, ignore))
cbor_pair(in, r, ignore) ==
  LET Item(key) == IF key.ok THEN parse_cbor_internal(in, key, TRUE, ignore) ELSE key
  IN Item(GotKey(get_cbor_string(in, r)))
cbor_pairs(in, r, ignore) ==
  LET More(pair) == IF pair.ok THEN cbor_pairs(in, get(pair), ignore) ELSE pair
  IN IF Current(in, r) = 255 THEN r ELSE More(cbor_pair(in, r, ignore))

(* n is the reader after the length.                                       *)
get_cbor_array(in, r, ignore) ==
  LET Counted(n) ==
        CASE Indefinite(Current(in, r)) \/ SizeMax(n) ->
               cbor_items(in, get(Sax([n EXCEPT !.ok = TRUE], StartEvent("array"))), ignore)
          [] OTHER -> Times(in, Sax(n, StartEvent("array")), cbor_length(n), LAMBDA x : parse_cbor_internal(in, x, TRUE, ignore))
  IN Sax(Counted(cbor_number(in, r)), EndEvent("array"))
get_cbor_object(in, r, ignore) ==
  LET Counted(n) ==
        CASE Indefinite(Current(in, r)) \/ SizeMax(n) ->
               cbor_pairs(in, get(Sax([n EXCEPT !.ok = TRUE], StartEvent("object"))), ignore)
          [] OTHER -> Times(in, Sax(n, StartEvent("object")), cbor_length(n), LAMBDA x : cbor_pair(in, get(x), ignore))
  IN Sax(Counted(cbor_number(in, r)), EndEvent("object"))

(* Tags are refused, or skipped.                                           *)
cbor_tag(in, r, ignore) ==
  LET c == Current(in, r)
      n == IF c <= 212 THEN r ELSE get_number(in, r, Widths[Info(c) - 23])
  IN IF ~ignore \/ ~n.ok THEN Error(r) ELSE parse_cbor_internal(in, n, TRUE, ignore)

parse_cbor_internal(in, before, get_char, ignore) ==
  LET r == IF get_char THEN get(before) ELSE before
      c == Current(in, r)
      type == c \div 32
  IN CASE c = EOF -> Error(r)
       [] type = 0 -> cbor_unsigned_value(in, r)
       [] type = 1 -> cbor_negative_value(in, r)
       [] type = 2 -> get_cbor_binary(in, r)
       [] type = 3 -> GotString(get_cbor_string(in, r))
       [] type = 4 -> get_cbor_array(in, r, ignore)
       [] type = 5 -> get_cbor_object(in, r, ignore)
       [] c \in (198..212) \cup (216..219) -> cbor_tag(in, r, ignore)
       [] c \in {244, 245} -> Sax(r, Value(JBool(c - 244)))
       [] c = 246 -> Sax(r, Value(JNull))
       [] c \in 249..251 -> GotFloat(get_number(in, r, Widths[c - 247]))
       [] OTHER -> Error(r)

-----------------------------------------------------------------------------
(* MessagePack                                                             *)
get_msgpack_string(in, r) ==
  LET c == Current(in, r)
  IN CASE c \in 160..191 -> get_string(in, r, c - 160)
       [] c \in 217..219 -> get_sized(in, get_number(in, r, Widths[c - 216]))
       [] OTHER -> Error(r)

(* bin, ext with a length and a subtype, fixext with a subtype.            *)
get_msgpack_binary(in, r) ==
  LET c == Current(in, r)
      Typed(len, sub) == IF sub.ok THEN GotBinary(sub.got[1], get_binary(in, sub, len)) ELSE sub
      Ext(n) == IF n.ok THEN Typed(LengthOf(Unsigned(n.got)), get_number(in, n, 1)) ELSE n
  IN CASE c \in 196..198 -> GotBinary(NoSubtype, get_sized(in, get_number(in, r, Widths[c - 195])))
       [] c \in 199..201 -> Ext(get_number(in, r, Widths[c - 198]))
       [] OTHER -> Ext([r EXCEPT !.got = <<2^(c - 212)>>])

RECURSIVE parse_msgpack_internal(_, _)
get_msgpack_array(in, r, len) ==
  Sax(Times(in, Sax(r, StartEvent("array")), len, LAMBDA x : parse_msgpack_internal(in, x)), EndEvent("array"))
get_msgpack_object(in, r, len) ==
  LET Item(key) == IF key.ok THEN parse_msgpack_internal(in, key) ELSE key
      Pair(x) == Item(GotKey(get_msgpack_string(in, get(x))))
  IN Sax(Times(in, Sax(r, StartEvent("object")), len, Pair), EndEvent("object"))

(* An array (220, 221) or an object (222, 223) with its length after.      *)
msgpack_long(in, r) ==
  LET c == Current(in, r)
      Counted(n, len) == IF c <= 221 THEN get_msgpack_array(in, n, len) ELSE get_msgpack_object(in, n, len)
      Long(n) == IF n.ok THEN Counted(n, LengthOf(Unsigned(n.got))) ELSE n
  IN Long(get_number(in, r, IF c % 2 = 0 THEN 2 ELSE 4))

(* The number that a byte is.                                              *)
msgpack_fixint(r, c) == GotUnsigned([r EXCEPT !.got = <<c>>])
msgpack_negative_fixint(r, c) == GotInteger([r EXCEPT !.got = <<c>>])

(* The bytes that are a type.                                              *)
msgpack_typed(in, r, c) ==
  CASE c = 192 -> Sax(r, Value(JNull))
    [] c \in {194, 195} -> Sax(r, Value(JBool(c - 194)))
    [] c \in (196..201) \cup (212..216) -> get_msgpack_binary(in, r)
    [] c \in {202, 203} -> GotFloat(get_number(in, r, IF c = 202 THEN 4 ELSE 8))
    [] c \in 204..207 -> GotUnsigned(get_number(in, r, Widths[c - 203]))
    [] c \in 208..211 -> GotInteger(get_number(in, r, Widths[c - 207]))
    [] c \in 220..223 -> msgpack_long(in, r)
    [] c \in 224..255 -> msgpack_negative_fixint(r, c)
    [] OTHER -> Error(r)

parse_msgpack_internal(in, before) ==
  LET r == get(before)
      c == Current(in, r)
  IN CASE c = EOF -> Error(r)
       [] c \in 0..127 -> msgpack_fixint(r, c)
       [] c \in 128..143 -> get_msgpack_object(in, r, c - 128)
       [] c \in 144..159 -> get_msgpack_array(in, r, c - 144)
       [] c \in (160..191) \cup (217..219) -> GotString(get_msgpack_string(in, r))
       [] c \in (192..255) \ (217..219) -> msgpack_typed(in, r, c)

-----------------------------------------------------------------------------
(* UBJSON: a letter tells the width of an integer; U is unsigned.          *)
IntegerWidth(c) ==
  CASE c \in {Ch.U, Ch.i} -> 1 [] c = Ch.I -> 2 [] c = Ch.l -> 4 [] c = Ch.L -> 8 [] OTHER -> 0
ubjson_integer(in, r, c) ==
  LET Extended(n) == IF n.ok THEN [n EXCEPT !.got = IF c = Ch.U THEN Unsigned(@) ELSE Signed(@)] ELSE n
      Wide(w) == IF w = 0 THEN Error(r) ELSE Extended(get_number(in, r, w))
  IN Wide(IntegerWidth(c))

(* A negative length is an empty string.                                   *)
get_ubjson_string(in, before, get_char) ==
  LET String(n) == IF n.ok THEN get_string(in, n, IF Negative(n.got) THEN 0 ELSE LengthOf(n.got)) ELSE n
      Length(r) == String(ubjson_integer(in, r, Current(in, r)))
  IN Length(IF get_char THEN get(before) ELSE before)

get_ubjson_size_value(in, before) ==
  LET Integer(r) == ubjson_integer(in, r, Current(in, r)) IN Integer(get_ignore_noop(in, before))

(* The type and the size of a container: size NPOS when none is told.      *)
NPOS == [i \in 1..8 |-> 255]
get_ubjson_size_type(in, before) ==
  LET Got(r, type) == [r |-> r, type |-> type, size |-> r.got]
      Sized(hash, type) == Got(get_ubjson_size_value(in, hash), type)
      Typed(hash, type) == IF Current(in, hash) = Ch.count THEN Sized(hash, type) ELSE Got(Error(hash), 0)
      First(r) ==
        CASE Current(in, r) = Ch.type -> Typed(get_ignore_noop(in, get(r)), Current(in, get(r)))
          [] Current(in, r) = Ch.count -> Sized(r, 0)
          [] OTHER -> [r |-> r, type |-> 0, size |-> NPOS]
  IN First(get_ignore_noop(in, before))

RECURSIVE get_ubjson_value(_, _, _)
RECURSIVE ubjson_items(_, _)
RECURSIVE ubjson_pairs(_, _)
parse_ubjson_internal(in, before, get_char) ==
  LET From(r) == get_ubjson_value(in, r, Current(in, r)) IN From(IF get_char THEN get_ignore_noop(in, before) ELSE before)

(* Up to the letter that closes the container.                             *)
ubjson_items(in, r) ==
  LET More(item) == IF item.ok THEN ubjson_items(in, get_ignore_noop(in, item)) ELSE item
  IN IF Current(in, r) = Ch.end_array THEN r ELSE More(parse_ubjson_internal(in, r, FALSE))
ubjson_pair(in, r, get_char, type) ==
  LET Item(key) ==
        CASE ~key.ok -> key
          [] key.ok /\ type # 0 -> get_ubjson_value(in, key, type)
          [] OTHER -> parse_ubjson_internal(in, key, TRUE)
  IN Item(GotKey(get_ubjson_string(in, r, get_char)))
ubjson_pairs(in, r) ==
  LET More(pair) == IF pair.ok THEN ubjson_pairs(in, get_ignore_noop(in, pair)) ELSE pair
  IN IF Current(in, r) = Ch.end_object THEN r ELSE More(ubjson_pair(in, r, FALSE, 0))

(* Values of the types Z, T and F take no byte: MaxEmpty of them stand for *)
(* any larger number, that ends by an exhaustion of memory.                *)
MaxEmpty == 4096
ExcessiveSize(s) == s # NPOS /\ s[1] >= 8     \* more than max_size()
ubjson_typed_items(in, begun, type, len) ==
  LET Typed(x) == IF type = 0 THEN parse_ubjson_internal(in, x, TRUE) ELSE get_ubjson_value(in, x, type)
  IN IF type \notin {Ch.Z, Ch.T, Ch.F} THEN Times(in, begun, len, Typed)
     ELSE IF len > MaxEmpty THEN Error(begun)
     ELSE FoldLeft(LAMBDA x, i : Typed(x), begun, [i \in 1..len |-> i])
get_ubjson_array(in, before) ==
  LET All(st) ==
        CASE ~st.r.ok -> st.r
          [] st.r.ok /\ st.size = NPOS -> ubjson_items(in, Sax(st.r, StartEvent("array")))
          [] st.r.ok /\ st.size # NPOS /\ st.type = Ch.N ->
               IF ExcessiveSize(st.size) THEN Error(st.r) ELSE Sax(st.r, StartEvent("array"))
          [] OTHER -> ubjson_typed_items(in, Sax(st.r, StartEvent("array")), st.type, LengthOf(st.size))
  IN Sax(All(get_ubjson_size_type(in, before)), EndEvent("array"))
get_ubjson_object(in, before) ==
  LET All(st) ==
        CASE ~st.r.ok -> st.r
          [] st.r.ok /\ st.size = NPOS -> ubjson_pairs(in, Sax(st.r, StartEvent("object")))
          [] OTHER -> Times(in, Sax(st.r, StartEvent("object")), LengthOf(st.size),
                            LAMBDA x : ubjson_pair(in, x, TRUE, st.type))
  IN Sax(All(get_ubjson_size_type(in, before)), EndEvent("object"))

(* The text of a number, scanned by the lexer up to its end.               *)
get_ubjson_high_precision_number(in, r) ==
  LET Scanned(text, tok) ==
        IF /\ tok.type \in {"value_integer", "value_unsigned", "value_float"}
           /\ scan(text.got, tok.pos, FALSE).type = "end_of_input"
          THEN Sax(text, Value(token_value(tok))) ELSE Error(text)
      Number(text) == IF text.ok THEN Scanned(text, scan(text.got, 0, FALSE)) ELSE text
      Text(n) == IF n.ok THEN get_string(in, n, LengthOf(n.got)) ELSE n
  IN Number(Text(get_ubjson_size_value(in, r)))

ubjson_char(in, before) ==
  LET r == get(before)
  IN IF Current(in, r) \in 0..127 THEN Sax(r, Value(JString(<<Current(in, r)>>))) ELSE Error(r)

get_ubjson_value(in, r, prefix) ==
  CASE prefix = EOF -> Error(r)
    [] prefix \in {Ch.T, Ch.F} -> Sax(r, Value(JBool(IF prefix = Ch.T THEN 1 ELSE 0)))
    [] prefix = Ch.Z -> Sax(r, Value(JNull))
    [] prefix = Ch.U -> GotUnsigned(ubjson_integer(in, r, prefix))
    [] prefix \in {Ch.i, Ch.I, Ch.l, Ch.L} -> GotInteger(ubjson_integer(in, r, prefix))
    [] prefix \in {Ch.d, Ch.D} -> GotFloat(get_number(in, r, IF prefix = Ch.d THEN 4 ELSE 8))
    [] prefix = Ch.H -> get_ubjson_high_precision_number(in, r)
    [] prefix = Ch.C -> ubjson_char(in, r)
    [] prefix = Ch.S -> GotString(get_ubjson_string(in, r, TRUE))
    [] prefix = Ch.array -> get_ubjson_array(in, r)
    [] prefix = Ch.object -> get_ubjson_object(in, r)
    [] OTHER -> Error(r)

-----------------------------------------------------------------------------
(* BSON: the size of a document is read and not used.                      *)
bson_number(in, r, w) == [get_number(in, r, w) EXCEPT !.got = Reverse(@)]

get_bson_cstr(in, r) ==
  LET Upto(end) == [r EXCEPT !.pos = end, !.got = SubSeq(in, r.pos + 1, end - 1)]
      First(ends) == IF ends = {} THEN Error(r) ELSE Upto(Min(ends))
  IN IF r.ok THEN First({p \in r.pos + 1..Len(in) : in[p] = 0}) ELSE r

(* A length is an int32_t; the byte after the characters may be any one.   *)
bson_length(in, r) ==
  LET Extended(n) == IF n.ok THEN [n EXCEPT !.got = Signed(@)] ELSE n IN Extended(bson_number(in, r, 4))
get_bson_string(in, r) ==
  LET Terminated(s) == IF s.ok /\ Current(in, get(s)) # EOF THEN get(s) ELSE Error(s)
      String(n, len) == IF Negative(n.got) \/ len < 1 THEN Error(n) ELSE Terminated(get_string(in, n, len - 1))
      Length(n) == IF n.ok THEN String(n, LengthOf(Unsigned(n.got))) ELSE n
  IN Length(bson_length(in, r))

get_bson_binary(in, r) ==
  LET Typed(len, sub) == IF sub.ok THEN GotBinary(sub.got[1], get_binary(in, sub, len)) ELSE sub
      Length(n) == IF n.ok /\ ~Negative(n.got) THEN Typed(LengthOf(Unsigned(n.got)), get_number(in, n, 1)) ELSE Error(n)
  IN Length(bson_length(in, r))

RECURSIVE parse_bson_element_list(_, _, _)
parse_bson_internal(in, r) ==
  Sax(parse_bson_element_list(in, Sax(get_number(in, r, 4), StartEvent("object")), FALSE), EndEvent("object"))
parse_bson_array(in, r) ==
  Sax(parse_bson_element_list(in, Sax(get_number(in, r, 4), StartEvent("array")), TRUE), EndEvent("array"))

(* The end of the input is a boolean that is true: the element list that   *)
(* holds it is refused then.                                               *)
parse_bson_element_internal(in, r, element_type) ==
  CASE element_type = 1 -> GotFloat(bson_number(in, r, 8))
    [] element_type = 2 -> GotString(get_bson_string(in, r))
    [] element_type = 3 -> parse_bson_internal(in, r)
    [] element_type = 4 -> parse_bson_array(in, r)
    [] element_type = 5 -> get_bson_binary(in, r)
    [] element_type = 8 -> Sax(get(r), Value(JBool(IF Current(in, get(r)) # 0 THEN 1 ELSE 0)))
    [] element_type = 10 -> Sax(r, Value(JNull))
    [] element_type \in {16, 18} -> GotInteger(bson_number(in, r, IF element_type = 16 THEN 4 ELSE 8))
    [] OTHER -> Error(r)

parse_bson_element_list(in, before, is_array) ==
  LET Next(element) == IF element.ok THEN parse_bson_element_list(in, element, is_array) ELSE element
      Named(name, type) ==
        IF name.ok THEN Next(parse_bson_element_internal(in, IF is_array THEN name ELSE GotKey(name), type)) ELSE name
      Type(r) ==
        CASE Current(in, r) = 0 -> r
          [] Current(in, r) = EOF -> Error(r)
          [] OTHER -> Named(get_bson_cstr(in, r), Current(in, r))
  IN IF before.ok THEN Type(get(before)) ELSE before

-----------------------------------------------------------------------------
(* sax_parse with strict, and the value that from_cbor, from_msgpack,      *)
(* from_ubjson and from_bson give.                                         *)
sax_parse_binary(in, format) ==
  LET Strict(r) ==
        LET end == IF format = "ubjson" THEN get_ignore_noop(in, r) ELSE get(r)
        IN [ok |-> r.ok /\ Current(in, end) = EOF, evs |-> r.evs]
  IN Strict(CASE format = "bson" -> parse_bson_internal(in, Reader)
              [] format \in {"cbor", "cbor_ignore"} -> parse_cbor_internal(in, Reader, TRUE, format = "cbor_ignore")
              [] format = "msgpack" -> parse_msgpack_internal(in, Reader)
              [] format = "ubjson" -> parse_ubjson_internal(in, Reader, TRUE))
from_binary(in, format) == DomOf(sax_parse_binary(in, format))
=============================================================================
