------------------------------ MODULE Jsonstr ------------------------------
(***************************************************************************)
(* src/json/rp-jsonstr.c: escaping of texts for JSON, in buffers sized by  *)
(* another function, and the recogniser of JSON texts.                     *)
(***************************************************************************)
EXTENDS Integers, Sequences, SequencesExt, FiniteSetsExt

(* Escaping works on character codes.                                      *)
Quote == 34
Backslash == 92

hex(digit) == IF digit > 9 THEN digit + 87 ELSE digit + 48

rp_jsonstr_string_escape_length(string) ==
  LET Cost(c) == CASE c \in 0..31 -> 6 [] c \in {Quote, Backslash} -> 2 [] OTHER -> 1
  IN FoldLeft(LAMBDA r, c : r + Cost(c), 0, string)

EscapeOf(c) ==
  CASE c \in 0..31 -> <<Backslash, 117, 48, 48, hex((c \div 16) % 16), hex(c % 16)>>
    [] c \in {Quote, Backslash} -> <<Backslash, c>>
    [] OTHER -> <<c>>

(* Characters are copied while there is room, the last one possibly cut;   *)
(* what remains is only counted.                                           *)
rp_jsonstr_string_escape(destlenmax, string) ==
  LET n == Len(string)
      Copy[i \in 0..n] ==   \* after i characters
        IF i = 0 THEN [i |-> 0, r |-> 0, dest |-> << >>]
        ELSE LET w == Copy[i - 1]
             IN IF w.i < i - 1 \/ w.r >= destlenmax THEN w
                ELSE LET e == EscapeOf(string[i])
                     IN [i |-> i, r |-> w.r + Len(e),
                         dest |-> w.dest \o SubSeq(e, 1, Min({Len(e), destlenmax - w.r}))]
      w == Copy[n]
      r == w.r + rp_jsonstr_string_escape_length(SubSeq(string, w.i + 1, n))
  IN [ret |-> r, dest |-> IF r < destlenmax THEN Append(w.dest, 0) ELSE w.dest]

rp_jsonstr_string_escape_unsafe(string) ==
  LET text == FlattenSeq([i \in DOMAIN string |-> EscapeOf(string[i])])
  IN [ret |-> Len(text), dest |-> Append(text, 0)]

-----------------------------------------------------------------------------
(* The recogniser reads one-character strings.  A position p stands for    *)
(* struct readtxt: the current character is At(t, p), "" past the end.     *)
At(t, p) == IF p <= Len(t) THEN t[p] ELSE ""

Digits == {"0", "1", "9"}
Hexas == Digits \cup {"a", "b", "e", "f"}
Blanks == {" ", "\n", "\r", "\t"}

Escapes == {"\"", "\\", "/", "b", "n", "f", "r", "t"}

(* First position from p on whose character is not in chars.               *)
Skip(t, p, chars) ==
  LET stops == {q \in p..Len(t) : t[q] \notin chars}
  IN IF stops = {} THEN Max({p, Len(t) + 1}) ELSE Min(stops)

skip_whitespaces(t, p) == Skip(t, p, Blanks)

(* Each test returns the position reached, or fails where it stopped.      *)
Ok(p) == [ok |-> TRUE, p |-> p]
Fail(p) == [ok |-> FALSE, p |-> p]

test_string(t, start) ==
  LET len == Len(t)
      Body[p \in 1..len + 6] ==   \* p is read next
        CASE At(t, p) = "" -> Fail(p)
          [] At(t, p) = "\"" -> Ok(p + 1)
          [] At(t, p) = "\\" ->
               IF At(t, p + 1) \in Escapes THEN Body[p + 2]
               ELSE IF At(t, p + 1) # "u" THEN Fail(p + 1)
               ELSE LET h == Skip(SubSeq(t, 1, Min({len, p + 5})), p + 2, Hexas)
                    IN IF h = p + 6 THEN Body[p + 6] ELSE Fail(h)
          [] OTHER -> Body[p + 1]
  IN IF At(t, start) # "\"" THEN Fail(start) ELSE Body[start + 1]

(* Digits, then a point and digits, perhaps none, then an exponent.        *)
test_number(t, p) ==
  LET int == Skip(t, p, Digits)
      frac == IF At(t, int) = "." THEN Skip(t, int + 1, Digits) ELSE int
      exp == IF At(t, frac + 1) \in {"-", "+"} THEN frac + 2 ELSE frac + 1
  IN IF At(t, p) \notin Digits THEN Fail(p)
     ELSE IF At(t, frac) \notin {"e", "E"} THEN Ok(frac)
     ELSE IF At(t, exp) \notin Digits THEN Fail(exp)
     ELSE Ok(Skip(t, exp, Digits))

(* The literals are written here by their first letter twice.              *)
test_literal(t, p, c) ==
  IF At(t, p) # c THEN Fail(p) ELSE IF At(t, p + 1) # c THEN Fail(p + 1) ELSE Ok(p + 2)

(* test_array and test_object are their loops, from a place where the end  *)
(* is tested; v is the value that was read in the loop.                    *)
RECURSIVE test_value(_, _)

RECURSIVE test_array(_, _)
NextItem(t, v) ==
  IF ~v.ok THEN v
  ELSE CASE At(t, v.p) = "," -> test_array(t, v.p + 1)
         [] At(t, v.p) = "]" -> Ok(v.p + 1)
         [] OTHER -> Fail(v.p)
test_array(t, p) == IF At(t, p) = "]" THEN Ok(p + 1) ELSE NextItem(t, test_value(t, p))

RECURSIVE test_object(_, _)
NextMember(t, v) ==
  IF ~v.ok THEN v
  ELSE CASE At(t, v.p) = "," -> test_object(t, skip_whitespaces(t, v.p + 1))
         [] At(t, v.p) = "}" -> Ok(v.p + 1)
         [] OTHER -> Fail(v.p)
test_object(t, p) ==
  LET key == test_string(t, p)
      colon == skip_whitespaces(t, key.p)
  IN IF At(t, p) = "}" THEN Ok(p + 1)
     ELSE IF ~key.ok THEN key
     ELSE IF At(t, colon) # ":" THEN Fail(colon)
     ELSE NextMember(t, test_value(t, colon + 1))

(* The value at the first character that is not blank.                     *)
ValueAt(t, s) ==
  LET c == At(t, s)
  IN CASE c \in {"n", "t", "f"} -> test_literal(t, s, c)
       [] c \in {"-", "+"} -> test_number(t, s + 1)
       [] c \in Digits -> test_number(t, s)
       [] c = "\"" -> test_string(t, s)
       [] c = "[" -> test_array(t, skip_whitespaces(t, s + 1))
       [] c = "{" -> test_object(t, skip_whitespaces(t, s + 1))
       [] OTHER -> Fail(s)

AfterValue(t, r) == IF r.ok THEN Ok(skip_whitespaces(t, r.p)) ELSE r
test_value(t, p) == AfterValue(t, ValueAt(t, skip_whitespaces(t, p)))

(* size: what was read, but the refused character.                         *)
TestResult(t, v) ==
  LET valid == v.ok /\ At(t, v.p) = ""
      pos == Min({v.p, Len(t)})
  IN [valid |-> valid, size |-> IF valid THEN pos ELSE pos - 1]
rp_jsonstr_test(t) == TestResult(t, test_value(t, 1))

-----------------------------------------------------------------------------
(* The grammar of RFC 8259 over the same characters; loose is what the     *)
(* recogniser takes for it.  It differs by the numbers, that may have a +, *)
(* zeros in front or no digit after the point, by the control characters   *)
(* in strings and by a comma before the end of a container (directly       *)
(* before it in an array).                                                 *)
Numeral(s, loose) ==
  LET Digital(d) == d # << >> /\ ToSet(d) \subseteq Digits
      Whole(d) == Digital(d) /\ (loose \/ Len(d) = 1 \/ Head(d) # "0")
      Unsigned(d) ==
        \E a \in 1..Len(d) : \E b \in a..Len(d) :
          /\ Whole(SubSeq(d, 1, a))
          /\ \/ a = b
             \/ d[a + 1] = "." /\ (Digital(SubSeq(d, a + 2, b)) \/ (loose /\ b = a + 1))
          /\ \/ b = Len(d)
             \/ /\ d[b + 1] \in {"e", "E"}
                /\ \E k \in {b + 2, b + 3} :
                     /\ k = b + 3 => At(d, b + 2) \in {"+", "-"}
                     /\ Digital(SubSeq(d, k, Len(d)))
      signs == IF loose THEN {"-", "+"} ELSE {"-"}
  IN s # << >> /\ (Unsigned(s) \/ (Head(s) \in signs /\ Unsigned(Tail(s))))

Quoted(s, loose) ==
  LET n == Len(s)
      raw == {"\"", "\\"} \cup (IF loose THEN {} ELSE Blanks \ {" "})
      Inside[i \in 2..n + 6] ==
        \/ i = n
        \/ i < n /\ s[i] \notin raw /\ Inside[i + 1]
        \/ /\ i + 1 < n /\ s[i] = "\\"
           /\ \/ s[i + 1] \in Escapes /\ Inside[i + 2]
              \/ /\ s[i + 1] = "u" /\ i + 5 < n
                 /\ \A k \in i + 2..i + 5 : s[k] \in Hexas
                 /\ Inside[i + 6]
  IN n >= 2 /\ s[1] = "\"" /\ s[n] = "\"" /\ Inside[2]

Derived(t, loose) ==
  LET Blank(i, j) == \A k \in i..j - 1 : t[k] \in Blanks
      G[sort \in {"value", "elements", "members"}, i \in 1..Len(t) + 1, j \in 1..Len(t) + 1] ==
        CASE sort = "value" ->
               \E a \in i..j : \E b \in a..j :
                 /\ Blank(i, a) /\ Blank(b, j) /\ a < b
                 /\ t[a] \notin Blanks /\ t[b - 1] \notin Blanks
                 /\ LET s == SubSeq(t, a, b - 1)
                    IN \/ s \in {<<"n", "n">>, <<"t", "t">>, <<"f", "f">>}
                       \/ Numeral(s, loose) \/ Quoted(s, loose)
                       \/ /\ s[1] = "[" /\ s[b - a] = "]" /\ b - a > 1
                          /\ Blank(a + 1, b - 1) \/ G["elements", a + 1, b - 1]
                       \/ /\ s[1] = "{" /\ s[b - a] = "}" /\ b - a > 1
                          /\ Blank(a + 1, b - 1) \/ G["members", a + 1, b - 1]
          [] sort = "elements" ->
               \/ G["value", i, j]
               \/ loose /\ j - 1 > i /\ t[j - 1] = "," /\ G["value", i, j - 1]
               \/ \E k \in i + 1..j - 2 : t[k] = "," /\ G["value", i, k] /\ G["elements", k + 1, j]
          [] sort = "members" ->
               \E a \in i..j : \E b \in a + 2..j - 1 : \E c \in b..j - 2 :
                 /\ t[a] = "\"" /\ Blank(i, a) /\ Quoted(SubSeq(t, a, b - 1), loose) /\ Blank(b, c) /\ t[c] = ":"
                 /\ \/ G["value", c + 1, j]
                    \/ \E k \in c + 2..j - 1 :
                         /\ t[k] = "," /\ G["value", c + 1, k]
                         /\ G["members", k + 1, j] \/ (loose /\ Blank(k + 1, j))
  IN G["value", 1, Len(t) + 1]

IsJson(t) == Derived(t, FALSE)

-----------------------------------------------------------------------------
(* The three functions agree: the unsafe one writes exactly the computed   *)
(* length, and the safe one returns it and writes the beginning of the     *)
(* same text, whatever the room.                                           *)
EscapesAgree(string) ==
  LET length == rp_jsonstr_string_escape_length(string)
      unsafe == rp_jsonstr_string_escape_unsafe(string)
  IN /\ unsafe.ret = length /\ Len(unsafe.dest) = length + 1
     /\ \A room \in 0..length + 2 :
          LET e == rp_jsonstr_string_escape(room, string)
          IN e.ret = length /\ e.dest = SubSeq(unsafe.dest, 1, Min({room, length + 1}))

(* The accepted texts are those of JSON and of the loose grammar above,    *)
(* and no other, where rp-jsonstr.h:92 speaks of valid JSON; the consumed  *)
(* size is the whole text when it is accepted and excludes the refused     *)
(* character otherwise.  (An empty text of no length would count -1        *)
(* characters.)                                                            *)
AcceptsJson(t) ==
  LET r == rp_jsonstr_test(t)
  IN /\ IsJson(t) => r.valid
     /\ r.valid <=> Derived(t, TRUE)
     /\ r.valid => r.size = Len(t)
     /\ ~r.valid /\ t # << >> => r.size \in 0..Len(t) - 1
=============================================================================
