----------------------------- MODULE ExpandVars -----------------------------
(***************************************************************************)
(* src/misc/rp-expand-vars.c: the expansion of variables in a text, in     *)
(* turns of two passes of the same loop, the first to size the result, the *)
(* second to write it.  Texts are sequences of one-character strings.  A   *)
(* list of definitions, char **vars, is a sequence of [name, value].       *)
(***************************************************************************)
EXTENDS Integers, Sequences, SequencesExt, FiniteSetsExt

CONSTANTS RP_EXPAND_VARS_LIMIT, RP_EXPAND_VARS_DEPTH_MAX,
          NameChars   \* the characters that are isalnum or _ in the instance

NULL == <<"NULL">>    \* no text

(* The first definition of the name, in the first list that has one.       *)
rp_expand_vars_search(vars, name) ==
  LET k == SelectInSeq(vars, LAMBDA v : v.name = name)
  IN IF k = 0 THEN NULL ELSE vars[k].value

getvar(varsarray, name) ==
  LET k == SelectInSeq(varsarray, LAMBDA vars : rp_expand_vars_search(vars, name) # NULL)
  IN IF k = 0 THEN NULL ELSE rp_expand_vars_search(varsarray[k], name)

-----------------------------------------------------------------------------
Char(t, p) == IF p <= Len(t) THEN t[p] ELSE ""

(* A reference that starts at the $ of position p: its name, its default   *)
(* (kind "" for none), the position that follows it, whether it is to be   *)
(* looked for, and the length it is counted for.                           *)
PlainRef(t, p) ==
  LET stops == {q \in p + 1..Len(t) : t[q] \notin NameChars}
      end == IF stops = {} THEN Len(t) + 1 ELSE Min(stops)
  IN [name |-> SubSeq(t, p + 1, end - 1), kind |-> "", def |-> << >>, end |-> end,
      lookup |-> TRUE, removed |-> end - p]

BracedRef(t, p) ==
  LET close == IF Char(t, p + 1) = "(" THEN ")" ELSE "}"
      begin == p + 2
      closes == {q \in begin..Len(t) : t[q] = close}
      end == IF closes = {} THEN Len(t) + 1 ELSE Min(closes)
      defs == {q \in begin..end - 1 : t[q] = "-" \/ (t[q] = ":" /\ Char(t, q + 1) = "-")}
      at == Min(defs)
      kind == IF defs = {} THEN "" ELSE t[at]
  IN [name |-> SubSeq(t, begin, (IF defs = {} THEN end ELSE at) - 1),
      kind |-> kind,
      def |-> IF defs = {} THEN << >>
              ELSE SubSeq(t, at + (IF kind = ":" THEN 2 ELSE 1), end - 1),
      end |-> IF closes = {} THEN end ELSE end + 1,
      lookup |-> closes # {},
      removed |-> IF closes = {} THEN 2 + (end - begin) ELSE 3 + (end + 1 - begin)]

Ref(t, p) == IF Char(t, p + 1) \in {"(", "{"} THEN BracedRef(t, p) ELSE PlainRef(t, p)

(* What a reference is replaced by, v being the value of its name: the     *)
(* default for an unknown name and, for :-, for an empty value too.        *)
Defaulted(ref, v) ==
  IF (ref.kind # "" /\ v = NULL) \/ (ref.kind = ":" /\ v \in {NULL, << >>}) THEN ref.def
  ELSE IF v = NULL THEN << >> ELSE v
ValueOf(ref, varsarray) == IF ref.lookup THEN Defaulted(ref, getvar(varsarray, ref.name)) ELSE << >>

(* What a backslash protects.                                              *)
Protected == {"\\", "$"}

(* A written value with a $ asks for another turn.                         *)
Again(v) == Contains(v, "$")

(* One pass from position p: the text written, what was added and removed, *)
(* whether a written value has a $.                                        *)
Step(out, added, removed, again, rest) ==
  [out |-> out \o rest.out, add |-> added + rest.add, remove |-> removed + rest.remove,
   again |-> again \/ rest.again]

RECURSIVE Scan(_, _, _)
Replaced(ref, v, rest) == Step(v, Len(v), ref.removed, Again(v), rest)
Replace(t, varsarray, ref) == Replaced(ref, ValueOf(ref, varsarray), Scan(t, varsarray, ref.end))
Scan(t, varsarray, p) ==
  CASE p > Len(t) -> [out |-> << >>, add |-> 0, remove |-> 0, again |-> FALSE]
    [] p <= Len(t) /\ t[p] = "\\" ->
         IF Char(t, p + 1) \in Protected
         THEN Step(<<t[p + 1]>>, 0, 1, FALSE, Scan(t, varsarray, p + 2))
         ELSE Step(<<"\\">>, 0, 0, FALSE, Scan(t, varsarray, p + 1))
    [] p <= Len(t) /\ t[p] \notin {"\\", "$"} -> Step(<<t[p]>>, 0, 0, FALSE, Scan(t, varsarray, p + 1))
    [] p <= Len(t) /\ t[p] = "$" ->
         IF Char(t, p + 1) = "$" THEN Step(<<"$">>, 0, 1, FALSE, Scan(t, varsarray, p + 2))
         ELSE Replace(t, varsarray, Ref(t, p))

(* Variant: the terminator is not counted.                                 *)
SizeOfTight(t, s) == Len(t) + s.add - s.remove

(* The bytes allocated for the result of a pass are i + 1; i is a size_t,  *)
(* so a negative one is above every limit.                                 *)
SizeOf(t, s) == Len(t) + 1 + s.add - s.remove

(* The turns from the d-th on, s being what its pass gives: the text, or   *)
(* NULL for an expansion that changes nothing, is too large or does not    *)
(* end, and whether each write stayed in its allocation.                   *)
RECURSIVE Turn(_, _, _, _)
AfterPass(text, varsarray, d, fits, s) ==
  LET i == SizeOf(text, s)
      fit == fits /\ Len(s.out) + 1 <= i + 1
  IN IF s.remove = 0 \/ i < 0 \/ i >= RP_EXPAND_VARS_LIMIT THEN [text |-> NULL, fits |-> fits]
     ELSE IF s.again THEN Turn(s.out, varsarray, d + 1, fit) ELSE [text |-> s.out, fits |-> fit]
Turn(text, varsarray, d, fits) ==
  IF d > RP_EXPAND_VARS_DEPTH_MAX THEN [text |-> NULL, fits |-> fits]
  ELSE AfterPass(text, varsarray, d, fits, Scan(text, varsarray, 1))
expand(value, varsarray) == Turn(value, varsarray, 1, TRUE)

(* The public functions: copy asks for the text itself when nothing is     *)
(* expanded.                                                               *)
rp_expand_vars_array(value, copy, varsarray) ==
  LET e == expand(value, varsarray)
  IN IF e.text = NULL /\ copy THEN value ELSE e.text

rp_expand_vars_only(value, copy, vars) == rp_expand_vars_array(value, copy, <<vars>>)
rp_expand_vars_env_only(value, copy, environ) == rp_expand_vars_array(value, copy, <<environ>>)

(* A list that may be NULL is a sequence of at most one list.              *)
rp_expand_vars_first(value, copy, vars, environ) ==
  rp_expand_vars_array(value, copy, vars \o <<environ>>)
rp_expand_vars_last(value, copy, vars, environ) ==
  rp_expand_vars_array(value, copy, <<environ>> \o vars)
rp_expand_vars(value, copy, before, environ, after) ==
  rp_expand_vars_array(value, copy, before \o <<environ>> \o after)

-----------------------------------------------------------------------------
ClosedBraces(t) ==
  Cardinality({p \in DOMAIN t : /\ t[p] = "$" /\ Char(t, p + 1) \in {"(", "{"}
                                /\ BracedRef(t, p).lookup})

Special == {"$", "\\"}

QuoteText(t) ==
  FlattenSeq([i \in DOMAIN t |-> IF t[i] \in Special THEN <<"\\", t[i]>> ELSE <<t[i]>>])

(* The second pass writes inside what the first one allocated, at every    *)
(* turn, for the texts with at most one braced reference (the values have  *)
(* none).                                                                  *)
ExpandFitsWhenSimple(value, varsarray) ==
  ClosedBraces(value) <= 1 => expand(value, varsarray).fits

(* Escaping each $ and each \ keeps a text from being expanded: it comes   *)
(* back as it was, whatever the variables.                                 *)
QuotingProtects(value, varsarray) ==
  LET e == expand(QuoteText(value), varsarray)
      special == ToSet(value) \cap Special # {}
      short == Len(value) + 1 < RP_EXPAND_VARS_LIMIT
  IN e.text = IF special /\ short THEN value ELSE NULL

(* Without escapes, an expansion that ends leaves no reference behind,     *)
(* those brought by the values included: expanding it again changes        *)
(* nothing.  (A default that ends with $ can make an escape with the $     *)
(* that follows it: defaults with $ are left out.)                         *)
ExpansionIsComplete(value, varsarray) ==
  LET e == expand(value, varsarray)
      Is(p, chars) == Char(value, p) \in chars
      escapes == \E p \in DOMAIN value : Is(p, {"\\"}) \/ (Is(p, {"$"}) /\ Is(p + 1, {"$"}))
      nested == \E p \in DOMAIN value : /\ Is(p, {"$"}) /\ Is(p + 1, {"(", "{"})
                                         /\ Contains(BracedRef(value, p).def, "$")
  IN ~escapes /\ ~nested /\ e.text # NULL =>
       ~Contains(e.text, "$") /\ expand(e.text, varsarray).text = NULL

(* A name is looked for in before, then in the environment, then in after; *)
(* a default replaces an unknown name and, written :-, an empty value.     *)
LookupOrder(ref, before, environ, after) ==
  LET defs == SelectSeq(FlattenSeq(before \o <<environ>> \o after), LAMBDA d : d.name = ref.name)
      known == defs # << >>
      text == <<"$", "{">> \o ref.name
                \o (CASE ref.kind = ":" -> <<":", "-">> [] ref.kind = "-" -> <<"-">> [] OTHER -> << >>)
                \o ref.def \o <<"}">>
      expected == IF known /\ (Head(defs).value # << >> \/ ref.kind # ":") THEN Head(defs).value
                  ELSE ref.def
  IN /\ rp_expand_vars(text, TRUE, before, environ, after) = expected
     /\ after = << >> => rp_expand_vars_first(text, TRUE, before, environ) = expected
     /\ before = << >> => rp_expand_vars_last(text, TRUE, after, environ) = expected

(* The comment of the line that counts a braced reference is "length to    *)
(* remove": as many characters as the reference has.                       *)
ExpandFits(value, varsarray) == expand(value, varsarray).fits
=============================================================================
