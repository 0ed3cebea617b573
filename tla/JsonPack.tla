------------------------------ MODULE JsonPack ------------------------------
(***************************************************************************)
(* The descriptions of JSON values, and the integers read from these.      *)
(***************************************************************************)
EXTENDS Json, Encodings, FiniteSets

(* The integers of JSON values: getu64 of src/json/rp-jsonc.c and the four *)
(* functions that narrow its result.  The texts of JSON strings are        *)
(* sequences of character codes.  A mode is the set of the types that are  *)
(* converted, integers being always accepted.                              *)

Unread == [rc |-> 0, value |-> 0]

(* rc: sign of the value, 0 when it is not converted.  A double is         *)
(* compared with its own magnitude, so a negative one is never converted.  *)
getu64(object, mode) ==
  CASE object.t = "null" -> IF "null" \in mode THEN [rc |-> 1, value |-> 0] ELSE Unread
    [] object.t = "boolean" -> IF "boolean" \in mode THEN [rc |-> 1, value |-> object.n] ELSE Unread
    [] object.t = "double" ->
         IF "double" \in mode /\ object.n >= 0 /\ object.n % 2 = 0
         THEN [rc |-> 1, value |-> object.n \div 2] ELSE Unread
    [] object.t = "int" ->
         IF object.n >= 0 THEN [rc |-> 1, value |-> object.n] ELSE [rc |-> -1, value |-> -object.n]
    [] object.t = "string" -> IF "string" \in mode THEN rp_str2u64(object.s) ELSE Unread
    [] OTHER -> Unread

rp_jsonc_int_mode_number == {"double", "string"}

rp_jsonc_get_int64(object, mode) == Signed(getu64(object, mode), INT64_MAX)
rp_jsonc_get_int32(object, mode) == Signed(getu64(object, mode), INT32_MAX)

rp_jsonc_get_uint64(object, mode) ==
  LET u == getu64(object, mode) IN [ok |-> u.rc > 0, value |-> u.value]

rp_jsonc_get_uint32(object, mode) ==
  LET u == getu64(object, mode) IN [ok |-> u.rc > 0 /\ u.value <= UINT32_MAX, value |-> u.value]

-----------------------------------------------------------------------------
(* A value converted by the mode is read exactly in the types that hold    *)
(* it and refused in the others: integers of any sign, doubles that are    *)
(* integers, numerals in strings, and, when asked, booleans and null.      *)
(* Two cases are left out, where the code is not what rp-jsonc.h says:     *)
(* negative doubles are read in no signed type (line 649, "if possible"),  *)
(* and the numerals whose overflow rp_str2u64 overlooks (ConvertsExactly   *)
(* says what these become).                                                *)
IntegersAreExact(object, mode) ==
  LET d == Denotes(object.s)
      integer == \/ object.t = "int"
                 \/ object.t = "double" /\ "double" \in mode /\ object.n % 2 = 0
                 \/ object.t = "string" /\ "string" \in mode /\ d.number
                 \/ object.t \in {"boolean", "null"} \cap mode
      v == CASE object.t = "double" -> object.n \div 2
             [] object.t = "string" -> d.sign * d.magnitude
             [] OTHER -> object.n
      minus == object.t = "string" /\ d.sign < 0   \* -0 is not unsigned
      Exact(r, low, high, positive) ==
        /\ r.ok <=> integer /\ v \in low..high /\ ~(positive /\ minus)
        /\ r.ok => r.value = v
  IN ~(object.t = "string" /\ d.overlooked) =>
       /\ ~(object.t = "double" /\ object.n < 0) =>
            /\ Exact(rp_jsonc_get_int64(object, mode), -INT64_MAX - 1, INT64_MAX, FALSE)
            /\ Exact(rp_jsonc_get_int32(object, mode), -INT32_MAX - 1, INT32_MAX, FALSE)
       /\ Exact(rp_jsonc_get_uint64(object, mode), 0, UINT64_MAX, TRUE)
       /\ Exact(rp_jsonc_get_uint32(object, mode), 0, UINT32_MAX, TRUE)

-----------------------------------------------------------------------------
(* rp_jsonc_vpack and vunpack of src/json/rp-jsonc.c: interpreters of a    *)
(* description, desc, with a stack of the containers being made or read.   *)
(* desc is a sequence of one-character strings.  The arguments are what    *)
(* va_arg gives: args[i], the i-th one, has a field for each type it may   *)
(* be asked as (str, num, obj), of which the description chooses one.      *)

CONSTANT STACKCOUNT   \* containers in containers

LOCAL B64 == INSTANCE Encodings

ignore_all == {" ", ",", ":"}
NULLSTR == <<-1>>   \* a NULL char*

C(desc, p) == IF p <= Len(desc) THEN desc[p] ELSE ""

(* The first position from p on that is not ignored.                       *)
skip(desc, p) ==
  LET stops == {q \in p..Len(desc) : desc[q] \notin ignore_all}
  IN IF stops = {} THEN Len(desc) + 1 ELSE Min(stops)

(* u and U are interpreted but never accepted.                             *)
Accepts(type) ==
  LET any == {"[", "{", "s", "n", "b", "i", "I", "f", "o", "O", "y", "Y"}
  IN CASE type = "}" -> {"s", "}"}
       [] type = "]" -> any \cup {"]"}
       [] OTHER -> any

-----------------------------------------------------------------------------
(* Objects that the value holds, itself included; NULL is none.            *)
RECURSIVE ObjectsIn(_)
ObjectsIn(v) ==
  IF v = JNull THEN 0 ELSE FoldLeft(LAMBDA n, m : n + ObjectsIn(m.v), 1, v.kids)

(* What follows a letter: the position after the modifiers, the next       *)
(* argument, the object in hand, an error, whether an object was created,  *)
(* and how many more objects than before the function has to release.      *)
Item(d, i, obj, rc, creates, gain) ==
  [d |-> d, i |-> i, obj |-> obj, rc |-> rc, creates |-> creates, gain |-> gain]
Made(d, i, obj)   == Item(d, i, obj, "none", TRUE, 1)
Given(d, i, obj)  == Item(d, i, obj, "none", FALSE, ObjectsIn(obj))
Refused(d, i, rc) == Item(d, i, JNull, rc, FALSE, 0)

(* A modifier, if it is there, and the position after it.                  *)
Modifier(desc, d, marks) ==
  IF C(desc, d) \in marks THEN [set |-> TRUE, d |-> skip(desc, d + 1)] ELSE [set |-> FALSE, d |-> d]

(* Parts of a string: each has its argument, then ? and %, then ? and +.   *)
(* The text is the concatenation of the parts that are not NULL.           *)
Joined(text, str, part) ==
  IF str = NULLSTR THEN text ELSE IF text = NULLSTR THEN part ELSE text \o part

StringItem(desc, d, i, text, nullable) ==
  CASE text # NULLSTR -> Made(d, i, JString(text))
    [] text = NULLSTR /\ (nullable \/ C(desc, d) = "*") -> Given(d, i, JNull)
    [] OTHER -> Refused(d, i, "null_string")

RECURSIVE StringParts(_, _, _, _, _, _)
StringParts(desc, args, d, i, text, nullable) ==
  LET opt1 == Modifier(desc, d, {"?"})
      sized == Modifier(desc, opt1.d, {"%", "#"})
      opt2 == Modifier(desc, sized.d, {"?"})
      now == Joined(text, args[i].str,
                    IF sized.set THEN SubSeq(args[i].str, 1, args[i + 1].num) ELSE args[i].str)
      next == IF sized.set THEN i + 2 ELSE i + 1
      maybe == nullable \/ opt1.set \/ opt2.set
  IN IF C(desc, opt2.d) = "+" THEN StringParts(desc, args, skip(desc, opt2.d + 1), next, now, maybe)
     ELSE StringItem(desc, opt2.d, next, now, maybe)

(* o gives its reference to the function, O another one.                   *)
PackObject(desc, args, d, i) ==
  LET obj == args[i].obj
  IN IF C(desc, d) = "?" THEN Given(skip(desc, d + 1), i + 1, obj)
     ELSE IF C(desc, d) # "*" /\ obj = JNull THEN Refused(d, i + 1, "null_object")
     ELSE Given(d, i + 1, obj)

(* Bytes in base 64; no byte makes an empty string, or null when asked.    *)
PackBytes(desc, args, d, i, url) ==
  LET bytes == args[i].str
      void == bytes = NULLSTR \/ args[i + 1].num = 0
      obj == JString(B64!rp_base64_encode(SubSeq(bytes, 1, args[i + 1].num), 0, FALSE, url).encoded)
      after == IF C(desc, d) = "?" THEN skip(desc, d + 1) ELSE d
  IN CASE ~void -> Made(after, i + 2, obj)
       [] void /\ C(desc, d) \in {"?", "*"} -> Given(after, i + 2, JNull)
       [] OTHER -> Made(d, i + 2, JString(<< >>))

(* A closed container; an empty one followed by * is put.                  *)
Closed(desc, d, i, cont) ==
  IF C(desc, d) = "*" /\ cont.kids = << >> THEN Item(d, i, JNull, "none", FALSE, -1)
  ELSE Item(d, i, cont, "none", FALSE, 0)

(* Null values followed by * are left out of arrays and objects.           *)
AddItem(top, obj, star) == IF obj = JNull /\ star THEN top.cont ELSE json_object_array_add(top.cont, obj)

AddMember(top, obj, star) ==
  IF obj = JNull /\ star THEN top.cont ELSE json_object_object_add(top.cont, top.key.s, obj)

(* Variant: a key that waits for its value is forgotten.                   *)
ReleasedConts(stack) == FoldLeft(LAMBDA n, entry : n + ObjectsIn(entry.cont), 0, stack)

(* The loop at the end of rp_jsonc_vpack: from the top down to the first   *)
(* entry, the key and the container are put.                               *)
Released(stack) ==
  FoldLeft(LAMBDA n, entry : n + ObjectsIn(entry.key) + ObjectsIn(entry.cont), 0, stack)

(* s is the place reached: position d, argument i, stack, objects created  *)
(* so far and objects to be released.  left is what nobody owns after an   *)
(* error.  With too many containers the loop starts beyond the array, with *)
(* an entry that was never written.                                        *)
PackError(rc, d, s) ==
  [rc |-> rc, pos |-> d, result |-> JNull, beyond |-> Len(s.stack) > STACKCOUNT,
   left |-> s.owned - Released(SubSeq(s.stack, 1, Min({Len(s.stack), STACKCOUNT})))]

(* The item of a letter c, cont being the container at the top.            *)
PackLetter(desc, args, c, d, i, cont) ==
  CASE c = "s" -> StringParts(desc, args, d, i, NULLSTR, FALSE)
    [] c = "n" -> Given(d, i, JNull)
    [] c = "b" -> Made(d, i + 1, JBool(IF args[i].num = 0 THEN 0 ELSE 1))
    [] c \in {"i", "I"} -> Made(d, i + 1, JInt(args[i].num))
    [] c = "f" -> Made(d, i + 1, JDouble(args[i].num))
    [] c \in {"o", "O"} -> PackObject(desc, args, d, i)
    [] c \in {"y", "Y"} -> PackBytes(desc, args, d, i, c = "y")
    [] OTHER -> Closed(desc, d, i, cont)

RECURSIVE PackFrom(_, _, _, _)

(* The object is added to the container at the top of the stack; the value *)
(* of a key that was there is put, and so is the key once used.            *)
PackAdd(desc, args, fails, s, it) ==
  LET top == Last(s.stack)
      star == Modifier(desc, it.d, {"*"})
      added == AddMember(top, it.obj, star.set)
      On(entry, d) == [s EXCEPT !.d = d, !.i = it.i, !.stack = Append(Front(@), entry)]
      Then(next) == PackFrom(desc, args, fails, next)
  IN CASE top.type = "" ->
            IF C(desc, it.d) # "" THEN PackError("invalid_character", it.d, s)
            ELSE [rc |-> "none", pos |-> it.d, result |-> it.obj, beyond |-> FALSE,
                  left |-> s.owned - ObjectsIn(it.obj)]
       [] top.type = "]" -> Then(On([top EXCEPT !.cont = AddItem(top, it.obj, star.set)], star.d))
       [] top.type = "}" ->
            IF it.obj = JNull THEN PackError("null_key", it.d, s)
            ELSE Then(On([top EXCEPT !.key = it.obj, !.type = ":"], it.d))
       [] top.type = ":" ->
            Then([On([top EXCEPT !.cont = added, !.key = JNull, !.type = "}"], star.d) EXCEPT
                    !.owned = @ - 1 - (ObjectsIn(top.cont) + ObjectsIn(it.obj) - ObjectsIn(added))])

(* An object is in hand unless its creation, the fails-th, fails.          *)
PackItem(desc, args, fails, s, it) ==
  LET t == [s EXCEPT !.created = @ + (IF it.creates THEN 1 ELSE 0), !.owned = @ + it.gain]
  IN CASE it.rc # "none" -> PackError(it.rc, it.d, s)
       [] it.rc = "none" /\ it.creates /\ t.created = fails -> PackError("out_of_memory", it.d, s)
       [] OTHER -> PackAdd(desc, args, fails, t, it)

PackOpen(desc, args, fails, s, d, type, cont) ==
  LET On(c) == [s EXCEPT !.d = d, !.created = @ + 1, !.owned = @ + ObjectsIn(c),
                         !.stack = Append(@, [cont |-> c, key |-> JNull, type |-> type])]
  IN CASE Len(s.stack) = STACKCOUNT -> PackError("too_deep", d, On(JNull))
       [] Len(s.stack) < STACKCOUNT /\ s.created + 1 = fails -> PackError("out_of_memory", d, On(JNull))
       [] OTHER -> PackFrom(desc, args, fails, On(cont))

PackFrom(desc, args, fails, s) ==
  LET c == C(desc, s.d)
      d == skip(desc, s.d + 1)
      accepted == c \in Accepts(Last(s.stack).type)
      popped == IF c \in {"]", "}"} THEN [s EXCEPT !.stack = Front(@)] ELSE s
  IN CASE c = "" -> PackError("truncated", s.d, s)
       [] c # "" /\ ~accepted -> PackError("invalid_character", s.d, s)
       [] accepted /\ c = "[" -> PackOpen(desc, args, fails, s, d, "]", JArray(<< >>))
       [] accepted /\ c = "{" -> PackOpen(desc, args, fails, s, d, "}", JObject(<< >>))
       [] OTHER -> PackItem(desc, args, fails, popped,
                            PackLetter(desc, args, c, d, s.i, Last(s.stack).cont))

(* fails: which creation of an object fails for lack of memory, 0 for none.*)
rp_jsonc_vpack(desc, args, fails) ==
  PackFrom(desc, args, fails,
           [d |-> skip(desc, 1), i |-> 1, created |-> 0, owned |-> 0,
            stack |-> <<[cont |-> JNull, key |-> JNull, type |-> ""]>>])

rp_jsonc_pack(desc, args) == rp_jsonc_vpack(desc, args, 0)

-----------------------------------------------------------------------------
(* Reading: acc tells which letters are accepted ("x" for the closing one  *)
(* only), x is xacc[0], the closing character or ":" when a value follows. *)
Readable(acc, x) ==
  LET any == {"[", "{", "s", "n", "b", "i", "I", "f", "F", "o", "O", "y", "Y"}
  IN CASE acc = "any" -> any
       [] acc = "arr" -> any \cup {"*", "!", "]"}
       [] acc = "key" -> {"*", "!", "s", "}"}
       [] acc = "x" -> {x}

UnpackError(rc, d, s) == [rc |-> rc, pos |-> d, stored |-> s.stored]

(* The value of a letter against the object in hand.                       *)
Fits(c, obj) ==
  CASE c = "s" -> obj.t = "string"
    [] c = "n" -> obj.t = "null"
    [] c = "b" -> obj.t = "boolean"
    [] c = "i" -> rp_jsonc_get_int32(obj, rp_jsonc_int_mode_number).ok
    [] c = "I" -> rp_jsonc_get_int64(obj, rp_jsonc_int_mode_number).ok
    [] c = "f" -> obj.t = "double"
    [] c = "F" -> obj.t \in {"double", "int"}
    [] c \in {"o", "O"} -> TRUE
    [] c \in {"y", "Y"} -> obj.t \in {"null", "string"}
    [] c = "[" -> obj.t = "array"
    [] c = "{" -> obj.t = "object"

Decoded(obj) == IF obj.t = "null" THEN [ok |-> TRUE, decoded |-> << >>] ELSE B64!rp_base64_decode(obj.s, 0)

(* What is stored through the pointer of a letter.                         *)
Output(c, obj) ==
  CASE c = "i" -> JInt(rp_jsonc_get_int32(obj, rp_jsonc_int_mode_number).value)
    [] c = "I" -> JInt(rp_jsonc_get_int64(obj, rp_jsonc_int_mode_number).value)
    [] c = "F" -> IF obj.t = "int" THEN JDouble(2 * obj.n) ELSE obj
    [] c \in {"y", "Y"} -> JString(Decoded(obj).decoded)
    [] OTHER -> obj

(* What ends an item: in an array the next one is taken, when a letter (or *)
(* the end of the description) asks for it; after the value of a member a  *)
(* key is expected.                                                        *)
RECURSIVE UnpackFrom(_, _, _)

NextItem(desc, keys, d, s) ==
  CASE s.x = "" ->
         IF C(desc, d) # "" THEN UnpackError("invalid_character", d, s)
         ELSE [rc |-> "none", pos |-> d, stored |-> s.stored]
    [] s.x = "]" ->
         LET top == Last(s.stack)
             asked == C(desc, d) \in Readable("any", "") \cup {""}
         IN IF s.ignore > 0 \/ ~asked THEN UnpackFrom(desc, keys, [s EXCEPT !.d = d])
            ELSE IF top.index >= Len(top.parent.kids) THEN UnpackError("out_of_range", d, s)
            ELSE UnpackFrom(desc, keys,
                   [s EXCEPT !.d = d, !.obj = top.parent.kids[top.index + 1].v,
                             !.stack = Append(Front(@), [top EXCEPT !.index = @ + 1])])
    [] s.x = ":" ->
         UnpackFrom(desc, keys, [s EXCEPT !.d = d, !.acc = "key", !.x = "}",
                                          !.ignore = IF @ > 0 THEN @ - 1 ELSE 0])

(* A key: not found, an optional one makes its value ignored, and those    *)
(* inside of it: ignore counts the levels.                                 *)
ReadKey(desc, keys, d, s) ==
  LET key == keys[s.k]
      optional == C(desc, d) = "?"
      after == IF optional THEN skip(desc, d + 1) ELSE d
      top == Last(s.stack)
      found == IndexOf(top.parent, key)
      next == [s EXCEPT !.d = after, !.k = @ + 1, !.x = ":", !.acc = "any"]
  IN IF s.ignore > 0 THEN UnpackFrom(desc, keys, [next EXCEPT !.ignore = @ + 1])
     ELSE IF found # 0
          THEN UnpackFrom(desc, keys,
                 [next EXCEPT !.obj = top.parent.kids[found].v,
                              !.stack = Append(Front(@), [top EXCEPT !.index = @ + 1])])
     ELSE IF optional THEN UnpackFrom(desc, keys, [next EXCEPT !.ignore = 1, !.obj = JNull])
     ELSE UnpackError("key_not_found", after, s)

(* Variant: what is not described is accepted.                             *)
CompleteOrMore(top) == top.index <= Len(top.parent.kids)

(* What ! asks for: all of the array or of the object was described.       *)
Complete(top) == top.index = Len(top.parent.kids)

(* A letter that designates a value: what is stored, then the item's end.  *)
UnpackValue(desc, keys, c, d, s) ==
  LET sized == Modifier(desc, d, IF c = "s" THEN {"%"} ELSE {})
      got == IF s.ignore > 0 THEN "unset" ELSE Output(c, s.obj)
      size == IF s.ignore > 0 THEN "unset" ELSE JInt(Len(s.obj.s))
  IN NextItem(desc, keys, sized.d,
       [s EXCEPT !.stored = @ \o (IF ~s.store THEN << >> ELSE IF sized.set THEN <<got, size>> ELSE <<got>>)])

UnpackLetter(desc, keys, c, d, s) ==
  LET Opened(x, acc) ==
        [s EXCEPT !.d = d, !.x = x, !.acc = acc, !.ignore = IF s.ignore > 0 THEN @ + 1 ELSE 0,
                  !.stack = Append(@, [parent |-> s.obj, acc |-> s.acc, index |-> 0, type |-> s.x])]
  IN IF c \in {"[", "{"} /\ Len(s.stack) = STACKCOUNT THEN UnpackError("too_deep", d, s)
     ELSE IF s.ignore = 0 /\ ~Fits(c, s.obj) THEN UnpackError("missfit", s.d, s)
     ELSE IF c \in {"y", "Y"} /\ s.store /\ s.ignore = 0 /\ ~Decoded(s.obj).ok THEN UnpackError("bad_base64", d, s)
     ELSE CASE c = "{" -> UnpackFrom(desc, keys, Opened("}", "key"))
            [] c = "[" -> NextItem(desc, keys, d, Opened("]", "arr"))
            [] c = "n" -> NextItem(desc, keys, d, s)
            [] OTHER -> UnpackValue(desc, keys, c, d, s)

(* The end of what is described: ! asks for nothing more.                  *)
UnpackRest(desc, keys, c, d, s) ==
  IF c = "!" /\ (C(desc, d) # s.x \/ s.stack = << >>) THEN UnpackError("invalid_character", d, s)
  ELSE IF c = "!" /\ s.ignore = 0 /\ ~Complete(Last(s.stack)) THEN UnpackError("incomplete", d, s)
  ELSE UnpackFrom(desc, keys, [s EXCEPT !.d = d, !.acc = "x"])

UnpackClose(desc, keys, d, s) ==
  NextItem(desc, keys, d,
    [s EXCEPT !.acc = Last(s.stack).acc, !.x = Last(s.stack).type, !.stack = Front(@),
              !.ignore = IF @ > 0 THEN @ - 1 ELSE 0])

UnpackFrom(desc, keys, s) ==
  LET c == C(desc, s.d)
      d == skip(desc, s.d + 1)
      readable == c \in Readable(s.acc, s.x)
  IN CASE c = "" -> UnpackError("truncated", s.d, s)
       [] c # "" /\ ~readable -> UnpackError("invalid_character", s.d, s)
       [] readable /\ c \in {"!", "*"} -> UnpackRest(desc, keys, c, d, s)
       [] readable /\ c \in {"]", "}"} -> UnpackClose(desc, keys, d, s)
       [] readable /\ c = "s" /\ s.x = "}" -> ReadKey(desc, keys, d, s)
       [] OTHER -> UnpackLetter(desc, keys, c, d, s)

(* keys are the arguments read as keys; stored has what each of the other  *)
(* arguments received, in their order.                                     *)
vunpack(object, desc, keys, store) ==
  UnpackFrom(desc, keys, [d |-> skip(desc, 1), k |-> 1, obj |-> object, acc |-> "any", x |-> "",
                          ignore |-> 0, stack |-> << >>, stored |-> << >>, store |-> store])

rp_jsonc_vunpack(object, desc, keys) == vunpack(object, desc, keys, TRUE)
rp_jsonc_vcheck(object, desc, keys) == vunpack(object, desc, keys, FALSE).rc
rp_jsonc_vmatch(object, desc, keys) == vunpack(object, desc, keys, FALSE).rc = "none"

-----------------------------------------------------------------------------
(* Descriptions as trees: a shape is a letter, or an array or an object of *)
(* shapes with its ending ("", "!" or "*"); opt is for optional keys.      *)
(*   [l |-> "[", end |-> "!", of |-> <<[k |-> key, opt |-> FALSE, sh |-> shape]>>] *)
RECURSIVE Written(_)
Written(sh) ==
  IF sh.l \notin {"[", "{"}
  THEN [desc |-> IF sh.l = "s%" THEN <<"s", "%">> ELSE <<sh.l>>, keys |-> << >>]
  ELSE LET inner == [j \in DOMAIN sh.of |-> Written(sh.of[j].sh)]
           Key(o) == IF sh.l = "[" THEN << >> ELSE IF o.opt THEN <<"s", "?">> ELSE <<"s">>
       IN [desc |-> <<sh.l>> \o FlattenSeq([j \in DOMAIN inner |-> Key(sh.of[j]) \o inner[j].desc])
                      \o (IF sh.end = "" THEN << >> ELSE <<sh.end>>)
                      \o <<IF sh.l = "[" THEN "]" ELSE "}">>,
           keys |-> FlattenSeq([j \in DOMAIN inner |->
                      (IF sh.l = "[" THEN << >> ELSE <<sh.of[j].k>>) \o inner[j].keys])]

(* Whether a value has a shape, and what its letters designate there.      *)
RECURSIVE Outputs(_, _, _)
Outputs(sh, v, absent) ==
  CASE sh.l = "n" -> << >>
    [] sh.l = "s%" -> IF absent THEN <<"unset", "unset">> ELSE <<v, JInt(Len(v.s))>>
    [] sh.l = "[" -> FlattenSeq([j \in DOMAIN sh.of |->
                       Outputs(sh.of[j].sh, IF absent THEN JNull ELSE v.kids[j].v, absent)])
    [] sh.l = "{" -> FlattenSeq([j \in DOMAIN sh.of |->
                       LET f == IF absent THEN 0 ELSE IndexOf(v, sh.of[j].k)
                       IN Outputs(sh.of[j].sh, IF f = 0 THEN JNull ELSE v.kids[f].v, f = 0)])
    [] OTHER -> <<IF absent THEN "unset" ELSE Output(sh.l, v)>>

RECURSIVE HasShape(_, _)
HasShape(sh, v) ==
  CASE sh.l = "s%" -> v.t = "string"
    [] sh.l = "[" -> /\ v.t = "array" /\ Len(v.kids) >= Len(sh.of)
                     /\ sh.end = "!" => Len(v.kids) = Len(sh.of)
                     /\ \A j \in DOMAIN sh.of : HasShape(sh.of[j].sh, v.kids[j].v)
    [] sh.l = "{" -> /\ v.t = "object"
                     /\ \A j \in DOMAIN sh.of :
                          LET f == IndexOf(v, sh.of[j].k)
                          IN IF f = 0 THEN sh.of[j].opt ELSE HasShape(sh.of[j].sh, v.kids[f].v)
                     /\ sh.end = "!" =>
                          Len(v.kids) = Cardinality({j \in DOMAIN sh.of : IndexOf(v, sh.of[j].k) # 0})
    [] OTHER -> Fits(sh.l, v)

(* Unpacking succeeds for exactly the values that have the described shape *)
(* and stores what each letter designates, what is under an absent         *)
(* optional key being left unset, whatever is nested in it.                *)
UnpackIsExact(sh, v) ==
  LET w == Written(sh)
      u == rp_jsonc_vunpack(v, w.desc, w.keys)
  IN /\ rp_jsonc_vmatch(v, w.desc, w.keys) <=> HasShape(sh, v)
     /\ u.rc \notin {"none", "bad_base64"} => u.rc = rp_jsonc_vcheck(v, w.desc, w.keys)
     /\ u.rc = "none" => u.stored = Outputs(sh, v, FALSE)

(* The description of a value.                                             *)
RECURSIVE ShapeOf(_)
ShapeOf(v) ==
  LET LetterOf(t) == [string |-> "s", null |-> "n", int |-> "I", boolean |-> "b", double |-> "f"][t]
  IN IF v.t \in {"array", "object"}
     THEN [l |-> IF v.t = "array" THEN "[" ELSE "{", end |-> "",
           of |-> [j \in DOMAIN v.kids |-> [k |-> v.kids[j].k, opt |-> FALSE, sh |-> ShapeOf(v.kids[j].v)]]]
     ELSE [l |-> LetterOf(v.t), end |-> "", of |-> << >>]

Arg(str, num, obj) == [str |-> str, num |-> num, obj |-> obj]

RECURSIVE ArgsOf(_)
ArgsOf(v) ==
  CASE v.t = "null" -> << >>
    [] v.t \in {"array", "object"} ->
         FlattenSeq([j \in DOMAIN v.kids |->
           (IF v.t = "object" THEN <<Arg(v.kids[j].k, 0, JNull)>> ELSE << >>) \o ArgsOf(v.kids[j].v)])
    [] OTHER -> <<Arg(v.s, v.n, v)>>

(* Packing a value by its description and unpacking it by the same one     *)
(* gives the value, then its leaves.                                       *)
PackUnpack(v) ==
  LET w == Written(ShapeOf(v))
      p == rp_jsonc_pack(w.desc, ArgsOf(v))
      u == rp_jsonc_vunpack(p.result, w.desc, w.keys)
  IN /\ p.rc = "none" /\ p.result = v
     /\ u.rc = "none"
     /\ u.stored = Outputs(ShapeOf(v), v, FALSE)

(* rp_jsonc_vpack releases what it made and was given, once: after a       *)
(* success the result is all there is, after an error there is nothing,    *)
(* whatever the description and the creation that fails.  One case is      *)
(* lost: a complete value followed by other characters, unless it is an    *)
(* empty container put for a *.  Only descriptions nested deeper than the  *)
(* stack make the releasing loop start beyond it.                          *)
PackReleases(desc, args, fails) ==
  LET p == rp_jsonc_vpack(desc, args, fails)
      whole == rp_jsonc_vpack(SubSeq(desc, 1, p.pos - 1), args, fails)
      put == C(desc, p.pos) = "*" /\ whole.result.t \in {"array", "object"} /\ whole.result.kids = << >>
      Depth(n) == Cardinality({q \in 1..n : desc[q] \in {"[", "{"}})
                  - Cardinality({q \in 1..n : desc[q] \in {"]", "}"}})
  IN /\ p.beyond => \E n \in DOMAIN desc : Depth(n) >= STACKCOUNT
     /\ p.pos \in 1..Len(desc) + 1
     /\ p.rc # "none" => p.result = JNull
     /\ p.left = IF p.rc = "invalid_character" /\ whole.rc = "none" /\ ~put THEN ObjectsIn(whole.result) ELSE 0
=============================================================================
