------------------------------ MODULE MCTexts ------------------------------
(* The algorithms on texts, over all the short texts of a small alphabet:  *)
(* a text grows by one character at each step.                             *)
EXTENDS Encodings, Jsonstr, ExpandVars, GlobMatch, Utilities

CONSTANTS STACKCOUNT, DEPTHMAX

VARIABLES algo, text

P == INSTANCE JsonPack
T == INSTANCE JsonTree

(* The numbers of the texts for YAML.                                      *)
Y == INSTANCE Yaml WITH
  strtol <- (<< >> :> 0) @@ (<<49>> :> 1) @@ (<<51>> :> 3) @@ (<<45, 56>> :> -8)
            @@ (<<49, 48, 48>> :> 100) @@ (<<49, 50>> :> 12),
  strtod <- (<<50, 46>> :> 4) @@ (<<49, 46, 53>> :> 3)

-----------------------------------------------------------------------------
(* JSON values and shapes.                                                 *)
KeyA == <<97>>
KeyB == <<98>>
Small == {P!JNull, P!JInt(3), P!JString(KeyA)}
Leaves == Small \cup {P!JBool(1), P!JInt(-8), P!JInt(100), P!JDouble(4), P!JDouble(3), P!JString(<<49, 50>>)}
Member(k, v) == [k |-> k, v |-> v]
Objects(vs) ==
  {P!JObject(<< >>)} \cup {P!JObject(<<Member(k, v)>>) : k \in {KeyA, KeyB}, v \in vs}
  \cup {P!JObject(<<Member(KeyA, v), Member(KeyB, w)>>) : v, w \in vs}
  \cup {P!JObject(<<Member(KeyB, v), Member(KeyA, w)>>) : v, w \in vs}
Arrays(vs) == {P!JArray(s) : s \in SeqOf(vs, 2)}
Flat == Arrays(Small) \cup Objects(Small)
Trees == Leaves \cup Flat \cup {P!JArray(<<c>>) : c \in Flat}
  \cup {P!JObject(<<Member(KeyA, c), Member(KeyB, P!JInt(3))>>) : c \in Flat}

Shape(l, end, of) == [l |-> l, end |-> end, of |-> of]
Sub(k, opt, sh) == [k |-> k, opt |-> opt, sh |-> sh]
OneLetter == {Shape(l, "", << >>) : l \in {"s", "s%", "n", "b", "i", "I", "f", "F", "o", "y"}}
FewLetters == {sh \in OneLetter : sh.l \in {"s", "i", "o"}}
ArrayShapes(shs) == {Shape("[", end, [i \in DOMAIN q |-> Sub(<< >>, FALSE, q[i])]) : end \in {"", "!", "*"}, q \in SeqOf(shs, 2)}
ObjectShapes(shs) ==
  {Shape("{", end, q) : end \in {"", "!", "*"},
     q \in {<< >>} \cup {<<Sub(KeyA, opt, sh)>> : opt \in BOOLEAN, sh \in shs}
           \cup {<<Sub(KeyA, o1, s1), Sub(KeyB, o2, s2)>> : o1, o2 \in BOOLEAN, s1, s2 \in shs}}
NestedShapes ==
  LET inner == {sh \in ArrayShapes(FewLetters) \cup ObjectShapes(FewLetters) : sh.end = "!" \/ Len(sh.of) = 2}
  IN {Shape("{", end, <<Sub(KeyA, opt, sh), Sub(KeyB, FALSE, Shape("i", "", << >>))>>) :
        opt \in BOOLEAN, sh \in inner, end \in {"", "!"}}

(* Files with references, environment and scanned strings.                 *)
Str(n) == P!JString(n)
RefTo(v) == P!JObject(<<Member(<<"$ref">>, v)>>)
Key(n) == <<n>>
MCFiles ==
  (<<"x">> :> P!JObject(<<Member(Key("a"), P!JInt(1)), Member(Key("b"), P!JNull)>>)) @@
  (<<"y">> :> P!JObject(<<Member(Key("a"), RefTo(Str(<<"x">>))), Member(Key("l"), P!JArray(<<Str(<<"$X">>), P!JNull>>))>>)) @@
  (<<"z">> :> RefTo(P!JArray(<<Str(<<"y">>), Str(<<"f">>)>>))) @@
  (<<"f">> :> P!JObject(<<Member(Key("l"), P!JArray(<<P!JInt(2)>>))>>)) @@
  (<<"d", "e">> :> P!JObject(<<Member(Key("l"), RefTo(Str(<<"f">>)))>>)) @@
  (<<"d", "f">> :> P!JObject(<<Member(Key("l"), Str(<<"true">>))>>)) @@
  (<<"loop">> :> P!JArray(<<RefTo(Str(<<"loop">>))>>)) @@
  (<<"arr">> :> P!JArray(<<RefTo(Str(<<"x">>)), Str(<<"null">>)>>)) @@
  (<<"bad">> :> P!JNull)
X == INSTANCE JsonExpand WITH
  Files <- MCFiles, Unreadable <- {<<"bad">>}, Dirs <- <<"d">> :> <<<<"e">>, <<"f">>>>,
  Environ <- (<<"$X">> :> <<"x">>) @@ (<<"$N">> :> <<"null">>),
  Scanned <- (<<"null">> :> P!JNull) @@ (<<"true">> :> P!JBool(1))
RefNames == {Str(n) : n \in {<<"x">>, <<"y">>, <<"z">>, <<"f">>, <<"d">>, <<"d", "e">>, <<"loop">>, <<"bad">>, <<"none">>, <<"$X">>}}
RefDocs == {RefTo(v) : v \in RefNames \cup {P!JInt(1), Str(<<"arr">>)}}
  \cup {RefTo(P!JArray(<<v, w>>)) : v \in RefNames, w \in RefNames \cup {P!JInt(1), Str(<<"arr">>)}}
Docs == RefDocs \cup {P!JNull}
  \cup {P!JObject(<<Member(Key("a"), Str(<<"$N">>)), Member(Key("b"), v), Member(Key("c"), P!JArray(<<v, Str(<<"$X">>)>>))>>) : v \in RefDocs}

(* Arguments of rp_jsonc_pack: NULL ones among others.                     *)
MCArgs == [i \in 1..10 |-> P!Arg(IF i % 4 = 0 THEN P!NULLSTR ELSE KeyA, 1,
                                IF i % 3 = 0 THEN P!JNull ELSE P!JInt(i))]
MCKeyvals == <<[label |-> KeyB, value |-> 1], [label |-> <<65>>, value |-> 2], [label |-> KeyB, value |-> 2]>>

(* Events of YAML with the anchor x, some in groups.                       *)
AnchorX == <<120>>
YEvent(type, s, anchor) == [type |-> type, plain |-> TRUE, text |-> s, anchor |-> anchor]
YScalar(s, anchor) == YEvent("scalar", s, anchor)
YMark(type, anchor) == YEvent(type, << >>, anchor)
Events ==
  {<<YScalar(<<49>>, << >>)>>, <<YScalar(KeyA, AnchorX)>>,
   <<YMark("alias", AnchorX)>>,
   <<YMark("sequence start", AnchorX), YScalar(<<49>>, << >>), YMark("sequence end", << >>)>>,
   <<YMark("sequence end", << >>)>>, <<YMark("mapping end", << >>)>>}
  \cup {<<YMark(start, anchor)>> : start \in {"sequence start", "mapping start"}, anchor \in {<< >>, AnchorX}}

Chars(s) == {<<c>> : c \in s}

(* What a text may grow by.                                                *)
Alphabet ==
  [escape |-> Chars({97, 66, 51, Space, Percent, Plus, -23, Amp, Equal}),
   args |-> Chars({97, Percent, Equal, Amp, 0}),
   url |-> Chars({97, Slash, Question, 0}),
   base64 |-> Chars({0, 255, 90, 251}),
   str2int |-> Chars({45, 43, 48, 49, 50, 53, 54, 57, 120, 98, 95, 65}),
   jsonescape |-> Chars({10, 31, 34, 92, 97, -23}),
   json |-> Chars({"[", "]", "{", "}", ",", "1", " "}) \cup {<<"\"", "a", "\"", ":">>},
   jsonscalar |-> Chars({"\"", "\\", "0", "1", ".", "e", "-", "+", "n", "\t"}) \cup {<<"u", "0", "0", "a">>},
   vars |-> Chars({"$", "A", "}", "-", "\\"}) \cup {<<"$", "{">>, <<"$", "{", "A">>, <<":", "-">>, <<"$", "C">>},
   glob |-> Chars({"a", "b", "*", "A"}),
   locale |-> Chars({"a", "b", "-", ",", "A"}),
   subpath |-> Chars({"a", ".", "/"}),
   which |-> Chars({"a", "/", ":"}),
   cmdline |-> Chars({"a", "b", " "}),
   uuid |-> Chars({65, 97, 45, 103}),
   pearson |-> Chars({0, 97, 255}),
   unpack |-> {<<sh, v>> : sh \in OneLetter \cup ArrayShapes(FewLetters) \cup ObjectShapes(FewLetters), v \in Trees},
   nested |-> {<<sh, v>> : sh \in NestedShapes, v \in Trees \ Leaves},
   jsonexpand |-> {<<v, flags, path>> : v \in Docs, flags \in SUBSET {"refs", "multiple", "dir", "nulls", "env", "scan"},
                                        path \in {<<"x">>, <<"d", "e">>}},
   jsonpath |-> Chars({T!PathIndex(i) : i \in {0, 9, 10, 99, 100, 101, 999, 1000, 9999, 10000, 123456}} \cup {T!PathKey(KeyA), T!PathKey(<<97, 98>>)}),
   pack |-> Chars({"s", "o", "[", "]", "{", "}", "?", "*"}) \cup {<<"s", "o">>},
   yaml |-> Events,
   packed |-> Chars(Trees),
   compare |-> {<<x, y>> : x \in Trees, y \in Trees},
   order |-> {<<x, y, z>> : x, y, z \in Objects({P!JInt(1), P!JInt(2), P!JNull}) \cup Arrays({P!JInt(1), P!JInt(2)})},
   jsonint |-> Chars({P!JInt(n) : n \in -128..255} \cup {P!JDouble(n) : n \in -5..34} \cup {P!JNull, P!JBool(0), P!JBool(1)}
                     \cup {P!JString(s) : s \in SeqOf({45, 48, 49, 53}, 3)})]

MaxLen ==
  [escape |-> 4, args |-> 5, url |-> 6, base64 |-> 5, str2int |-> 4, jsonescape |-> 4,
   json |-> 5, jsonscalar |-> 4, vars |-> 4, glob |-> 4, locale |-> 5,
   subpath |-> 7, which |-> 7, cmdline |-> 6, uuid |-> 6, pearson |-> 2,
   unpack |-> 1, nested |-> 1, pack |-> 5, packed |-> 1, compare |-> 1, order |-> 1, jsonint |-> 1,
   jsonexpand |-> 1, jsonpath |-> 2, yaml |-> 5]

(* A text has grown len times: this is the length its growth is limited by. *)
VARIABLE grown

MCInit == algo \in DOMAIN Alphabet /\ text = << >> /\ grown = 0
MCNext ==
  /\ grown < MaxLen[algo]
  /\ \E c \in Alphabet[algo] : \E t \in {text \o c} :
       /\ algo = "yaml" => Y!Nested(t)
       /\ text' = t
  /\ grown' = grown + 1
  /\ UNCHANGED algo
MCSpec == MCInit /\ [][MCNext]_<<algo, text, grown>>

(* The C strings that a text with terminators holds.                       *)
Strings(t) ==
  LET ends == {k \in 1..Len(t) : t[k] = 0}
      Start(e) == Max({0} \cup {k \in ends : k < e}) + 1
      nth == SetToSortSeq(ends, LAMBDA x, y : x < y)
  IN [i \in 1..Len(nth) |-> SubSeq(t, Start(nth[i]), nth[i] - 1)]

(* rp_escape then rp_unescape give any text back, each filling exactly the *)
(* buffer sized by its first pass.                                         *)
EscapeInverts == algo = "escape" => EscapeRoundTrips(text)

(* rp_unescape and rp_unescape_args stay inside their allocation for any   *)
(* text, malformed escapes included.                                       *)
UnescapeFits == algo = "escape" => UnescapeStaysInside(text)

(* Arguments made by rp_escape_args and read by rp_unescape_args come back *)
(* in pairs, and rp_unescaped_args_get finds the first value of each key.  *)
ArgsSurvive == algo = "args" => ArgsComeBack(Strings(text))

(* rp_escape_url_to writes the beginning of what rp_escape_url makes,      *)
(* whatever the room it is given, and returns the whole length.            *)
UrlFits == 
  algo = "url" => LET s == Strings(text)
                  IN Len(s) >= 2 => UrlToIsPrefix(s[1], s[2], SubSeq(s, 3, Len(s)))

(* rp_base64_encode gives the bits of the data by groups of six, in lines  *)
(* of the width, padded, in the announced length.                          *)
Base64Formats == algo = "base64" =>
  \A width \in {0, 1, 3, 4, 5}, pad, url \in BOOLEAN : EncodesBits(text, width, pad, url)

(* rp_base64_decode gives back what rp_base64_encode was given, for every  *)
(* format.                                                                 *)
Base64Inverts == algo = "base64" =>
  \A width \in {0, 3}, pad, url \in BOOLEAN : DecodeInverts(text, width, pad, url)

(* The functions of rp-str2int.c give the number a text denotes in exactly *)
(* the types that can hold it, unless its overflow is overlooked.          *)
Str2IntExact == algo = "str2int" => ConvertsExactly(text)

(* The three functions that escape a JSON string (length, bounded, unsafe) *)
(* agree for every room.                                                   *)
JsonEscapes == algo = "jsonescape" => EscapesAgree(text)

(* rp_jsonstr_test accepts JSON and the loose forms of it that Jsonstr     *)
(* lists, nothing else, and tells how much of a refused text was read.     *)
JsonAccepted == algo \in {"json", "jsonscalar"} => AcceptsJson(text)

MCVars == <<<<[name |-> <<"A">>, value |-> <<"z">>], [name |-> <<"C">>, value |-> <<"$", "A", "$", "B">>]>>,
            <<[name |-> <<"A">>, value |-> <<"A">>], [name |-> <<"z">>, value |-> <<"$", "z">>],
              [name |-> <<"B">>, value |-> << >>]>>>>

(* The expansion of variables writes inside what its first pass allocated, *)
(* for texts with at most one braced reference.                            *)
VarsFit == algo = "vars" => ExpandFitsWhenSimple(text, MCVars)

(* A text whose $ and \ are escaped is expanded to itself.                 *)
VarsQuote == algo = "vars" => QuotingProtects(text, MCVars)

(* A finished expansion has no reference left: expanding it again changes  *)
(* nothing.                                                                *)
VarsEnd == algo = "vars" => ExpansionIsComplete(text, MCVars)

(* Variables are looked for in the lists in the order before, environment, *)
(* after, with the two kinds of default.                                   *)
VarsOrder == algo = "vars" /\ text = << >> =>
  LET Lists == {<< >>} \cup {<<[name |-> <<"A">>, value |-> v]>> : v \in {<<"z">>, << >>, <<"A">>}}
  IN \A before, after \in {<< >>} \cup {<<l>> : l \in Lists}, environ \in Lists, kind \in {"", "-", ":"} :
       LookupOrder([name |-> <<"A">>, kind |-> kind, def |-> IF kind = "" THEN << >> ELSE <<"z", "z">>],
                   before, environ, after)

(* globmatch accepts what its pattern describes and scores its number of   *)
(* literals.                                                               *)
GlobScores == algo = "glob" =>
  \A str \in SeqOf({"a", "b", "*"}, 3), casefold \in BOOLEAN : ScoresLiterals(text, str, casefold)

(* The list of a locale search has the locales of its definition with their*)
(* fallbacks, in the order asked for.                                      *)
LocaleOrder == algo = "locale" => \A immediate \in BOOLEAN : SearchListOrder(text, immediate)

(* The list of a locale search never passes its array and is only cut      *)
(* between items.                                                          *)
LocaleFits == algo = "locale" =>
  \A immediate \in BOOLEAN : \A llen \in {3, 6} : SearchListFits(llen, text, immediate)

(* subpath accepts exactly the relative paths none of whose beginnings     *)
(* leaves the root.                                                        *)
SubpathInside == algo = "subpath" => SubpathStaysInside(text)

(* rp_whichprog tries the directories of PATH in order and finds the first *)
(* that has the program.                                                   *)
WhichInside == algo = "which" => WhichInOrder(text, <<"x">>)

(* process_name_replace_cmdline leaves every argument in the area and the  *)
(* first ones hold the name.                                               *)
CommandLine == algo = "cmdline" =>
  \A argc \in 1..3 : \A total \in 2 * argc..7 : CommandLineIsName(argc, total, text)

(* The text of a UUID is read back, other texts are refused and never read *)
(* past their end.                                                         *)
UuidExact == algo = "uuid" =>
  /\ UuidTextIsExact(text, <<1, 1>>)
  /\ Len(text) = 3 => UuidComesBack(text, <<2, 1>>)

(* The hash separates all the characters that may follow a text.           *)
PearsonHash == algo = "pearson" => PearsonSeparates(text)

(* rp_jsonc_unpack accepts exactly the values of the described shape and   *)
(* stores what each letter designates, optional keys being absent or not.  *)
UnpackExact == algo \in {"unpack", "nested"} /\ grown = 1 => P!UnpackIsExact(text[1], text[2])

(* rp_jsonc_pack then rp_jsonc_unpack, by the same description, give back  *)
(* every value.                                                            *)
PackInverts == algo = "packed" /\ grown = 1 => P!PackUnpack(text[1])

(* rp_jsonc_pack loses no object and releases none twice, whatever is wrong *)
(* in the description and whichever creation of an object fails, but for a *)
(* complete value that other characters follow.                            *)
PackLosesNothing == algo = "pack" => \A fails \in 0..4 : P!PackReleases(text, MCArgs, fails)

(* Integers are read exactly from JSON values in the types that hold them, *)
(* but negative doubles and overlooked overflows.                          *)
JsonIntegers == algo = "jsonint" /\ grown = 1 =>
  \A mode \in SUBSET {"null", "boolean", "double", "string"} : P!IntegersAreExact(text[1], mode)

(* rp_jsonc_equal is the equality of JSON values.                          *)
EqualValues == algo = "compare" /\ grown = 1 => T!EqualIsSameValue(text[1], text[2])

(* rp_jsonc_contains is the inclusion of JSON values.                      *)
ContainedValues == algo = "compare" /\ grown = 1 => T!ContainsIsInclusion(text[1], text[2])

(* rp_jsonc_cmp orders the values whose keys are in order and the same.    *)
CmpIsOrder == algo = "order" /\ grown = 1 => T!CmpOrders(text[1], text[2], text[3])

(* The values of configurations are read, defaulted or refused as asked.   *)
ConfValues == algo = "packed" /\ grown = 1 =>
  \A key \in {KeyA, KeyB}, required \in BOOLEAN : T!ConfIsRead(text[1], key, required, MCKeyvals)

(* rp_jsonc_default_expanding expands each value and each file once, ends, *)
(* and loses no object, whatever the flags and the errors.                 *)
ExpandedOnce == algo = "jsonexpand" /\ grown = 1 => X!ExpandsOnce(text[1], text[3], text[2])

(* The text of a JSON path fills what its first pass computed, and         *)
(* rp_jsonc_path finds what is in a root, and only that.                   *)
JsonPathFits ==
  /\ algo = "jsonpath" => T!PathFits(text)
  /\ algo = "packed" /\ grown = 1 /\ text[1] # P!JNull =>
       LET root  == T!Alloc(<< >>, text[1])
           other == T!Alloc(root.h, P!JInt(3))
       IN \A a \in DOMAIN other.h : T!PathLeadsTo(other.h, root.a, a)

(* The values of YAML documents without aliases are those written.         *)
YamlValues == algo = "packed" /\ grown = 1 => Y!ReadsValues(text[1])

(* Aliases are shared references: the value is the one with its aliases    *)
(* written out, and no object is lost, errors included.                    *)
YamlAliases == algo = "yaml" => Y!AliasesAreShared(text)

(* What rp-escape.c and rp-base64.c encode is decoded to what it was; for  *)
(* malformed texts too, the second pass of a function never writes more    *)
(* than the first one counted.                                             *)
EncodingsInvert ==
  /\ EscapeInverts /\ UnescapeFits /\ ArgsSurvive
  /\ UrlFits /\ Base64Formats /\ Base64Inverts

(* Numbers, UUIDs and JSON scalars are read, from texts (rp-str2int.c) or   *)
(* JSON values (rp-jsonc.c), up to the limits of every type and beyond, and *)
(* rp_jsonstr_test recognises JSON.  It is what the headers say except      *)
(* three things, each delimited in its property: decimals just above        *)
(* UINT64_MAX wrap (NumbersFitIn64Bits is what is documented), negative     *)
(* doubles are not converted, and JSON is recognised loosely.               *)
ScalarsAreRead ==
  /\ Str2IntExact /\ UuidExact /\ JsonIntegers
  /\ JsonEscapes /\ JsonAccepted

(* rp-expand-vars.c ends, fills what it allocated, leaves no reference behind *)
(* and takes values from the lists in the order asked for.                 *)
VarsAreExpanded ==
  /\ VarsFit /\ VarsQuote /\ VarsEnd
  /\ VarsOrder

(* Names are matched and made inside their arrays: patterns, lists of locales, *)
(* relative paths, programs of PATH, arguments of a process, hashes.       *)
NamesAreFound ==
  /\ GlobScores /\ LocaleOrder /\ LocaleFits
  /\ SubpathInside /\ WhichInside /\ CommandLine
  /\ PearsonHash

(* rp_jsonc_pack and rp_jsonc_unpack make and take what their descriptions *)
(* say, and the comparisons and the readers of configurations are those of *)
(* JSON values.                                                            *)
JsonIsDescribed ==
  /\ UnpackExact /\ PackInverts
  /\ EqualValues /\ ContainedValues /\ CmpIsOrder
  /\ ConfValues

(* References to files and aliases of YAML are replaced by what they designate, *)
(* each once, with no object lost or freed twice, errors included.         *)
DocumentsAreExpanded ==
  /\ ExpandedOnce /\ JsonPathFits /\ YamlValues
  /\ YamlAliases

(* What rp-str2int.h says of the functions: a text that is no number of    *)
(* their type, for one because it does not fit in 64 bits, is refused.     *)
NumbersFitIn64Bits == algo = "str2int" => ConvertsAll(text)

(* The expansion of variables writes inside what its first pass allocated, *)
(* for every text: a reference is counted for the "length to remove"       *)
(* (comment of the two passes of expand).                                  *)
VarsAlwaysFit == algo = "vars" => ExpandFits(text, MCVars)
=============================================================================
