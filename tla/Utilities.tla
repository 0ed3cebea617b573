------------------------------ MODULE Utilities -----------------------------
(***************************************************************************)
(* Helpers of the library that walk through a text.                        *)
(***************************************************************************)
EXTENDS Integers, Sequences, SequencesExt, FiniteSetsExt, Bitwise

(* Helpers of the library that walk through a text: the check of relative  *)
(* paths (sandbox/subpath.c), the search of a program (misc/rp-whichprog.c),*)
(* the replacement of a command line (sandbox/process-name.c), the text of *)
(* a UUID (misc/rp-uuid.c) and a hash (misc/rp-pearson.c).  Texts are      *)
(* sequences of one-character strings, but for the last two, of codes.     *)

(* The character at position p, "" being the terminator.                   *)
ChrAt(t, p) == IF p <= Len(t) THEN t[p] ELSE ""

EndOfName(t, p, stop) == Min({Len(t) + 1} \cup {q \in p..Len(t) : t[q] = stop})

-----------------------------------------------------------------------------
(* Levels below the root; once negative it stays so.                       *)
subpath_is_valid(path) ==
  LET Named(p, l) == <<EndOfName(path, p, "/"), IF l >= 0 THEN l + 1 ELSE l>>
      Item(i, l) ==   \* after the item that starts at i: its end, the level
        CASE path[i] = "/" -> <<i + 1, l>>
          [] path[i] = "." ->
               CASE ChrAt(path, i + 1) = ""  -> <<i + 1, l>>
                 [] ChrAt(path, i + 1) = "/" -> <<i + 2, l>>
                 [] ChrAt(path, i + 1) = "." ->
                      CASE ChrAt(path, i + 2) = ""  -> <<i + 2, l - 1>>
                        [] ChrAt(path, i + 2) = "/" -> <<i + 3, l - 1>>
                        [] OTHER -> Named(i + 3, l)
                 [] OTHER -> Named(i + 2, l)
          [] OTHER -> Named(i + 1, l)
      Level[n \in 0..Len(path)] ==   \* after n items
        IF n = 0 THEN <<1, 0>>
        ELSE LET s == Level[n - 1] IN IF s[1] > Len(path) THEN s ELSE Item(s[1], s[2])
  IN ChrAt(path, 1) # "/" /\ Level[Len(path)][2] >= 0

subpath(path) == IF ~subpath_is_valid(path) THEN "NULL" ELSE IF path = << >> THEN <<".">> ELSE path

subpath_force(path) ==
  LET first == Min({Len(path) + 1} \cup {i \in DOMAIN path : path[i] # "/"})
  IN subpath(SubSeq(path, first, Len(path)))

(* A path is accepted exactly when no beginning of it leaves the root: of  *)
(* its first k components, never more .. than names.                       *)
SubpathStaysInside(path) ==
  LET starts == SetToSortSeq({i \in DOMAIN path : path[i] # "/" /\ (i = 1 \/ path[i - 1] = "/")}, <)
      Name(k) == SubSeq(path, starts[k], EndOfName(path, starts[k], "/") - 1)
      Ups(k) == Cardinality({j \in 1..k : Name(j) = <<".", ".">>})
      Downs(k) == Cardinality({j \in 1..k : Name(j) \notin {<<".", ".">>, <<".">>}})
      inside == \A k \in DOMAIN starts : Ups(k) <= Downs(k)
  IN /\ subpath_is_valid(path) <=> inside /\ ChrAt(path, 1) # "/"
     /\ (subpath_force(path) # "NULL") <=> inside

-----------------------------------------------------------------------------
(* The search of a program: the directories tried, in order, the positions *)
(* read, and whether the search ended in the text.  executable says which  *)
(* paths are.  At the end of the text after a colon, the end of the        *)
(* directory is looked for from beyond the terminator.                     *)
WhichTries(PATH) ==
  LET Try[p \in 1..Len(PATH) + 2] ==
        LET from == Min({Len(PATH) + 1} \cup {q \in p..Len(PATH) : PATH[q] # ":"})
            off == EndOfName(PATH, from + 1, ":")
        IN IF from > Len(PATH) THEN <<[dir |-> << >>, inside |-> FALSE]>>
           ELSE <<[dir |-> SubSeq(PATH, from, off - 1), inside |-> TRUE]>>
                \o (IF off > Len(PATH) THEN << >> ELSE Try[off + 1])
  IN Try[1]

Joined(dir, name) == IF Last(dir) = "/" THEN dir \o name ELSE dir \o <<"/">> \o name

rp_whichprog(name, evar, dflt, PATH, executable) ==
  LET tries == SelectSeq(WhichTries(PATH), LAMBDA t : t.inside)
      k == SelectInSeq(tries, LAMBDA t : Joined(t.dir, name) \in executable)
  IN CASE evar # "NULL" -> evar
       [] evar = "NULL" /\ k # 0 -> Joined(tries[k].dir, name)
       [] OTHER -> IF dflt # "NULL" THEN dflt ELSE name

(* A PATH with at least a directory and no colon at its end is read inside *)
(* its bounds, its directories are tried in order, and each can be the one *)
(* that has the program.                                                   *)
WhichInOrder(PATH, name) ==
  PATH # << >> /\ Last(PATH) # ":" =>
    LET tries == WhichTries(PATH)
        starts == SetToSortSeq({i \in DOMAIN PATH : PATH[i] # ":" /\ (i = 1 \/ PATH[i - 1] = ":")}, <)
        Dir(k) == SubSeq(PATH, starts[k], EndOfName(PATH, starts[k], ":") - 1)
    IN /\ tries = [k \in DOMAIN starts |-> [dir |-> Dir(k), inside |-> TRUE]]
       /\ \A j, k \in DOMAIN starts :
            LET executable == {Joined(Dir(j), name), Joined(Dir(k), name)}
                first == Min({i \in DOMAIN starts : Joined(Dir(i), name) \in executable})
            IN rp_whichprog(name, "NULL", "NULL", PATH, executable) = Joined(Dir(first), name)

-----------------------------------------------------------------------------
(* The arguments without a word: all at the end of the name.               *)
Remaining(count, beg) == [i \in 1..count |-> beg + 1]

(* The command line, argc texts in a row in total bytes with their         *)
(* terminators, is overwritten by name; its spaces part the arguments.     *)
process_name_replace_cmdline(argc, total, name) ==
  LET end == total - 1
      Patch[n \in 0..Len(name)] ==
        IF n = 0 THEN [mem |-> << >>, argv |-> <<1>>]
        ELSE LET w == Patch[n - 1]
             IN IF Len(w.mem) = end THEN w
                ELSE IF name[n] # " " \/ Len(w.argv) = argc
                     THEN [w EXCEPT !.mem = Append(@, name[n])]
                     ELSE [mem |-> Append(w.mem, ""), argv |-> Append(w.argv, Len(w.mem) + 2)]
      p == Patch[Len(name)]
      ended == IF Len(p.mem) < end THEN Append(p.mem, "") ELSE p.mem
      beg == Len(ended)
  IN [mem |-> ended \o [i \in 1..end - beg |-> " "] \o <<"">>,
      argv |-> p.argv \o Remaining(argc - Len(p.argv), beg)]

(* Each argument designates a text of the area, they are in order, and     *)
(* joined with spaces the first ones give back the name as far as it fits. *)
CommandLineIsName(argc, total, name) ==
  LET r == process_name_replace_cmdline(argc, total, name)
      Text(a) == SubSeq(r.mem, a, Min({i \in a..total : r.mem[i] = ""}) - 1)
      fit == SubSeq(name, 1, Min({Len(name), total - 1}))
      words == 1 + Cardinality({i \in DOMAIN fit : fit[i] = " "})
      used == Min({argc, words})
      Join[k \in 1..used] ==
        IF k = 1 THEN Text(r.argv[1]) ELSE Join[k - 1] \o <<" ">> \o Text(r.argv[k])
  IN /\ Len(r.mem) = total /\ Len(r.argv) = argc
     /\ \A k \in 1..argc : r.argv[k] \in 1..total
     /\ \A k \in 1..argc - 1 : r.argv[k] <= r.argv[k + 1]
     /\ Join[used] = fit

-----------------------------------------------------------------------------
(* UUIDs: groups of bytes, two hexadecimal digits each, with a dash after  *)
(* each group but the last.  Groups is <<4, 2, 2, 2, 6>> in C.             *)
HexDigit(y) == IF y < 10 THEN 48 + y ELSE 87 + y

HexValue(x) ==
  CASE x \in 48..57 -> x - 48 [] x \in 97..102 -> x - 87 [] x \in 65..70 -> x - 55 [] OTHER -> -1

b2h(uu, term) ==
  FlattenSeq([i \in DOMAIN uu |-> <<HexDigit(uu[i] \div 16), HexDigit(uu[i] % 16)>>]) \o term

Before(groups, g) == FoldLeft(+, 0, SubSeq(groups, 1, g - 1))

uuid_unparse_lower(uu, groups) ==
  FlattenSeq([g \in DOMAIN groups |->
    b2h(SubSeq(uu, Before(groups, g) + 1, Before(groups, g) + groups[g]),
        IF g < Len(groups) THEN <<45>> ELSE << >>)])

Ended(code, term) == code = term

(* A group of count bytes at position p, followed by the code term: the    *)
(* first wrong character ends the reading.                                 *)
h2b(from, p, count, term) ==
  LET Code(q) == IF q <= Len(from) THEN from[q] ELSE 0
  IN IF \A q \in p..p + 2 * count - 1 : HexValue(Code(q)) >= 0
     THEN [ok |-> Ended(Code(p + 2 * count), term), read |-> p + 2 * count,
           out |-> [i \in 1..count |-> HexValue(Code(p + 2 * i - 2)) * 16 + HexValue(Code(p + 2 * i - 1))]]
     ELSE [ok |-> FALSE, out |-> << >>,
           read |-> Min({q \in p..p + 2 * count - 1 : HexValue(Code(q)) < 0})]

rp_uuid_text_to_bin(from, groups) ==
  LET Parse[g \in 0..Len(groups)] ==
        IF g = 0 THEN [ok |-> TRUE, read |-> 0, out |-> << >>]
        ELSE LET before == Parse[g - 1]
             IN IF ~before.ok THEN before
                ELSE LET h == h2b(from, 2 * Before(groups, g) + g, groups[g],
                                  IF g < Len(groups) THEN 45 ELSE 0)
                     IN [h EXCEPT !.out = before.out \o @]
  IN Parse[Len(groups)]

rp_uuid_check_text(text, groups) == rp_uuid_text_to_bin(text, groups).ok

(* A text is the UUID it denotes and no other: what is accepted is, but    *)
(* for capitals, the text of the bytes it gives; no character is read      *)
(* after the terminator.                                                   *)
UuidTextIsExact(text, groups) ==
  LET r == rp_uuid_text_to_bin(text, groups)
      low == [i \in DOMAIN text |-> IF text[i] \in 65..70 THEN text[i] + 32 ELSE text[i]]
  IN /\ r.ok => uuid_unparse_lower(r.out, groups) = low
     /\ r.read <= Len(text) + 1

(* The text of any bytes is read back as these bytes.                      *)
UuidComesBack(uu, groups) ==
  LET r == rp_uuid_text_to_bin(uuid_unparse_lower(uu, groups), groups) IN r.ok /\ r.out = uu

-----------------------------------------------------------------------------
TP4 == <<4, 6, 1, 10, 9, 14, 11, 5, 3, 2, 12, 15, 0, 7, 8, 13>>

(* Both functions run this loop, one to the terminator, one for length.    *)
rp_pearson8_len(text) ==
  LET H[n \in 0..Len(text)] ==
        IF n = 0 THEN [rl |-> 0, ru |-> 15]
        ELSE LET h == H[n - 1]
             IN [rl |-> TP4[1 + (h.rl ^^ (text[n] % 16))], ru |-> TP4[1 + (h.ru ^^ (text[n] \div 16))]]
      h == H[Len(text)]
  IN (h.ru * 16 + h.rl) ^^ (Len(text) % 256)

(* For each beginning, all the 256 following characters give different     *)
(* hash values: the two halves are permuted, never merged.                 *)
PearsonSeparates(text) ==
  Cardinality({rp_pearson8_len(Append(text, c)) : c \in 0..255}) = 256

-----------------------------------------------------------------------------
(* The normalisation of a list of locales in src/sandbox/locale-root.c.    *)
(* Texts are sequences of one-character strings ("A" is the capital of     *)
(* "a").  The array list, whose items end with a zero, is the sequence of  *)
(* these items; Offset gives the bytes they use.                           *)

tolower(c) == IF c = "A" THEN "a" ELSE c
Lower(item) == [i \in DOMAIN item |-> tolower(item[i])]

Offset(list) == FoldLeft(LAMBDA off, item : off + Len(item) + 1, 0, list)

(* The search ends with the first item of the same size, equal or not.     *)
is_in_search_list(list, item) ==
  LET k == SelectInSeq(list, LAMBDA it : Len(it) = Len(item))
  IN k # 0 /\ list[k] = Lower(item)

LastDash(item) == SelectLastInSeq(item, LAMBDA c : c = "-")

Stripped(item) == SubSeq(item, 1, SelectLastInSeq(item, LAMBDA c : c # "-"))

(* The calls of add_search_list for an item: itself, then, rec allowing,   *)
(* its part before the last dash, and so on; last for the one without a    *)
(* next one.                                                               *)
Downgrades(item, rec) ==
  LET D[n \in 0..Len(item), r \in 0..Len(item)] ==
        LET it == Stripped(SubSeq(item, 1, n))
            j == IF r > 0 THEN LastDash(it) - 1 ELSE -1
        IN IF it = << >> THEN << >>
           ELSE IF j <= 0 THEN <<[text |-> it, last |-> TRUE]>>
           ELSE <<[text |-> it, last |-> FALSE]>> \o D[j, r - 1]
  IN D[Len(item), rec]

(* Variant: the room of the terminator is forgotten.                       *)
AddOneTight(list, llen, call) ==
  IF is_in_search_list(list, call.text) /\ call.last THEN list
  ELSE IF Offset(list) + Len(call.text) <= llen THEN Append(list, Lower(call.text)) ELSE list

(* An item already there is added again when it has a next one.            *)
AddOne(list, llen, call) ==
  IF is_in_search_list(list, call.text) /\ call.last THEN list
  ELSE IF Offset(list) + Len(call.text) < llen THEN Append(list, Lower(call.text)) ELSE list

add_search_list(list, llen, item, rec) ==
  LET calls == Downgrades(item, rec)
      Added[k \in 0..Len(calls)] ==
        IF k = 0 THEN list ELSE LET l == Added[k - 1] IN AddOne(l, llen, calls[k])
  IN Added[Len(calls)]

Separators == {" ", ",", ";"}

(* The items of a definition: what precedes a separator; the rest is left  *)
(* out up to the next comma (parameters like ;q=1).                        *)
DefinitionItems(def) ==
  LET n == Len(def)
      End(i, chars) == Min({n + 1} \cup {j \in i..n : def[j] \in chars})
      Items[i \in 1..n + 2] ==
        IF i > n THEN << >>
        ELSE IF def[i] \in Separators THEN Items[i + 1]
        ELSE LET j == End(i + 1, Separators)
             IN <<SubSeq(def, i, j - 1)>> \o Items[End(j, {","}) + 1]
  IN Items[1]

(* When not immediate, the prefixes come after all the items: each item of *)
(* the list, those just added included, adds its own.                      *)
make_search_list(llen, def, immediate) ==
  LET items == DefinitionItems(def)
      Built[k \in 0..Len(items)] ==
        IF k = 0 THEN << >>
        ELSE LET l == Built[k - 1]
             IN add_search_list(l, llen, items[k], IF immediate THEN Len(items[k]) ELSE 0)
      Fulfilled[k \in 0..llen] ==
        IF k = 0 THEN Built[Len(items)]
        ELSE LET l == Fulfilled[k - 1]
             IN IF k > Len(l) THEN l
                ELSE LET d == LastDash(l[k]) - 1
                     IN IF d <= 0 THEN l
                        ELSE add_search_list(l, llen, SubSeq(l[k], 1, d), d)
  IN IF immediate THEN Built[Len(items)] ELSE Fulfilled[llen]

-----------------------------------------------------------------------------
(* The parts of an item that end before a dash, the item first, the longest *)
(* next: the locales that it falls back to.                                *)
Fallbacks(item) ==
  LET it == Stripped(item)
      ends == {n \in 1..Len(it) : /\ it[n] # "-"
                                  /\ n = Len(it) \/ it[n + 1] = "-"}
  IN [k \in 1..Cardinality(ends) |->
        SubSeq(it, 1, CHOOSE n \in ends : Cardinality({m \in ends : m >= n}) = k)]

Once(list) == FoldLeft(LAMBDA l, it : IF Contains(l, it) THEN l ELSE Append(l, it), << >>, list)

(* The list searched is made of the locales of the definition with those   *)
(* each falls back to, in lower case: right after each when immediate, and *)
(* after all of them otherwise.  Repetitions, which the code may leave,    *)
(* change nothing to a search and are not counted; so is the limit.        *)
SearchListOrder(def, immediate) ==
  LET items == [i \in DOMAIN DefinitionItems(def) |-> Lower(Stripped(DefinitionItems(def)[i]))]
      full == SelectSeq(items, LAMBDA it : it # << >>)
      falls == FlattenSeq([i \in DOMAIN full |-> Fallbacks(full[i])])
  IN Once(make_search_list(100, def, immediate)) =
       Once(IF immediate THEN falls ELSE full \o falls)

(* A list never passes the size of its array, and is cut between items:    *)
(* each of its items is one of the unlimited list.                         *)
SearchListFits(llen, def, immediate) ==
  LET list == make_search_list(llen, def, immediate)
  IN /\ Offset(list) <= llen
     /\ ToSet(list) \subseteq ToSet(make_search_list(100, def, immediate))
=============================================================================
