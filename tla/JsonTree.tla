------------------------------ MODULE JsonTree ------------------------------
(***************************************************************************)
(* Reading JSON values: comparisons, configurations, paths.                *)
(***************************************************************************)
EXTENDS Json, TLC

(* The comparisons of src/json/rp-jsonc.c (jcmp and what is made of it),   *)
(* and the readers of configurations of src/json/rp-jconf.c.               *)

Sign(n) == IF n < 0 THEN -1 ELSE IF n > 0 THEN 1 ELSE 0

(* -1, 0 or 1 for the texts x and y.                                       *)
strcmp(x, y) ==
  LET differ == {i \in 1..Min({Len(x), Len(y)}) : x[i] # y[i]}
  IN IF differ = {} THEN Sign(Len(x) - Len(y)) ELSE Sign(x[Min(differ)] - y[Min(differ)])

(* The comparison given to json_object_array_sort gets the addresses of    *)
(* the items in the array, not the items: it orders where they are in      *)
(* memory, so any order may come out.                                      *)
rp_jsonc_sort(array) ==
  IF array.t # "array" THEN {array}
  ELSE {[array EXCEPT !.kids = [i \in DOMAIN array.kids |-> array.kids[p[i]]]] : p \in Permutations(DOMAIN array.kids)}

rp_jsonc_keys(object) ==
  IF object.t # "object" THEN {JNull}
  ELSE rp_jsonc_sort(JArray([i \in DOMAIN object.kids |-> JString(object.kids[i].k)]))

(* The first result that is not 0 of a sequence of sets of results.        *)
RECURSIVE FirstOf(_)
FirstOf(results) ==
  IF results = << >> THEN {0}
  ELSE (Head(results) \ {0}) \cup (IF 0 \in Head(results) THEN FirstOf(Tail(results)) ELSE {})

(* The signs that jcmp may return.  inc: test whether y is included in x;  *)
(* sort: objects that have other keys are compared by their keys.          *)
RECURSIVE jcmp(_, _, _, _)
jcmp(x, y, inc, sort) ==
  LET nx == Len(x.kids)
      ny == Len(y.kids)
      sizes == IF inc /\ nx > ny THEN 0 ELSE Sign(nx - ny)
      ByKeys == UNION {jcmp(kx, ky, FALSE, TRUE) : kx \in rp_jsonc_keys(x), ky \in rp_jsonc_keys(y)}
      Member(m) == LET i == IndexOf(x, m.k)
                   IN IF i # 0 THEN jcmp(x.kids[i].v, m.v, inc, sort) ELSE IF sort THEN ByKeys ELSE {1}
  IN IF x = y THEN {0}
     ELSE IF x.t # y.t THEN {Sign(TypeRank[x.t] - TypeRank[y.t])}
     ELSE IF x.t = "string" THEN {strcmp(x.s, y.s)}
     ELSE IF x.t \notin {"object", "array"} THEN {Sign(x.n - y.n)}
     ELSE IF sizes # 0 THEN {sizes}
     ELSE IF x.t = "object" THEN FirstOf([i \in 1..ny |-> Member(y.kids[i])])
     ELSE FirstOf([i \in 1..ny |-> jcmp(x.kids[i].v, y.kids[i].v, inc, sort)])

rp_jsonc_cmp(x, y) == jcmp(x, y, FALSE, TRUE)

rp_jsonc_equal(x, y) == 0 \in jcmp(x, y, FALSE, FALSE)

rp_jsonc_contains(x, y) == 0 \in jcmp(x, y, TRUE, FALSE)

-----------------------------------------------------------------------------
(* rp-jconf.c: ok and what is stored.                                      *)
jconf_get(conf, key) ==
  LET i == IF conf.t = "object" THEN IndexOf(conf, key) ELSE 0
  IN IF i = 0 THEN [found |-> FALSE, obj |-> JNull] ELSE [found |-> TRUE, obj |-> conf.kids[i].v]

rp_jconf_any(conf, key, required) ==
  LET g == jconf_get(conf, key) IN [ok |-> g.found \/ ~required, store |-> g.obj]

(* rp_jconf_int, rp_jconf_bool and rp_jconf_string: type is the one asked. *)
rp_jconf_typed(conf, key, required, type, defvalue) ==
  LET g == jconf_get(conf, key)
  IN IF g.found /\ g.obj.t = type THEN [ok |-> TRUE, store |-> g.obj]
     ELSE [ok |-> ~g.found /\ ~required, store |-> defvalue]

(* strcasecmp is 0.                                                        *)
SameLetters(x, y) ==
  LET Lower(s) == [i \in DOMAIN s |-> IF s[i] \in 65..90 THEN s[i] + 32 ELSE s[i]] IN Lower(x) = Lower(y)

(* Entries of an rp_enum_map_t: label and value; labels in any case.       *)
rp_enum_map_value(map, label) ==
  LET i == SelectInSeq(map, LAMBDA e : SameLetters(e.label, label))
  IN IF i = 0 THEN [ok |-> FALSE, value |-> 0] ELSE [ok |-> TRUE, value |-> map[i].value]

rp_enum_map_label(map, value) ==
  LET i == SelectInSeq(map, LAMBDA e : e.value = value)
  IN IF i = 0 THEN [ok |-> FALSE, label |-> << >>] ELSE [ok |-> TRUE, label |-> map[i].label]

rp_jconf_enum(conf, key, required, defvalue, keyvals) ==
  LET s == rp_jconf_typed(conf, key, required, "string", JString(<<0>>))
      given == s.store # JString(<<0>>)
      e == rp_enum_map_value(keyvals, s.store.s)
  IN [ok |-> s.ok /\ (given => e.ok), store |-> IF s.ok /\ given /\ e.ok THEN e.value ELSE defvalue]

-----------------------------------------------------------------------------
(* The value of a tree: objects are maps, whatever the order of insertion. *)
RECURSIVE ValueOf(_)
ValueOf(v) ==
  CASE v.t = "array" -> <<"array", [i \in DOMAIN v.kids |-> ValueOf(v.kids[i].v)]>>
    [] v.t = "object" -> <<"object", {<<m.k, ValueOf(m.v)>> : m \in ToSet(v.kids)}>>
    [] OTHER -> <<v.t, v.n, v.s>>

(* y is in x: as a prefix of arrays, as members of objects, at any depth.  *)
RECURSIVE Included(_, _)
Included(y, x) ==
  /\ x.t = y.t
  /\ CASE x.t = "array" -> Len(y.kids) <= Len(x.kids) /\ \A i \in DOMAIN y.kids : Included(y.kids[i].v, x.kids[i].v)
       [] x.t = "object" -> \A m \in ToSet(y.kids) : \E l \in ToSet(x.kids) : l.k = m.k /\ Included(m.v, l.v)
       [] OTHER -> ValueOf(x) = ValueOf(y)

(* Objects have their keys in alphabetic order.                            *)
RECURSIVE InKeyOrder(_)
InKeyOrder(v) ==
  /\ v.t = "object" => \A i \in 1..Len(v.kids) - 1 : strcmp(v.kids[i].k, v.kids[i + 1].k) < 0
  /\ \A i \in DOMAIN v.kids : InKeyOrder(v.kids[i].v)

(* Two objects met by a comparison of x and y have the same keys when they *)
(* have the same number of them.                                           *)
RECURSIVE SameKeys(_, _)
SameKeys(x, y) ==
  (x.t = y.t /\ Len(x.kids) = Len(y.kids)) =>
    /\ x.t = "object" => {m.k : m \in ToSet(x.kids)} = {m.k : m \in ToSet(y.kids)}
    /\ \A i \in DOMAIN x.kids : SameKeys(x.kids[i].v, y.kids[i].v)

(* rp_jsonc_equal tells exactly whether two trees have the same value,     *)
(* whatever the order of the members in each of them.                      *)
EqualIsSameValue(x, y) == rp_jsonc_equal(x, y) <=> ValueOf(x) = ValueOf(y)

(* rp_jsonc_contains tells exactly whether the second is included.         *)
ContainsIsInclusion(x, y) == rp_jsonc_contains(x, y) <=> Included(y, x)

(* On trees whose objects have their keys in order and, when as numerous,  *)
(* the same keys, rp_jsonc_cmp is a total order: the keys that are         *)
(* compared for other trees come from rp_jsonc_sort.                       *)
CmpOrders(x, y, z) ==
  (\A v \in {x, y, z} : InKeyOrder(v)) /\ SameKeys(x, y) /\ SameKeys(y, z) /\ SameKeys(x, z) =>
    \A r \in rp_jsonc_cmp(x, y) :
      /\ rp_jsonc_cmp(y, x) = {-r}
      /\ r = 0 <=> ValueOf(x) = ValueOf(y)
      /\ (r <= 0 /\ \A q \in rp_jsonc_cmp(y, z) : q <= 0) => \A q \in rp_jsonc_cmp(x, z) : q <= 0

(* A value of a configuration is the one of its key when it has the type,  *)
(* the default otherwise, and only a required key, or one with a value     *)
(* that does not fit, is an error.                                         *)
ConfIsRead(conf, key, required, keyvals) ==
  LET g == jconf_get(conf, key)
      e == rp_jconf_enum(conf, key, required, -1, keyvals)
      known == g.obj.t = "string" /\ \E i \in DOMAIN keyvals : SameLetters(keyvals[i].label, g.obj.s)
  IN /\ \A type \in {"int", "string"} :
          LET r == rp_jconf_typed(conf, key, required, type, JBool(0))
          IN r.ok <=> IF g.found THEN g.obj.t = type /\ r.store = g.obj ELSE ~required /\ r.store = JBool(0)
     /\ rp_jconf_any(conf, key, required).ok <=> (required => g.found)
     /\ e.ok <=> IF g.found THEN known ELSE ~required
     /\ e.store # -1 <=> g.found /\ known
     /\ g.found /\ known => rp_enum_map_label(keyvals, e.store).ok

-----------------------------------------------------------------------------
(* src/json/rp-jsonc-path.c: the path from a root to an object, which is   *)
(* found by its address, written in two passes.  A path is a sequence of   *)
(* items, the key of a member or the index of an array's item.             *)

NotFound == <<[key |-> << >>, index |-> -2]>>
PathKey(k) == [key |-> k, index |-> -1]
PathIndex(i) == [key |-> << >>, index |-> i]

(* The length of [index]: two more for each division by 100.               *)
RECURSIVE IndexLength(_)
IndexLength(v) == IF v >= 100 THEN 2 + IndexLength(v \div 100) ELSE 3 + (IF v > 9 THEN 1 ELSE 0)

RECURSIVE pathlen(_, _)
pathlen(path, got) ==
  IF path = << >> THEN got
  ELSE LET item == Last(path)
       IN pathlen(Front(path), got + IF item.index < 0 THEN 1 + Len(item.key) ELSE IndexLength(item.index))

RECURSIVE Digits(_)
Digits(v) == IF v < 10 THEN <<v>> ELSE Append(Digits(v \div 10), v % 10)

RECURSIVE pathset(_)
pathset(path) ==
  IF path = << >> THEN << >>
  ELSE LET item == Last(path)
       IN pathset(Front(path)) \o (IF item.index < 0 THEN <<".">> \o item.key ELSE <<"[">> \o Digits(item.index) \o <<"]">>)

(* Depth first, members in their order.                                    *)
RECURSIVE search(_, _, _, _)
RECURSIVE SearchKids(_, _, _, _, _)
SearchKids(h, root, jso, previous, i) ==
  LET m == h[root].kids[i]
      item == IF h[root].t = "object" THEN PathKey(m.k) ELSE PathIndex(i - 1)
      found == search(h, m.v, jso, Append(previous, item))
  IN IF i > Len(h[root].kids) THEN NotFound
     ELSE IF found # NotFound THEN found ELSE SearchKids(h, root, jso, previous, i + 1)
search(h, root, jso, previous) ==
  IF root = jso THEN previous
  ELSE IF IsContainer(h, root) THEN SearchKids(h, root, jso, previous, 1) ELSE NotFound

rp_jsonc_path(h, root, jso) == search(h, root, jso, << >>)

-----------------------------------------------------------------------------
(* What a path leads to.                                                   *)
RECURSIVE Follow(_, _, _)
Follow(h, a, path) ==
  IF path = << >> THEN a
  ELSE LET item == Head(path)
           i == IF item.index < 0 THEN IndexOf(h[a], item.key) ELSE item.index + 1
       IN Follow(h, h[a].kids[i].v, Tail(path))

(* The text of a path and its terminator fill exactly what was allocated.  *)
PathFits(path) == pathlen(path, 1) = Len(pathset(path)) + 1

(* A path is found for exactly what is in the root, and it leads there.    *)
PathLeadsTo(h, root, a) ==
  LET p == rp_jsonc_path(h, root, a)
  IN /\ p # NotFound <=> a \in Reach(h, root)
     /\ p # NotFound => Follow(h, root, p) = a
=============================================================================
