-------------------------------- MODULE Json --------------------------------
(***************************************************************************)
(* Values of json-c as src/json/rp-jsonc.c sees them, when it only reads   *)
(* them or builds new ones: trees of uniform records.  t is the type, n    *)
(* the value of a number or of a boolean, s a text (a sequence of          *)
(* characters), kids the items of an array or the members of an object in  *)
(* the order of their insertion, k being the key.  NULL is the null value. *)
(*                                                                         *)
(* Then the objects of json-c in memory, with their counts of references,  *)
(* and the functions that make, share or change them: clones, merges of    *)
(* objects, insertions in arrays, additions.  A heap h is a function from  *)
(* addresses to nodes; a node is a value whose members are addresses, and  *)
(* refs.  Functions that return a reference give [h, a].                   *)
(***************************************************************************)
EXTENDS Integers, Sequences, SequencesExt, FiniteSets, FiniteSetsExt

Leaf(t, n, s) == [t |-> t, n |-> n, s |-> s, kids |-> << >>]
JNull == Leaf("null", 0, << >>)
JBool(b) == Leaf("boolean", b, << >>)
JInt(n) == Leaf("int", n, << >>)
JDouble(n) == Leaf("double", n, << >>)     \* in halves: JDouble(3) is 1.5
JString(s) == Leaf("string", 0, s)
JArray(items) == [t |-> "array", n |-> 0, s |-> << >>,
                  kids |-> [i \in DOMAIN items |-> [k |-> << >>, v |-> items[i]]]]
JObject(members) == [t |-> "object", n |-> 0, s |-> << >>, kids |-> members]

(* The order of enum json_type.                                            *)
TypeRank == [null |-> 0, boolean |-> 1, double |-> 2, int |-> 3, object |-> 4, array |-> 5, string |-> 6]

(* The place of the member of a key, 0 for none.                           *)
IndexOf(object, key) == SelectInSeq(object.kids, LAMBDA m : m.k = key)

(* An existing member is replaced where it is.                             *)
json_object_object_add(object, key, value) ==
  LET i == IndexOf(object, key)
  IN IF i = 0 THEN [object EXCEPT !.kids = Append(@, [k |-> key, v |-> value])]
              ELSE [object EXCEPT !.kids[i].v = value]

json_object_array_add(array, value) ==
  [array EXCEPT !.kids = Append(@, [k |-> << >>, v |-> value])]

-----------------------------------------------------------------------------
(* Objects in memory.                                                      *)
NULL == 0

TypeOf(h, a) == IF a = NULL THEN "null" ELSE h[a].t
IsContainer(h, a) == TypeOf(h, a) \in {"object", "array"}

json_object_get(h, a) == IF a = NULL THEN h ELSE [h EXCEPT ![a].refs = @ + 1]

(* The last reference frees the object and puts its members.               *)
RECURSIVE json_object_put(_, _)
RECURSIVE PutAll(_, _)
json_object_put(h, a) ==
  CASE a = NULL -> h
    [] a # NULL /\ h[a].refs > 1 -> [h EXCEPT ![a].refs = @ - 1]
    [] OTHER -> PutAll([b \in DOMAIN h \ {a} |-> h[b]], h[a].kids)
PutAll(h, kids) == IF kids = << >> THEN h ELSE PutAll(json_object_put(h, Head(kids).v), Tail(kids))

(* A new object, leaf or empty container, like the value v.                *)
New(h, v) ==
  LET a == Min((1..Cardinality(DOMAIN h) + 1) \ DOMAIN h)
      node == [t |-> v.t, n |-> v.n, s |-> v.s, kids |-> << >>, refs |-> 1]
  IN [h |-> h @@ (a :> node), a |-> a]

(* A parsed value: all its objects are new.                                *)
RECURSIVE Alloc(_, _)
RECURSIVE AllocKids(_, _, _, _)
AllocKids(h, a, kids, i) ==
  IF i > Len(kids) THEN [h |-> h, a |-> a]
  ELSE LET c == Alloc(h, kids[i].v)
       IN AllocKids([c.h EXCEPT ![a].kids = Append(@, [k |-> kids[i].k, v |-> c.a])], a, kids, i + 1)
Alloc(h, v) ==
  IF v = JNull THEN [h |-> h, a |-> NULL]
  ELSE LET r == New(h, v) IN AllocKids(r.h, r.a, v.kids, 1)

(* The reference of the value is taken, the one of the replaced value put. *)
object_add(h, object, key, value) ==
  LET i == IndexOf(h[object], key)
  IN IF i = 0 THEN [h EXCEPT ![object].kids = Append(@, [k |-> key, v |-> value])]
     ELSE json_object_put([h EXCEPT ![object].kids[i].v = value], h[object].kids[i].v)

object_del(h, object, key) ==
  LET i == IndexOf(h[object], key)
  IN json_object_put([h EXCEPT ![object].kids = RemoveAt(@, i)], h[object].kids[i].v)

(* Items are numbered from 0; the array is extended by nulls.              *)
array_put_idx(h, array, idx, value) ==
  LET old == h[array].kids
      Item(v) == [k |-> << >>, v |-> v]
  IN IF idx < Len(old) THEN json_object_put([h EXCEPT ![array].kids[idx + 1] = Item(value)], old[idx + 1].v)
     ELSE [h EXCEPT ![array].kids = @ \o [i \in 1..idx - Len(old) |-> Item(NULL)] \o <<Item(value)>>]

(* The value at an address, the addresses and the counts forgotten.        *)
RECURSIVE Tree(_, _)
Tree(h, a) ==
  IF a = NULL THEN JNull
  ELSE [t |-> h[a].t, n |-> h[a].n, s |-> h[a].s,
        kids |-> [i \in DOMAIN h[a].kids |-> [k |-> h[a].kids[i].k, v |-> Tree(h, h[a].kids[i].v)]]]

RECURSIVE Reach(_, _)
Reach(h, a) ==
  IF a = NULL THEN {} ELSE {a} \cup UNION {Reach(h, h[a].kids[i].v) : i \in DOMAIN h[a].kids}

(* The references to a that are in objects.                                *)
Members(h, a) == SumFunction([b \in DOMAIN h |-> Cardinality({i \in DOMAIN h[b].kids : h[b].kids[i].v = a})])

Containers(h, a) == {b \in Reach(h, a) : IsContainer(h, b)}

-----------------------------------------------------------------------------
(* rp_jsonc_clone_depth with clone_object, which goes forwards, and        *)
(* clone_array, which goes backwards.                                      *)
RECURSIVE rp_jsonc_clone_depth(_, _, _)
RECURSIVE CloneMembers(_, _, _, _, _)
CloneMembers(h, item, r, i, depth) ==
  LET n == Len(h[item].kids)
      object == h[item].t = "object"
      at == IF object THEN i ELSE n + 1 - i
      m == h[item].kids[at]
      c == rp_jsonc_clone_depth(h, m.v, depth)
      added == IF object THEN object_add(c.h, r, m.k, c.a) ELSE array_put_idx(c.h, r, at - 1, c.a)
  IN IF i > n THEN [h |-> h, a |-> r] ELSE CloneMembers(added, item, r, i + 1, depth)

rp_jsonc_clone_depth(h, item, depth) ==
  IF depth # 0 /\ IsContainer(h, item)
  THEN LET r == New(h, h[item]) IN CloneMembers(r.h, item, r.a, 1, depth - 1)
  ELSE [h |-> json_object_get(h, item), a |-> item]

INT_MAX == 1000   \* deeper than any value
rp_jsonc_clone(h, object) == rp_jsonc_clone_depth(h, object, 1)

rp_jsonc_clone_deep(h, object) == rp_jsonc_clone_depth(h, object, INT_MAX)

-----------------------------------------------------------------------------
(* Variant: only the end of the array counts negative indexes from.        *)
PlaceLast(idx, nd) == IF idx < 0 THEN nd ELSE Min({idx, nd})

(* Negative indexes count from the end, -1 being after the last item.      *)
PlaceIn(idx, nd) == LET i == IF idx < 0 THEN 1 + nd + idx ELSE idx IN Max({0, Min({i, nd})})

CopyItem(h, dest, to, source, from) ==
  LET v == h[source].kids[from + 1].v IN array_put_idx(json_object_get(h, v), dest, to, v)

(* i is the index after the next one to be set: first the items after the  *)
(* insertion point are moved, then the added ones are copied.              *)
RECURSIVE InsertFrom(_, _, _, _, _, _)
InsertFrom(h, dest, added, i, idx, na) ==
  CASE i > idx + na -> InsertFrom(CopyItem(h, dest, i - 1, dest, i - 1 - na), dest, added, i - 1, idx, na)
    [] i <= idx + na /\ i > idx -> InsertFrom(CopyItem(h, dest, i - 1, added, i - 1 - idx), dest, added, i - 1, idx, na)
    [] OTHER -> h

rp_jsonc_array_insert_array(h, dest, added, idx) ==
  IF TypeOf(h, dest) # "array" \/ TypeOf(h, added) # "array" THEN h
  ELSE LET nd == Len(h[dest].kids)
           na == Len(h[added].kids)
       IN InsertFrom(h, dest, added, nd + na, PlaceIn(idx, nd), na)

-----------------------------------------------------------------------------
(* Variant: the item is shared without a reference of its own.             *)
MergeItemTaken(h, dest, key, from) == object_add(h, dest, key, from)

MergeItem(h, dest, key, from) == object_add(json_object_get(h, from), dest, key, from)

(* object_merge from the i-th member of merged on.  option is a set: join, *)
(* replace.                                                                *)
RECURSIVE object_merge(_, _, _, _, _)
object_merge(h, dest, merged, option, i) ==
  LET m == h[merged].kids[i]
      at == IndexOf(h[dest], m.k)
      to == h[dest].kids[at].v
      both == IF TypeOf(h, to) = TypeOf(h, m.v) THEN TypeOf(h, to) ELSE "different"
      done == CASE option = {"replace"} \/ at = 0 -> MergeItem(h, dest, m.k, m.v)
                [] option # {"replace"} /\ at # 0 /\ option = {} -> h
                [] OTHER ->
                     CASE both = "object" -> object_merge(h, to, m.v, option, 1)
                       [] both = "array" -> rp_jsonc_array_insert_array(h, to, m.v, -1)
                       [] OTHER -> IF "replace" \in option THEN MergeItem(h, dest, m.k, m.v) ELSE h
  IN IF i > Len(h[merged].kids) THEN h ELSE object_merge(done, dest, merged, option, i + 1)

rp_jsonc_object_merge(h, dest, merged, option) ==
  IF TypeOf(h, dest) = "object" /\ TypeOf(h, merged) = "object" THEN object_merge(h, dest, merged, option, 1) ELSE h

rp_jsonc_object_add(h, dest, added) == rp_jsonc_object_merge(h, dest, added, {"replace"})

(* The object of a key, made when there is nothing at the key; ok tells    *)
(* whether what is there is an object.                                     *)
rp_jsonc_subobject(h, object, key) ==
  LET i == IndexOf(h[object], key)
      new == New(h, JObject(<< >>))
  IN IF i # 0 THEN [h |-> h, a |-> h[object].kids[i].v, ok |-> TypeOf(h, h[object].kids[i].v) = "object"]
     ELSE [h |-> object_add(new.h, object, key, new.a), a |-> new.a, ok |-> TRUE]

rp_jsonc_add(h, object, key, value) == IF value = NULL THEN h ELSE object_add(h, object, key, value)

rp_jsonc_add_string(h, object, key, string) ==
  LET s == New(h, JString(string)) IN rp_jsonc_add(s.h, object, key, s.a)

-----------------------------------------------------------------------------
(* References: merge and insertion of values.                              *)
RECURSIVE Merged(_, _, _)
Merged(d, m, option) ==
  LET Of(v, k) == v.kids[IndexOf(v, k)].v
      Both(x, y) ==
        CASE option = {"replace"} -> y
          [] option = {} -> x
          [] x.t = "object" /\ y.t = "object" /\ "join" \in option -> Merged(x, y, option)
          [] x.t = "array" /\ y.t = "array" /\ "join" \in option -> [x EXCEPT !.kids = @ \o y.kids]
          [] OTHER -> IF "replace" \in option THEN y ELSE x
      kept == [i \in DOMAIN d.kids |->
                 LET k == d.kids[i].k
                 IN [k |-> k, v |-> IF IndexOf(m, k) = 0 THEN d.kids[i].v ELSE Both(d.kids[i].v, Of(m, k))]]
  IN [d EXCEPT !.kids = kept \o SelectSeq(m.kids, LAMBDA e : IndexOf(d, e.k) = 0)]

Inserted(d, a, idx) ==
  LET n == Len(d.kids)
      at == IF idx >= n \/ idx = -1 THEN n ELSE IF idx < -n THEN 0 ELSE IF idx < 0 THEN n + 1 + idx ELSE idx
  IN [d EXCEPT !.kids = SubSeq(d.kids, 1, at) \o a.kids \o SubSeq(d.kids, at + 1, n)]
=============================================================================
