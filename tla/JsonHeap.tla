------------------------------ MODULE JsonHeap ------------------------------
(***************************************************************************)
(* A client of json-c and of the functions of module Json: it holds        *)
(* references to values, clones, merges, inserts and releases them, shared *)
(* as they are.  A client never makes a cycle, which reference counting    *)
(* cannot free.                                                            *)
(***************************************************************************)
EXTENDS Json

CONSTANTS JsonValues,   \* what the client parses
          JsonKeys,
          MaxItems,     \* bound: items of an array
          MaxNodes,     \* bound: objects alive before an operation
          MaxSteps      \* bound: operations

VARIABLES heap,   \* the objects
          held,   \* held[a]: references of the client
          done,   \* the last operation, with the values of its operands before
          steps

heapVars == <<heap, held, done, steps>>

NoOp == [op |-> "none", a |-> NULL, b |-> NULL, with |-> 0, x |-> JNull, y |-> JNull, result |-> NULL,
         alone |-> FALSE, known |-> {}]

(* The client has parsed two values.                                       *)
HeapInit ==
  /\ \E v, w \in JsonValues :
       LET first == Alloc(<< >>, v)
           second == Alloc(first.h, w)
       IN /\ heap = second.h
          /\ held = [a \in DOMAIN second.h |-> IF a \in {first.a, second.a} THEN 1 ELSE 0]
  /\ done = NoOp /\ steps = 0

(* No container of a is met twice.                                         *)
Unshared(h, a) ==
  \A b \in Containers(h, a) :
    b # a => Cardinality(UNION {{<<x, i>> : i \in {j \in DOMAIN h[x].kids : h[x].kids[j].v = b}} : x \in Reach(h, a)}) = 1

Operation(op, a, b, with, result) ==
  [op |-> op, a |-> a, b |-> b, with |-> with, x |-> Tree(heap, a), y |-> Tree(heap, b), result |-> result,
   alone |-> Unshared(heap, a) /\ Unshared(heap, b), known |-> Reach(heap, a)]

(* The client's references after an operation that adds delta to the ones  *)
(* of each address.                                                        *)
Holding(h, delta) == [a \in DOMAIN h |-> (IF a \in DOMAIN held THEN held[a] ELSE 0) + delta[a]]
Only(a, n) == [b \in Nat |-> IF b = a THEN n ELSE 0]

Does(h, delta, what) ==
  /\ heap' = h /\ held' = Holding(h, delta) /\ done' = what /\ steps' = steps + 1

Take(a) == held[a] = 0 /\ Does(json_object_get(heap, a), Only(a, 1), [NoOp EXCEPT !.op = "take"])

Release(a) == held[a] > 0 /\ Does(json_object_put(heap, a), Only(a, -1), [NoOp EXCEPT !.op = "put"])

Clone(a, depth) ==
  /\ LET r == CASE depth = 1 -> rp_jsonc_clone(heap, a)
                [] depth = INT_MAX -> rp_jsonc_clone_deep(heap, a)
                [] OTHER -> rp_jsonc_clone_depth(heap, a, depth)
     IN Does(r.h, Only(r.a, 1), Operation("clone", a, NULL, depth, r.a))

(* Nothing of dest is in merged, otherwise a cycle could be made.          *)
Merge(dest, merged, option) ==
  /\ IsContainer(heap, dest) /\ IsContainer(heap, merged)
  /\ Containers(heap, dest) \cap Containers(heap, merged) = {}
  /\ Does(IF option = {"replace"} THEN rp_jsonc_object_add(heap, dest, merged)
                                  ELSE rp_jsonc_object_merge(heap, dest, merged, option),
          Only(NULL, 0), Operation("merge", dest, merged, option, dest))

Insert(dest, added, idx) ==
  /\ TypeOf(heap, dest) = "array" /\ IsContainer(heap, added)
  /\ dest = added \/ dest \notin Reach(heap, added)
  /\ Len(heap[dest].kids) + Len(heap[added].kids) <= MaxItems
  /\ Does(rp_jsonc_array_insert_array(heap, dest, added, idx), Only(NULL, 0), Operation("insert", dest, added, idx, dest))

(* The reference of the client goes to the object.                         *)
Add(object, key, value) ==
  /\ heap[object].t = "object"
  /\ held[value] > 0 /\ object \notin Reach(heap, value)
  /\ Does(rp_jsonc_add(heap, object, key, value), Only(value, -1), [NoOp EXCEPT !.op = "add"])

AddString(object, key) ==
  /\ heap[object].t = "object"
  /\ Does(rp_jsonc_add_string(heap, object, key, <<97>>), Only(NULL, 0), [NoOp EXCEPT !.op = "add"])

Subobject(object, key) ==
  /\ heap[object].t = "object"
  /\ LET r == rp_jsonc_subobject(heap, object, key)
     IN Does(r.h, Only(NULL, 0), [Operation("subobject", object, NULL, key, r.a) EXCEPT !.alone = r.ok])

(* Every living object is reachable from what the client holds.            *)
HeapNext ==
  /\ steps < MaxSteps /\ Cardinality(DOMAIN heap) <= MaxNodes
  /\ \E a \in DOMAIN heap :
       \/ Take(a) \/ Release(a)
       \/ \E depth \in {0, 1, 2, INT_MAX} : Clone(a, depth)
       \/ \E b \in DOMAIN heap, option \in SUBSET {"join", "replace"} : Merge(a, b, option)
       \/ \E b \in DOMAIN heap, idx \in {-5, -2, -1, 1} : Insert(a, b, idx)
       \/ \E key \in JsonKeys : \/ AddString(a, key) \/ Subobject(a, key)
                                \/ \E b \in DOMAIN heap : Add(a, key, b)

HeapSpec == HeapInit /\ [][HeapNext]_heapVars

-----------------------------------------------------------------------------
(* Every reference is owned: by the client or by one member of a living    *)
(* object.  So nothing is freed while it is used and everything is freed   *)
(* when the client has released what it holds, whatever was shared by the  *)
(* clones, merges and insertions.                                          *)
RefsAreOwned ==
  \A a \in DOMAIN heap : heap[a].refs = held[a] + Members(heap, a)

(* A clone has the value of its source, its containers are new down to the *)
(* asked depth and the source's own below: changing a deep clone changes   *)
(* nothing else.                                                           *)
CloneIsApart ==
  done.op = "clone" =>
    LET RECURSIVE Apart(_, _, _)
        Apart(c, s, depth) ==
          IF depth = 0 \/ ~IsContainer(heap, s) THEN c = s
          ELSE /\ c \notin done.known
               /\ \A i \in DOMAIN heap[c].kids : Apart(heap[c].kids[i].v, heap[s].kids[i].v, depth - 1)
    IN Tree(heap, done.result) = done.x /\ Apart(done.result, done.a, done.with)

(* A merge gives the documented value and leaves the merged object as it   *)
(* was, when no container is met twice in dest or in merged.               *)
MergeIsExact ==
  done.op = "merge" /\ done.alone =>
    /\ Tree(heap, done.a) = IF done.x.t = "object" /\ done.y.t = "object" THEN Merged(done.x, done.y, done.with) ELSE done.x
    /\ Tree(heap, done.b) = done.y

(* An insertion puts the items of the added array, which may be the array  *)
(* itself, at the place asked for.                                         *)
InsertIsExact ==
  done.op = "insert" =>
    Tree(heap, done.a) = IF done.x.t = "array" /\ done.y.t = "array" THEN Inserted(done.x, done.y, done.with) ELSE done.x

(* rp_jsonc_subobject gives what is in the object at the key, an existing  *)
(* value being kept, and says whether it is an object.                     *)
SubobjectIsThere ==
  done.op = "subobject" =>
    LET i == IndexOf(heap[done.a], done.with)
        before == IndexOf(done.x, done.with)
    IN /\ heap[done.a].kids[i].v = done.result
       /\ Tree(heap, done.result) = IF before = 0 THEN JObject(<< >>) ELSE done.x.kids[before].v
       /\ done.alone <=> TypeOf(heap, done.result) = "object"

(* The functions of rp-jsonc.c that make or change containers give the     *)
(* documented value and change nothing else, in a heap where values are    *)
(* shared, met twice or inserted in themselves.                            *)
OperationsAreExact == CloneIsApart /\ MergeIsExact /\ InsertIsExact /\ SubobjectIsThere
=============================================================================
