-------------------------------- MODULE U16Id -------------------------------
(***************************************************************************)
(* sandbox/u16id.c: a block of memory, and the two maps that are in one.   *)
(***************************************************************************)
EXTENDS Naturals, Sequences, FiniteSets, SequencesExt

(* sandbox/u16id.c: the block of memory behind the maps, an array of ids   *)
(* followed by an array of pointers, and the functions that work on it.    *)
(*                                                                         *)
(* Memory is counted in cells of the size of an id; a pointer takes        *)
(* PtrCells of them.  A block is the sequence of its cells, the one of     *)
(* address a being at a + 1, and NoBlock is the null pointer.  Growing and *)
(* shrinking move the pointers over memory that holds ids or other         *)
(* pointers, which is why cells and not arrays are modelled.               *)

CONSTANTS
  IdMod,     \* ids and indexes are integers modulo IdMod (65536 in the code)
  N,         \* the grain of allocation (4)
  PtrCells,  \* the size of a pointer (4 with pointers of 64 bits)
  Ids        \* the ids in use

ASSUME GrainAssumption ==
  /\ N \in {2, 4, 8, 16} /\ PtrCells \in 1 .. N /\ N % PtrCells = 0
  /\ IdMod \in Nat \ {0} /\ IdMod % N = 0
  /\ Ids \subseteq 0 .. IdMod - 1

NoBlock == <<>>

(* What a cell holds: an id, one of the parts of a pointer, or nothing     *)
(* that was ever written.                                                  *)
IdCell(n)     == <<"id", n>>
PtrCell(p, k) == <<"ptr", p, k>>
NoCell        == <<"none">>

(* The id and the pointer at an address; NoId and NoPtr stand for what is  *)
(* read where there is none.                                               *)
NoId  == IdMod
NoPtr == "garbage"

ReadId(m, a)  == IF m[a + 1][1] = "id" THEN m[a + 1][2] ELSE NoId
ReadPtr(m, a) ==
  IF m[a + 1][1] = "ptr" /\ \A k \in 1 .. PtrCells : m[a + k] = PtrCell(m[a + 1][2], k)
    THEN m[a + 1][2] ELSE NoPtr

WriteId(m, a, n)  == ReplaceAt(m, a + 1, IdCell(n))
WritePtr(m, a, p) ==
  SubSeq(m, 1, a) \o [k \in 1 .. PtrCells |-> PtrCell(p, k)]
                  \o SubSeq(m, a + PtrCells + 1, Len(m))

realloc(m, n) ==
  IF n <= Len(m) THEN SubSeq(m, 1, n) ELSE m \o [k \in 1 .. n - Len(m) |-> NoCell]

-----------------------------------------------------------------------------
get_capacity(upper) == (upper \div N) * N + N - 1

size(capacity) == capacity + 1 + PtrCells * capacity

(* The address of the pointer of index i (from 1) in a block of the given  *)
(* upper index: struct flat_t, flatof and flatofup.                        *)
PtrAddr(upper, i) == get_capacity(upper) + 1 + PtrCells * i - PtrCells

upper(m)   == IF m = NoBlock THEN 0 ELSE ReadId(m, 0)
id_at(m, i)  == ReadId(m, i)
ptr_at(m, i) == ReadPtr(m, PtrAddr(upper(m), i))

(* The index of the id, 0 if there is none.                                *)
search(m, id) ==
  LET I == {i \in 1 .. upper(m) : id_at(m, i) = id}
  IN  IF I = {} THEN 0 ELSE CHOOSE i \in I : \A j \in I : i <= j

(* The pointers 1 .. n moved one by one, in the order of the sequence      *)
(* order, from the layout of the upper index old to that of new.           *)
MovePtrs(m, order, old, new) ==
  LET Moved[k \in 0 .. Len(order)] ==
        IF k = 0 THEN m
        ELSE LET b == Moved[k - 1] IN
             WritePtr(b, PtrAddr(new, order[k]), ReadPtr(b, PtrAddr(old, order[k])))
  IN  Moved[Len(order)]

Upwards(n)   == [i \in 1 .. n |-> i]
Downwards(n) == [i \in 1 .. n |-> n + 1 - i]

(* Variant: the pointers are moved starting with the first one.            *)
GrownUpwards(m, old, new) ==
  MovePtrs(realloc(m, size(get_capacity(new))), Upwards(old), old, new)

(* The block grown for one more element.                                   *)
Grown(m, old, new) ==
  MovePtrs(realloc(m, size(get_capacity(new))), Downwards(old), old, new)

MustGrow(m) ==
  (upper(m) + 1) % IdMod > (IF m = NoBlock THEN 0 ELSE get_capacity(upper(m)))

(* The block with the id and the pointer added, when memory allows it; the *)
(* layout is that of the new upper index only if the block has grown.      *)
add(m, id, p) ==
  LET o == upper(m)
      n == (o + 1) % IdMod
      g == IF MustGrow(m) THEN Grown(m, o, n) ELSE m
      a == IF MustGrow(m) THEN PtrAddr(n, n) ELSE PtrAddr(o, n)
  IN  WritePtr(WriteId(WriteId(g, 0, n), n, id), a, p)

(* The block without its element of index i.                               *)
drop(m, i) ==
  LET u == upper(m)
      b == IF i = u THEN m
           ELSE WritePtr(WriteId(m, i, id_at(m, u)), PtrAddr(u, i), ptr_at(m, u))
      c == WriteId(b, 0, u - 1)
  IN  IF get_capacity(u - 1) = get_capacity(u) THEN c
      ELSE MovePtrs(c, Upwards(u - 1), u, u - 1)

dropall(m) == IF m = NoBlock THEN m ELSE WriteId(m, 0, 0)

create == WriteId(realloc(NoBlock, size(get_capacity(0))), 0, 0)

(* Whether every cell an operation has to touch is inside the block.       *)
InBlock(m) == m = NoBlock \/ size(get_capacity(upper(m))) <= Len(m)

-----------------------------------------------------------------------------
(* sandbox/u16id.c: the maps u16id2ptr from ids to pointers.               *)

CONSTANTS
  Ptrs,      \* the pointers in use
  Pairs      \* the ids and pointers that clients give together

ASSUME PairsAssumption == Pairs \subseteq Ids \X Ptrs

VARIABLES
  i2p,   \* the block
  res    \* what the last operation returned, or gave back

i2pVars == <<i2p, res>>

Init == i2p = NoBlock /\ res = "none"

Result(m, r) == i2p' = m /\ res' = r

u16id2ptr_create ==
  /\ i2p = NoBlock
  /\ Result(create, "ok") \/ Result(NoBlock, "ENOMEM")

u16id2ptr_destroy == Result(NoBlock, "ok")

u16id2ptr_dropall == Result(dropall(i2p), "ok")

(* realloc may fail when the block has to grow.                            *)
TryAdd(id, p) == Result(add(i2p, id, p), "ok") \/ (MustGrow(i2p) /\ Result(i2p, "ENOMEM"))

SetAt(i, p) == Result(WritePtr(i2p, PtrAddr(upper(i2p), i), p), "ok")

u16id2ptr_add(id, p) ==
  \/ search(i2p, id) # 0 /\ Result(i2p, "EEXIST")
  \/ search(i2p, id) = 0 /\ TryAdd(id, p)

u16id2ptr_set(id, p) ==
  \/ search(i2p, id) # 0 /\ SetAt(search(i2p, id), p)
  \/ search(i2p, id) = 0 /\ TryAdd(id, p)

u16id2ptr_put(id, p) ==
  \/ search(i2p, id) = 0 /\ Result(i2p, "ENOENT")
  \/ search(i2p, id) # 0 /\ SetAt(search(i2p, id), p)

u16id2ptr_get(id) ==
  \/ search(i2p, id) = 0 /\ Result(i2p, "ENOENT")
  \/ search(i2p, id) # 0 /\ Result(i2p, ptr_at(i2p, search(i2p, id)))

u16id2ptr_drop(id) ==
  \/ search(i2p, id) = 0 /\ Result(i2p, "ENOENT")
  \/ /\ search(i2p, id) # 0
     /\ Result(drop(i2p, search(i2p, id)), ptr_at(i2p, search(i2p, id)))

Next ==
  \/ u16id2ptr_create \/ u16id2ptr_destroy \/ u16id2ptr_dropall
  \/ \E q \in Pairs :
       \/ u16id2ptr_add(q[1], q[2]) \/ u16id2ptr_set(q[1], q[2]) \/ u16id2ptr_put(q[1], q[2])
  \/ \E id \in Ids : u16id2ptr_get(id) \/ u16id2ptr_drop(id)

Spec == Init /\ [][Next]_i2pVars

-----------------------------------------------------------------------------
(* The block holds what its upper index says, and no id twice.             *)
BlockOK ==
  /\ InBlock(i2p)
  /\ \A i \in 1 .. upper(i2p) : id_at(i2p, i) \in Ids /\ ptr_at(i2p, i) \in Ptrs
  /\ \A i, j \in 1 .. upper(i2p) : id_at(i2p, i) = id_at(i2p, j) => i = j

(* The map the block stands for.                                           *)
Map == {<<id_at(i2p, i), ptr_at(i2p, i)>> : i \in 1 .. upper(i2p)}

AM == INSTANCE IdMap WITH map <- Map

(* u16id2ptr implements the abstract map.                                  *)
ImplementsIdMap == AM!Spec

-----------------------------------------------------------------------------
(* sandbox/u16id.c: the maps u16id2bool from ids to booleans.  A pointer   *)
(* of the block is a field of P booleans, here the set of the bits that    *)
(* are one, and its id is the first of the P ids it stands for.            *)

CONSTANT
  P          \* the count of bits of pointers (64)

ASSUME BitsAssumption == P \in Nat \ {0} /\ IdMod % P = 0

VARIABLES
  i2b,   \* the block
  resb   \* what the last operation returned

i2bVars == <<i2b, resb>>

InitBool == i2b = NoBlock /\ resb = "none"

ResultBool(m, r) == i2b' = m /\ resb' = r

u16id2bool_create ==
  /\ i2b = NoBlock
  /\ ResultBool(create, "ok") \/ ResultBool(NoBlock, "ENOMEM")

u16id2bool_destroy == ResultBool(NoBlock, "ok")

u16id2bool_clearall == ResultBool(dropall(i2b), "ok")

AsInt(b) == IF b THEN "1" ELSE "0"

idm(id)  == id - (id % P)
bit(id)  == id % P
index(id) == search(i2b, idm(id))
ofield(id) == IF index(id) = 0 THEN {} ELSE ptr_at(i2b, index(id))

u16id2bool_get(id) == ResultBool(i2b, AsInt(bit(id) \in ofield(id)))

(* The block with the field of the id changed, when memory allows it.      *)
Store(id, field) ==
  \/ field = ofield(id) /\ i2b' = i2b
  \/ field # ofield(id) /\ index(id) = 0 /\ i2b' = add(i2b, idm(id), field)
  \/ /\ field # ofield(id) /\ index(id) # 0
     /\ i2b' = IF field = {} THEN drop(i2b, index(id))
               ELSE WritePtr(i2b, PtrAddr(upper(i2b), index(id)), field)

u16id2bool_set(id, value) ==
  LET field == IF value THEN ofield(id) \cup {bit(id)} ELSE ofield(id) \ {bit(id)} IN
  \/ Store(id, field) /\ resb' = AsInt(bit(id) \in ofield(id))
  \/ /\ field # ofield(id) /\ index(id) = 0 /\ MustGrow(i2b)
     /\ ResultBool(i2b, "ENOMEM")

NextBool ==
  \/ u16id2bool_create \/ u16id2bool_destroy \/ u16id2bool_clearall
  \/ \E id \in Ids :
       \/ u16id2bool_get(id)
       \/ \E value \in BOOLEAN : u16id2bool_set(id, value)

SpecBool == InitBool /\ [][NextBool]_i2bVars

-----------------------------------------------------------------------------
(* The fields of the block are never empty, are within the block and       *)
(* follow each other without a repeated id: a boolean back to zero in      *)
(* u16id2bool_set gives its place back.                                    *)
FieldsOK ==
  /\ InBlock(i2b)
  /\ \A i \in 1 .. upper(i2b) :
       /\ id_at(i2b, i) = idm(id_at(i2b, i))
       /\ ptr_at(i2b, i) \in (SUBSET (0 .. P - 1)) \ {{}}
       /\ \A j \in 1 .. upper(i2b) : id_at(i2b, i) = id_at(i2b, j) => i = j

(* The ids whose boolean is one.                                           *)
TrueIds == UNION {{id_at(i2b, i) + b : b \in ptr_at(i2b, i)} : i \in 1 .. upper(i2b)}

AS == INSTANCE IdSet WITH true <- TrueIds, res <- resb

(* u16id2bool_set and the other functions do to the booleans what          *)
(* u16id.h says of them, whatever the moves of the fields in the block.    *)
ImplementsIdSet == AS!Spec

(* The functions of u16id.h on pointers and on booleans do to a map and to a *)
(* set what they should, whatever is moved in the block, which holds what its *)
(* upper index says and no id twice.                                       *)
MapsAreImplemented ==
  /\ ImplementsIdMap /\ ImplementsIdSet
  /\ [](BlockOK /\ FieldsOK)
=============================================================================
