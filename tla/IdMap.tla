-------------------------------- MODULE IdMap --------------------------------
(***************************************************************************)
(* What u16id2ptr promises: a finite map from ids to pointers, operations  *)
(* that tell whether the id was there, and that may fail for want of       *)
(* memory only when they add one.                                          *)
(***************************************************************************)
CONSTANTS
  Ids,    \* the ids
  Pairs   \* the pairs of an id and a pointer that clients give

VARIABLES
  map,  \* the map, a set of pairs
  res   \* the result of the last operation

Init == map = {} /\ res = "none"

Has(id)     == \E q \in map : q[1] = id
Of(id)      == CHOOSE q \in map : q[1] = id
Without(id) == {q \in map : q[1] # id}
With(pair)  == Without(pair[1]) \cup {pair}

Succeed(m) == res' = "ok" /\ map' = m
Fail(e)    == res' = e /\ UNCHANGED map

Add(pair) ==
  \/ Has(pair[1]) /\ Fail("EEXIST")
  \/ ~ Has(pair[1]) /\ (Succeed(With(pair)) \/ Fail("ENOMEM"))

Set(pair) == Succeed(With(pair)) \/ (~ Has(pair[1]) /\ Fail("ENOMEM"))

Put(pair) ==
  \/ Has(pair[1]) /\ Succeed(With(pair))
  \/ ~ Has(pair[1]) /\ Fail("ENOENT")

(* The pointer of the dropped id is given back.                            *)
Drop(id) ==
  \/ Has(id) /\ res' = Of(id)[2] /\ map' = Without(id)
  \/ ~ Has(id) /\ Fail("ENOENT")

Get(id) ==
  \/ Has(id) /\ Fail(Of(id)[2])
  \/ ~ Has(id) /\ Fail("ENOENT")

DropAll == Succeed({})

Create == map = {} /\ (Succeed({}) \/ Fail("ENOMEM"))

Next ==
  \/ DropAll \/ Create
  \/ \E id \in Ids : Get(id) \/ Drop(id)
  \/ \E pair \in Pairs : Put(pair) \/ Add(pair) \/ Set(pair)

Spec == Init /\ [][Next]_<<map, res>>
=============================================================================
