-------------------------------- MODULE IdSet --------------------------------
(***************************************************************************)
(* What u16id2bool promises in sandbox/u16id.h: a boolean for every id,    *)
(* zero until it is set, whose previous value is returned when it is set.  *)
(***************************************************************************)
CONSTANT Ids

VARIABLES
  true,  \* the ids whose boolean is not zero
  res    \* the result of the last operation

Init == true = {} /\ res = "none"

Value(id) == IF id \in true THEN "1" ELSE "0"

Get(id) == res' = Value(id) /\ UNCHANGED true

(* Memory may lack only when the boolean turns to one.                     *)
Set(id, value) ==
  \/ /\ res' = Value(id)
     /\ true' = IF value THEN true \cup {id} ELSE true \ {id}
  \/ /\ value /\ id \notin true
     /\ res' = "ENOMEM" /\ UNCHANGED true

ClearAll == res' = "ok" /\ true' = {}

Create == true = {} /\ res' \in {"ok", "ENOMEM"} /\ UNCHANGED true

Next ==
  \/ ClearAll \/ Create
  \/ \E id \in Ids : Get(id) \/ \E value \in BOOLEAN : Set(id, value)

Spec == Init /\ [][Next]_<<true, res>>
=============================================================================
