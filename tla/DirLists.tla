------------------------------ MODULE DirLists ------------------------------
(***************************************************************************)
(* What src/misc/rp-path-search.h promises of the lists of paths: each     *)
(* client holds a sequence of directories of its own, which nobody else    *)
(* changes.  << >> is both the empty list and NULL.                        *)
(***************************************************************************)
EXTENDS Integers, Sequences, FiniteSets, SequencesExt

CONSTANTS Slots, Dirs, DirSeqs

VARIABLE lists   \* sequence of directories held by each client

(* part is made of items of dirs, in their order.                          *)
TakenFrom(part, dirs) ==
  \E pick \in [DOMAIN part -> DOMAIN dirs] :
    /\ \A i, j \in DOMAIN part : i < j => pick[i] < pick[j]
    /\ \A i \in DOMAIN part : part[i] = dirs[pick[i]]

(* In both cases the directories of the list and of dirs are all there and *)
(* no other one, and the list is kept as it was.                           *)
Prepends(list, new, dirs) ==
  LET added == Len(new) - Len(list)
  IN /\ added \in 0..Len(dirs)
     /\ SubSeq(new, added + 1, Len(new)) = list
     /\ ToSet(new) = ToSet(list) \cup ToSet(dirs)
     /\ TakenFrom(SubSeq(new, 1, added), dirs)

(* Appending never makes a directory appear again.                         *)
Appends(list, new, dirs) ==
  LET added == Len(new) - Len(list)
      part == SubSeq(new, Len(list) + 1, Len(new))
  IN /\ added \in 0..Len(dirs)
     /\ SubSeq(new, 1, Len(list)) = list
     /\ ToSet(new) = ToSet(list) \cup ToSet(dirs)
     /\ Cardinality(ToSet(part) \ ToSet(list)) = added
     /\ TakenFrom(part, dirs)

Init == lists = [s \in Slots |-> << >>]

(* What client t may come to hold: nothing; a copy of the list of s; or,   *)
(* if t holds nothing or derives from its own list, the list of s with     *)
(* directories.  A call that lacks memory changes nothing.                 *)
Step(t) ==
  LET list == lists[t]
      new == lists'[t]
  IN \/ new = << >>
     \/ \E s \in Slots :
          /\ list = << >> \/ s = t
          /\ LET from == lists[s]
             IN \/ new = from
                \/ \E dirs \in DirSeqs : Prepends(from, new, dirs) \/ Appends(from, new, dirs)

(* A step changes the list of one client.                                  *)
Next ==
  \E t \in Slots :
    /\ DOMAIN lists' = Slots
    /\ \A u \in Slots \ {t} : lists'[u] = lists[u]
    /\ Step(t)

Spec == Init /\ [][Next]_lists
=============================================================================
