----------------------------- MODULE LocaleRoot -----------------------------
(***************************************************************************)
(* The roots and the searches of src/sandbox/locale-root.c: a root keeps   *)
(* the last searches made for it in a list (lru) and a default search;     *)
(* each search holds its root by an internal count.  Their memory is freed *)
(* by counting.  The lists of locales are given normalised, as             *)
(* make_search_list does (module Utilities).                               *)
(***************************************************************************)
EXTENDS Integers, Sequences, SequencesExt, FiniteSets, FiniteSetsExt

CONSTANTS Roots,       \* addresses of roots
          Searches,    \* addresses of searches
          Lists,       \* normalised lists of locales
          LRU_COUNT,
          MaxRefs,     \* bound: references of the client to one thing
          NoSearch     \* NULL

ASSUME LocaleAssumption ==
  /\ LRU_COUNT \in Nat \ {0}
  /\ NoSearch \notin Searches
  /\ Lists \subseteq Seq(STRING)

VARIABLES roots,      \* the living roots
          searches,   \* the living searches
          rootRefs,   \* references the client holds
          searchRefs,
          fault       \* a freed structure was used

localeVars == <<roots, searches, rootRefs, searchRefs, fault>>

LocaleInit ==
  /\ roots = << >> /\ searches = << >>
  /\ rootRefs = [r \in Roots |-> 0] /\ searchRefs = [s \in Searches |-> 0]
  /\ fault = FALSE

(* What the functions change: m has the two memories and the fault.        *)
Memory == [roots |-> roots, searches |-> searches, fault |-> fault]
Effect(m) == roots' = m.roots /\ searches' = m.searches /\ fault' = m.fault

Freed(f, x) == [y \in DOMAIN f \ {x} |-> f[y]]
Faulty(m) == [m EXCEPT !.fault = TRUE]

internal_unref(m, r) ==
  IF r \notin DOMAIN m.roots THEN Faulty(m)
  ELSE IF m.roots[r].intcount = 1 THEN [m EXCEPT !.roots = Freed(@, r)]
  ELSE [m EXCEPT !.roots[r].intcount = @ - 1]

locale_search_unref(m, s) ==
  IF s = NoSearch THEN m
  ELSE IF s \notin DOMAIN m.searches THEN Faulty(m)
  ELSE IF m.searches[s].refcount > 1 THEN [m EXCEPT !.searches[s].refcount = @ - 1]
  ELSE internal_unref([m EXCEPT !.searches = Freed(@, s)], m.searches[s].root)

locale_search_addref(m, s) ==
  IF s \notin DOMAIN m.searches THEN Faulty(m) ELSE [m EXCEPT !.searches[s].refcount = @ + 1]

UnrefAll(m, list) ==
  LET after[k \in 0..Len(list)] == IF k = 0 THEN m ELSE locale_search_unref(after[k - 1], list[k])
  IN  after[Len(list)]

(* The searches that hold the root are dropped; they stay in its list.     *)
LastUnref(m, r) == internal_unref(UnrefAll(m, m.roots[r].lru), r)

-----------------------------------------------------------------------------
locale_root_create(r) ==
  /\ r \notin DOMAIN roots
  /\ roots' = [x \in DOMAIN roots \cup {r} |->
                 IF x = r THEN [refcount |-> 1, intcount |-> 1, lru |-> [i \in 1..LRU_COUNT |-> NoSearch],
                                default |-> NoSearch]
                 ELSE roots[x]]
  /\ rootRefs' = [rootRefs EXCEPT ![r] = 1]
  /\ UNCHANGED <<searches, searchRefs, fault>>

locale_root_addref(r) ==
  /\ rootRefs[r] \in 1..MaxRefs - 1
  /\ roots' = [roots EXCEPT ![r].refcount = @ + 1]
  /\ rootRefs' = [rootRefs EXCEPT ![r] = @ + 1]
  /\ UNCHANGED <<searches, searchRefs, fault>>

locale_root_unref(r) ==
  /\ rootRefs[r] > 0
  /\ LET m == [Memory EXCEPT !.roots[r].refcount = @ - 1]
     IN Effect(IF m.roots[r].refcount = 0 THEN LastUnref(m, r) ELSE m)
  /\ rootRefs' = [rootRefs EXCEPT ![r] = @ - 1]
  /\ UNCHANGED searchRefs

(* The place of the search of a list in lru, 0 if there is none.           *)
search_matches(r, list) ==
  SelectInSeq(roots[r].lru, LAMBDA s : s # NoSearch /\ s \in DOMAIN searches /\ searches[s].list = list)

(* The search becomes the first, those before the place i are shifted.     *)
ToFront(lru, s, i) == [j \in DOMAIN lru |-> IF j = 1 THEN s ELSE IF j <= i THEN lru[j - 1] ELSE lru[j]]

(* Variant: the search does not hold its root.                             *)
create_search_uncounted(m, r, s, list) ==
  [m EXCEPT !.searches = [x \in DOMAIN @ \cup {s} |->
                            IF x = s THEN [root |-> r, refcount |-> 1, list |-> list] ELSE @[x]]]

create_search(m, r, s, list) ==
  [m EXCEPT !.roots[r].intcount = @ + 1,
            !.searches = [x \in DOMAIN @ \cup {s} |->
                            IF x = s THEN [root |-> r, refcount |-> 1, list |-> list] ELSE @[x]]]

(* A known list gives its search, another one a new search that takes the  *)
(* place of the oldest.  s is what malloc gives, NoSearch when it fails.   *)
locale_root_search(r, list, s) ==
  LET i == search_matches(r, list)
      found == roots[r].lru[i]
      made == locale_search_unref(create_search(Memory, r, s, list), roots[r].lru[LRU_COUNT])
      search == IF i # 0 THEN found ELSE s
      m == [(IF i # 0 THEN Memory ELSE made) EXCEPT !.roots[r].lru = ToFront(@, search, IF i # 0 THEN i ELSE LRU_COUNT)]
  IN /\ rootRefs[r] > 0
     /\ s \notin DOMAIN searches
     /\ i # 0 => s = NoSearch
     /\ IF i = 0 /\ s = NoSearch THEN UNCHANGED localeVars
        ELSE /\ searchRefs[search] < MaxRefs
             /\ Effect(locale_search_addref(m, search))
             /\ searchRefs' = [searchRefs EXCEPT ![search] = @ + 1]
             /\ UNCHANGED rootRefs

search_addref(s) ==
  /\ searchRefs[s] \in 1..MaxRefs - 1
  /\ Effect(locale_search_addref(Memory, s))
  /\ searchRefs' = [searchRefs EXCEPT ![s] = @ + 1]
  /\ UNCHANGED rootRefs

search_unref(s) ==
  /\ searchRefs[s] > 0
  /\ Effect(locale_search_unref(Memory, s))
  /\ searchRefs' = [searchRefs EXCEPT ![s] = @ - 1]
  /\ UNCHANGED rootRefs

(* The new one is referenced before the older one is dropped.  The client  *)
(* holds the root, and the search when there is one.                       *)
locale_root_set_default_search(r, s) ==
  /\ rootRefs[r] > 0
  /\ s # NoSearch => searchRefs[s] > 0 /\ searches[s].root = r
  /\ LET kept == IF s = NoSearch THEN Memory ELSE locale_search_addref(Memory, s)
     IN Effect(locale_search_unref([kept EXCEPT !.roots[r].default = s], roots[r].default))
  /\ UNCHANGED <<rootRefs, searchRefs>>

LocaleNext ==
  \/ \E r \in Roots : \/ locale_root_create(r) \/ locale_root_addref(r) \/ locale_root_unref(r)
                      \/ \E list \in Lists, s \in Searches \cup {NoSearch} : locale_root_search(r, list, s)
                      \/ \E s \in Searches \cup {NoSearch} : locale_root_set_default_search(r, s)
  \/ \E s \in Searches : search_addref(s) \/ search_unref(s)

LocaleSpec == LocaleInit /\ [][LocaleNext]_localeVars

-----------------------------------------------------------------------------
(* Variant: the last locale of the list is not left for the next one.      *)
iter_next_stuck(it, default) ==
  IF Len(it.list) > 1 THEN [it EXCEPT !.list = Tail(@)] ELSE [it EXCEPT !.end = TRUE]

(* The iterator of open and resolve: the locales of the list, then of the  *)
(* default search, then none ("").                                         *)
iter_next(it, default) ==
  CASE Len(it.list) > 1 -> [it EXCEPT !.list = Tail(@)]
    [] Len(it.list) <= 1 /\ it.state = "given" /\ default # << >> -> [list |-> default, state |-> "default", end |-> FALSE]
    [] Len(it.list) <= 1 /\ it.state # "none" /\ ~(it.state = "given" /\ default # << >>) ->
         [list |-> << >>, state |-> "none", end |-> FALSE]
    [] OTHER -> [it EXCEPT !.end = TRUE]

DefaultOf(r) == LET d == roots[r].default IN IF d \in DOMAIN searches THEN searches[d].list ELSE << >>

iter_init(list, default) ==
  LET it == [list |-> list, state |-> "given", end |-> FALSE] IN IF list = << >> THEN iter_next(it, default) ELSE it

(* The place of an iterator.                                               *)
PlaceOf(it) == IF it.list = << >> THEN "" ELSE Head(it.list)

(* The places tried for a file, until one has it: those of the iterators   *)
(* before the one that is at its end.                                      *)
IterFrom(it, default) ==
  LET at[k \in 1..Len(it.list) + Len(default) + 2] == IF k = 1 THEN it ELSE iter_next(at[k - 1], default)
  IN  [k \in 1..SelectInSeq(at, LAMBDA i : i.end) - 1 |-> PlaceOf(at[k])]

locale_search_resolve(s) ==
  LET default == DefaultOf(searches[s].root) IN IterFrom(iter_init(searches[s].list, default), default)

locale_root_resolve(r, list) == IterFrom(iter_init(list, DefaultOf(r)), DefaultOf(r))

-----------------------------------------------------------------------------
(* No freed root or search is used, and what the client holds is alive     *)
(* with its root, so a search survives its root's last external reference. *)
HeldIsAlive ==
  /\ ~fault
  /\ \A r \in Roots : rootRefs[r] > 0 => r \in DOMAIN roots
  /\ \A s \in Searches : searchRefs[s] > 0 => s \in DOMAIN searches /\ searches[s].root \in DOMAIN roots
  /\ \A r \in DOMAIN roots : roots[r].default # NoSearch => roots[r].default \in DOMAIN searches

(* A search is counted by the client, by the list of its root while the    *)
(* root has external references, and as a default; a root is counted by    *)
(* its searches and, once, by its external references.                     *)
LocaleCounts ==
  /\ \A s \in DOMAIN searches :
       LET r == roots[searches[s].root]
       IN searches[s].refcount =
            searchRefs[s] + (IF r.refcount > 0 /\ s \in ToSet(r.lru) THEN 1 ELSE 0) + (IF r.default = s THEN 1 ELSE 0)
  /\ \A r \in DOMAIN roots :
       /\ roots[r].refcount = rootRefs[r]
       /\ roots[r].intcount = Cardinality({s \in DOMAIN searches : searches[s].root = r}) + (IF rootRefs[r] > 0 THEN 1 ELSE 0)

(* When the client has released all, nothing is left but the roots that    *)
(* have a default search, which hold each other: it must be unset before.  *)
NothingLeft ==
  (\A r \in Roots : rootRefs[r] = 0) /\ (\A s \in Searches : searchRefs[s] = 0) =>
    \A r \in DOMAIN roots : roots[r].default # NoSearch

(* The list of a root has each list of locales once: two clients that ask  *)
(* for the same locales get the same search until it is evicted.           *)
LruDistinct ==
  \A r \in DOMAIN roots : roots[r].refcount > 0 =>
    \A i, j \in 1..LRU_COUNT :
      LET a == roots[r].lru[i]
          b == roots[r].lru[j]
      IN (i < j /\ b # NoSearch) => a # NoSearch /\ a # b /\ searches[a].list # searches[b].list

(* A file is looked for in the locales of the search, then of the default  *)
(* search, then out of them.                                               *)
TriedInOrder ==
  /\ \A s \in DOMAIN searches : locale_search_resolve(s) = searches[s].list \o DefaultOf(searches[s].root) \o <<"">>
  /\ \A r \in DOMAIN roots, list \in Lists : locale_root_resolve(r, list) = list \o DefaultOf(r) \o <<"">>

(* Roots, searches, the cache and the default search of locale-root.c hold *)
(* each other by exact counts: nothing in use is freed, what nobody uses is, *)
(* and the cache gives the same search to all who ask for the same locales. *)
LocaleLifetimes == HeldIsAlive /\ LocaleCounts /\ NothingLeft /\ LruDistinct
=============================================================================
