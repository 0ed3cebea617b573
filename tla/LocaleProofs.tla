---------------------------- MODULE LocaleProofs ----------------------------
(***************************************************************************)
(* Theorems about the roots and the searches of LocaleRoot.                *)
(***************************************************************************)
EXTENDS LocaleRoot, Lists, FiniteSetTheorems

-----------------------------------------------------------------------------
(* The memories.                                                           *)

Partial(A, B) == UNION {[D -> B] : D \in SUBSET A}

Pointers == Searches \cup {NoSearch}

RootRec == [refcount : Int, intcount : Int, lru : [1..LRU_COUNT -> Pointers], default : Pointers]

SearchRec == [root : Roots, refcount : Int, list : Lists]

Memories == [roots : Partial(Roots, RootRec), searches : Partial(Searches, SearchRec), fault : BOOLEAN]

(* A partial function is a function on a part.                             *)
LEMMA PartialIs ==
  ASSUME NEW A, NEW B, NEW f
  PROVE  f \in Partial(A, B) <=> DOMAIN f \subseteq A /\ f \in [DOMAIN f -> B]
BY DEF Partial

(* The parts of a memory.                                                  *)
LEMMA MemoryIs ==
  ASSUME NEW m \in Memories
  PROVE  /\ m.roots \in [DOMAIN m.roots -> RootRec] /\ DOMAIN m.roots \subseteq Roots
         /\ m.searches \in [DOMAIN m.searches -> SearchRec] /\ DOMAIN m.searches \subseteq Searches
         /\ m.fault \in BOOLEAN
         /\ m = [roots |-> m.roots, searches |-> m.searches, fault |-> m.fault]
<1>1. m.roots \in Partial(Roots, RootRec) /\ m.searches \in Partial(Searches, SearchRec) /\ m.fault \in BOOLEAN
      /\ m = [roots |-> m.roots, searches |-> m.searches, fault |-> m.fault]
  BY DEF Memories
<1> QED
  BY <1>1, PartialIs

(* A memory from its parts.                                                *)
LEMMA IsMemory ==
  ASSUME NEW R, NEW S, NEW b \in BOOLEAN,
         R \in [DOMAIN R -> RootRec], DOMAIN R \subseteq Roots,
         S \in [DOMAIN S -> SearchRec], DOMAIN S \subseteq Searches
  PROVE  [roots |-> R, searches |-> S, fault |-> b] \in Memories
<1>1. R \in Partial(Roots, RootRec) /\ S \in Partial(Searches, SearchRec)
  BY PartialIs
<1> QED
  BY <1>1 DEF Memories

(* Freeing restricts.                                                      *)
LEMMA FreedIs ==
  ASSUME NEW A, NEW B, NEW f, f \in [DOMAIN f -> B], DOMAIN f \subseteq A, NEW x
  PROVE  /\ DOMAIN Freed(f, x) = DOMAIN f \ {x} /\ DOMAIN Freed(f, x) \subseteq A
         /\ Freed(f, x) \in [DOMAIN Freed(f, x) -> B]
         /\ \A y \in DOMAIN Freed(f, x) : Freed(f, x)[y] = f[y]
BY DEF Freed

-----------------------------------------------------------------------------
(* What each function gives, as a memory.                                  *)

WithRoots(m, R) == [roots |-> R, searches |-> m.searches, fault |-> m.fault]
WithSearches(m, S) == [roots |-> m.roots, searches |-> S, fault |-> m.fault]

(* An internal reference less.                                             *)
LEMMA InternalUnrefIs ==
  ASSUME NEW m \in Memories, NEW r \in Roots
  PROVE  /\ internal_unref(m, r) \in Memories
         /\ r \in DOMAIN m.roots => internal_unref(m, r) =
              WithRoots(m, IF m.roots[r].intcount = 1 THEN Freed(m.roots, r)
                           ELSE [m.roots EXCEPT ![r].intcount = @ - 1])
<1>1. /\ m.roots \in [DOMAIN m.roots -> RootRec] /\ DOMAIN m.roots \subseteq Roots
      /\ m.searches \in [DOMAIN m.searches -> SearchRec] /\ DOMAIN m.searches \subseteq Searches
      /\ m.fault \in BOOLEAN
      /\ m = [roots |-> m.roots, searches |-> m.searches, fault |-> m.fault]
  BY MemoryIs
<1>2. CASE r \notin DOMAIN m.roots
  <2>1. internal_unref(m, r) = [roots |-> m.roots, searches |-> m.searches, fault |-> TRUE]
    BY <1>1, <1>2 DEF internal_unref, Faulty
  <2> QED
    BY <1>1, <1>2, <2>1, IsMemory
<1>3. CASE r \in DOMAIN m.roots /\ m.roots[r].intcount = 1
  <2>1. internal_unref(m, r) = WithRoots(m, Freed(m.roots, r))
    BY <1>1, <1>3 DEF internal_unref, WithRoots
  <2>2. DOMAIN Freed(m.roots, r) \subseteq Roots /\ Freed(m.roots, r) \in [DOMAIN Freed(m.roots, r) -> RootRec]
    BY <1>1, FreedIs
  <2> QED
    BY <1>1, <1>3, <2>1, <2>2, IsMemory DEF WithRoots
<1>4. CASE r \in DOMAIN m.roots /\ m.roots[r].intcount # 1
  <2> DEFINE R == [m.roots EXCEPT ![r].intcount = @ - 1]
  <2>1. internal_unref(m, r) = WithRoots(m, R)
    BY <1>1, <1>4 DEF internal_unref, WithRoots
  <2>2. DOMAIN R = DOMAIN m.roots /\ R \in [DOMAIN R -> RootRec]
    BY <1>1, <1>4 DEF RootRec
  <2> HIDE DEF R
  <2>3. internal_unref(m, r) \in Memories
    BY <1>1, <2>1, <2>2, IsMemory DEF WithRoots
  <2> QED
    BY <1>4, <2>1, <2>3 DEF R
<1> QED
  BY <1>2, <1>3, <1>4

(* A reference to a search less.                                           *)
LEMMA SearchUnrefIs ==
  ASSUME NEW m \in Memories, NEW s \in Pointers
  PROVE  /\ locale_search_unref(m, s) \in Memories
         /\ s = NoSearch => locale_search_unref(m, s) = m
         /\ s \in DOMAIN m.searches => locale_search_unref(m, s) =
              IF m.searches[s].refcount > 1 THEN WithSearches(m, [m.searches EXCEPT ![s].refcount = @ - 1])
              ELSE internal_unref(WithSearches(m, Freed(m.searches, s)), m.searches[s].root)
         /\ WithSearches(m, Freed(m.searches, s)) \in Memories
<1>1. /\ m.roots \in [DOMAIN m.roots -> RootRec] /\ DOMAIN m.roots \subseteq Roots
      /\ m.searches \in [DOMAIN m.searches -> SearchRec] /\ DOMAIN m.searches \subseteq Searches
      /\ m.fault \in BOOLEAN
      /\ m = [roots |-> m.roots, searches |-> m.searches, fault |-> m.fault]
  BY MemoryIs
<1>2. NoSearch \notin DOMAIN m.searches
  BY <1>1, LocaleAssumption
<1>3. WithSearches(m, Freed(m.searches, s)) \in Memories
  <2>1. DOMAIN Freed(m.searches, s) \subseteq Searches /\ Freed(m.searches, s) \in [DOMAIN Freed(m.searches, s) -> SearchRec]
    BY <1>1, FreedIs
  <2> QED
    BY <1>1, <2>1, IsMemory DEF WithSearches
<1>4. CASE s = NoSearch
  <2>1. locale_search_unref(m, s) = m
    BY <1>4 DEF locale_search_unref
  <2> QED
    BY <1>2, <1>3, <1>4, <2>1
<1>5. CASE s # NoSearch /\ s \notin DOMAIN m.searches
  <2>1. locale_search_unref(m, s) = [roots |-> m.roots, searches |-> m.searches, fault |-> TRUE]
    BY <1>1, <1>5 DEF locale_search_unref, Faulty
  <2>2. locale_search_unref(m, s) \in Memories
    BY <1>1, <2>1, IsMemory
  <2> QED
    BY <1>3, <1>5, <2>2
<1>6. CASE s \in DOMAIN m.searches /\ m.searches[s].refcount > 1
  <2> DEFINE S == [m.searches EXCEPT ![s].refcount = @ - 1]
  <2>1. locale_search_unref(m, s) = WithSearches(m, S)
    BY <1>1, <1>2, <1>6 DEF locale_search_unref, WithSearches
  <2>2. DOMAIN S = DOMAIN m.searches /\ S \in [DOMAIN S -> SearchRec]
    BY <1>1, <1>6 DEF SearchRec
  <2> HIDE DEF S
  <2>3. locale_search_unref(m, s) \in Memories
    BY <1>1, <2>1, <2>2, IsMemory DEF WithSearches
  <2> QED
    BY <1>2, <1>3, <1>6, <2>1, <2>3 DEF S
<1>7. CASE s \in DOMAIN m.searches /\ ~(m.searches[s].refcount > 1)
  <2>1. [m EXCEPT !.searches = Freed(@, s)] = WithSearches(m, Freed(m.searches, s))
    BY <1>1 DEF WithSearches
  <2>2. locale_search_unref(m, s) = internal_unref(WithSearches(m, Freed(m.searches, s)), m.searches[s].root)
    BY <1>2, <1>7, <2>1 DEF locale_search_unref
  <2>3. m.searches[s].root \in Roots
    BY <1>1, <1>7 DEF SearchRec
  <2>4. locale_search_unref(m, s) \in Memories
    BY <1>3, <2>2, <2>3, InternalUnrefIs
  <2> QED
    BY <1>2, <1>3, <1>7, <2>2, <2>4
<1> QED
  BY <1>4, <1>5, <1>6, <1>7

-----------------------------------------------------------------------------
(* The counts, as they are between two calls and in the middle of one.     *)

Holders(S, r) == {s \in DOMAIN S : S[s].root = r}

OneIf(b) == IF b THEN 1 ELSE 0

(* The counts of a memory: need gives for each search the references to    *)
(* it, ext the roots that have external references, late the roots that    *)
(* have still the internal reference of a thing that is gone.              *)
Owing(m, need, ext, late) ==
  /\ m \in Memories /\ ~m.fault
  /\ need \in [Searches -> Nat]
  /\ ext \subseteq DOMAIN m.roots /\ late \subseteq DOMAIN m.roots
  /\ IsFiniteSet(DOMAIN m.searches)
  /\ \A s \in Searches : need[s] # 0 <=> s \in DOMAIN m.searches
  /\ \A s \in DOMAIN m.searches : m.searches[s].refcount = need[s] /\ m.searches[s].root \in DOMAIN m.roots
  /\ \A r \in DOMAIN m.roots :
       /\ m.roots[r].intcount = Cardinality(Holders(m.searches, r)) + OneIf(r \in ext) + OneIf(r \in late)
       /\ m.roots[r].intcount # 0

Counted(m, need, ext) == Owing(m, need, ext, {})

SameRoot(a, b) == a.refcount = b.refcount /\ a.lru = b.lru /\ a.default = b.default

SameSearch(a, b) == a.root = b.root /\ a.list = b.list

(* What is left in a memory n is as in m.                                  *)
Kept(m, n) ==
  /\ DOMAIN n.searches \subseteq DOMAIN m.searches
  /\ \A s \in DOMAIN n.searches : SameSearch(n.searches[s], m.searches[s])
  /\ DOMAIN n.roots \subseteq DOMAIN m.roots
  /\ \A r \in DOMAIN n.roots : SameRoot(n.roots[r], m.roots[r])

(* The number of the holders of a root.                                    *)
LEMMA HoldersAre ==
  ASSUME NEW S, IsFiniteSet(DOMAIN S), NEW r
  PROVE  /\ IsFiniteSet(Holders(S, r)) /\ Cardinality(Holders(S, r)) \in Nat
         /\ Cardinality(Holders(S, r)) = 0 <=> Holders(S, r) = {}
         /\ \A s \in Holders(S, r) : Cardinality(Holders(S, r) \ {s}) = Cardinality(Holders(S, r)) - 1
         /\ \A s : s \notin Holders(S, r) => Cardinality(Holders(S, r) \cup {s}) = Cardinality(Holders(S, r)) + 1
<1>1. Holders(S, r) \subseteq DOMAIN S
  BY DEF Holders
<1>2. IsFiniteSet(Holders(S, r))
  BY <1>1, FS_Subset
<1> QED
  BY <1>2, FS_CardinalityType, FS_EmptySet, FS_AddElement, FS_RemoveElement

(* A memory is kept by what is kept of it.                                 *)
LEMMA KeptThrough ==
  ASSUME NEW m, NEW n, NEW q, Kept(m, n), Kept(n, q)
  PROVE  Kept(m, q)
BY DEF Kept, SameRoot, SameSearch

(* The internal reference of what is gone is dropped, and the root with it *)
(* when it was the last one.                                               *)
LEMMA InternalUnrefCounts ==
  ASSUME NEW m, NEW need, NEW ext, NEW r \in Roots, Owing(m, need, ext, {r})
  PROVE  Counted(internal_unref(m, r), need, ext) /\ Kept(m, internal_unref(m, r))
<1> DEFINE n == internal_unref(m, r)
           c(x) == Cardinality(Holders(m.searches, x))
<1>1. /\ m \in Memories /\ ~m.fault /\ need \in [Searches -> Nat] /\ ext \subseteq DOMAIN m.roots /\ r \in DOMAIN m.roots
      /\ IsFiniteSet(DOMAIN m.searches)
      /\ \A s \in Searches : need[s] # 0 <=> s \in DOMAIN m.searches
      /\ \A s \in DOMAIN m.searches : m.searches[s].refcount = need[s] /\ m.searches[s].root \in DOMAIN m.roots
      /\ \A x \in DOMAIN m.roots : m.roots[x].intcount = c(x) + OneIf(x \in ext) + OneIf(x = r) /\ m.roots[x].intcount # 0
  BY DEF Owing
<1>2. n \in Memories
  BY <1>1, InternalUnrefIs
<1>3. m.roots \in [DOMAIN m.roots -> RootRec]
  BY <1>1, MemoryIs
<1>4. \A x : c(x) \in Nat /\ (c(x) = 0 <=> Holders(m.searches, x) = {})
  BY <1>1, HoldersAre
<1> HIDE DEF c
<1>5. CASE m.roots[r].intcount = 1
  <2>1. n = WithRoots(m, Freed(m.roots, r))
    BY <1>1, <1>5, InternalUnrefIs
  <2>2. n.roots = Freed(m.roots, r) /\ n.searches = m.searches /\ n.fault = m.fault
    BY <2>1 DEF WithRoots
  <2>3. c(r) = 0 /\ r \notin ext
    BY <1>1, <1>4, <1>5 DEF OneIf
  <2>4. DOMAIN n.roots = DOMAIN m.roots \ {r} /\ \A x \in DOMAIN n.roots : n.roots[x] = m.roots[x]
    BY <2>2 DEF Freed
  <2>5. \A s \in DOMAIN m.searches : m.searches[s].root # r
    BY <1>4, <2>3 DEF Holders
  <2> HIDE DEF n
  <2>6. \A x \in DOMAIN n.roots : n.roots[x].intcount = c(x) + OneIf(x \in ext) + OneIf(x \in {})
                                  /\ n.roots[x].intcount # 0
    BY <1>1, <1>4, <2>4 DEF OneIf
  <2>7. Counted(n, need, ext)
    BY <1>1, <1>2, <2>2, <2>3, <2>4, <2>5, <2>6 DEF Counted, Owing, c
  <2>8. Kept(m, n)
    BY <2>2, <2>4 DEF Kept, SameRoot, SameSearch
  <2> QED
    BY <2>7, <2>8 DEF n
<1>6. CASE m.roots[r].intcount # 1
  <2>1. n = WithRoots(m, [m.roots EXCEPT ![r].intcount = @ - 1])
    BY <1>1, <1>6, InternalUnrefIs
  <2>2. n.roots = [m.roots EXCEPT ![r].intcount = @ - 1] /\ n.searches = m.searches /\ n.fault = m.fault
    BY <2>1 DEF WithRoots
  <2>3. /\ DOMAIN n.roots = DOMAIN m.roots
        /\ \A x \in DOMAIN n.roots : SameRoot(n.roots[x], m.roots[x])
                                     /\ n.roots[x].intcount = m.roots[x].intcount - OneIf(x = r)
    BY <1>1, <1>3, <2>2 DEF RootRec, OneIf, SameRoot
  <2> HIDE DEF n
  <2>4. \A x \in DOMAIN n.roots : n.roots[x].intcount = c(x) + OneIf(x \in ext) + OneIf(x \in {})
                                  /\ n.roots[x].intcount # 0
    BY SMTT(30), <1>1, <1>4, <1>6, <2>3 DEF OneIf
  <2>5. Counted(n, need, ext)
    BY <1>1, <1>2, <2>2, <2>3, <2>4 DEF Counted, Owing, c
  <2>6. Kept(m, n)
    BY <2>2, <2>3 DEF Kept, SameSearch
  <2> QED
    BY <2>5, <2>6 DEF n
<1> QED
  BY <1>5, <1>6

(* A reference to a search is dropped, and the search with it when it was  *)
(* the last one.                                                           *)
LEMMA SearchUnrefCounts ==
  ASSUME NEW m, NEW need, NEW ext, Counted(m, need, ext), NEW s \in Searches, need[s] # 0
  PROVE  /\ Counted(locale_search_unref(m, s), [need EXCEPT ![s] = @ - 1], ext)
         /\ Kept(m, locale_search_unref(m, s))
<1> DEFINE n == locale_search_unref(m, s)
           less == [need EXCEPT ![s] = @ - 1]
           c(x) == Cardinality(Holders(m.searches, x))
<1>1. /\ m \in Memories /\ ~m.fault /\ need \in [Searches -> Nat] /\ ext \subseteq DOMAIN m.roots
      /\ IsFiniteSet(DOMAIN m.searches)
      /\ \A x \in Searches : need[x] # 0 <=> x \in DOMAIN m.searches
      /\ \A x \in DOMAIN m.searches : m.searches[x].refcount = need[x] /\ m.searches[x].root \in DOMAIN m.roots
      /\ \A x \in DOMAIN m.roots : m.roots[x].intcount = c(x) + OneIf(x \in ext) + OneIf(x \in {}) /\ m.roots[x].intcount # 0
  BY DEF Counted, Owing
<1>2. /\ s \in Pointers /\ s \in DOMAIN m.searches
      /\ m.searches \in [DOMAIN m.searches -> SearchRec] /\ DOMAIN m.searches \subseteq Searches
      /\ DOMAIN m.roots \subseteq Roots
  BY <1>1, MemoryIs DEF Pointers
<1>3. /\ n \in Memories
      /\ n = IF m.searches[s].refcount > 1 THEN WithSearches(m, [m.searches EXCEPT ![s].refcount = @ - 1])
             ELSE internal_unref(WithSearches(m, Freed(m.searches, s)), m.searches[s].root)
      /\ WithSearches(m, Freed(m.searches, s)) \in Memories
  BY <1>1, <1>2, SearchUnrefIs
<1>4. less \in [Searches -> Nat] /\ less[s] = need[s] - 1 /\ \A x \in Searches : x # s => less[x] = need[x]
  BY <1>1
<1>5. m.searches[s].refcount = need[s] /\ need[s] \in Nat
  BY <1>1, <1>2
<1> HIDE DEF less, c
<1>6. CASE m.searches[s].refcount > 1
  <2>1. n.searches = [m.searches EXCEPT ![s].refcount = @ - 1] /\ n.roots = m.roots /\ n.fault = m.fault
    BY <1>3, <1>6 DEF WithSearches
  <2>2. /\ DOMAIN n.searches = DOMAIN m.searches
        /\ \A x \in DOMAIN n.searches : SameSearch(n.searches[x], m.searches[x]) /\ n.searches[x].refcount = less[x]
    BY <1>1, <1>2, <1>4, <2>1 DEF SearchRec, SameSearch
  <2>3. n \in Memories
    BY <1>3
  <2> HIDE DEF n
  <2>6. \A x : Cardinality(Holders(n.searches, x)) = c(x)
    <3>1. \A x : Holders(n.searches, x) = Holders(m.searches, x)
      BY <2>2 DEF Holders, SameSearch
    <3> QED
      BY <3>1 DEF c
  <2>4. Counted(n, less, ext)
    <3>1. \A x \in Searches : less[x] # 0 <=> x \in DOMAIN n.searches
      BY <1>1, <1>4, <1>5, <1>6, <2>2
    <3>2. \A x \in DOMAIN n.searches : n.searches[x].refcount = less[x] /\ n.searches[x].root \in DOMAIN n.roots
      BY <1>1, <2>1, <2>2 DEF SameSearch
    <3> QED
      BY <1>1, <1>4, <2>6, <2>1, <2>2, <2>3, <3>1, <3>2 DEF Counted, Owing
  <2>5. Kept(m, n)
    BY <2>1, <2>2 DEF Kept, SameRoot
  <2> QED
    BY <2>4, <2>5 DEF n, less
<1>7. CASE ~(m.searches[s].refcount > 1)
  <2> DEFINE r == m.searches[s].root
             q == WithSearches(m, Freed(m.searches, s))
  <2>1. n = internal_unref(q, r) /\ r \in Roots /\ r \in DOMAIN m.roots /\ q \in Memories
    BY <1>1, <1>2, <1>3, <1>7
  <2>2. less[s] = 0
    BY <1>4, <1>5, <1>1, <1>2, <1>7
  <2>3. /\ q.roots = m.roots /\ q.fault = m.fault /\ DOMAIN q.searches = DOMAIN m.searches \ {s}
        /\ \A x \in DOMAIN q.searches : q.searches[x] = m.searches[x]
    BY DEF WithSearches, Freed
  <2>4. s \in Holders(m.searches, r)
    BY <1>2 DEF Holders
  <2> HIDE DEF q, n, r
  <2>5. Holders(q.searches, r) = Holders(m.searches, r) \ {s}
        /\ \A x : x # r => Holders(q.searches, x) = Holders(m.searches, x)
    BY <2>3 DEF Holders, r
  <2>6. Cardinality(Holders(q.searches, r)) = c(r) - 1 /\ \A x : c(x) \in Nat
    BY <1>1, <2>4, <2>5, HoldersAre DEF c
  <2>7. \A x \in DOMAIN m.roots : Cardinality(Holders(q.searches, x)) = c(x) - OneIf(x \in {r})
    <3> SUFFICES ASSUME NEW x \in DOMAIN m.roots
                 PROVE  Cardinality(Holders(q.searches, x)) = c(x) - OneIf(x \in {r})
      OBVIOUS
    <3>1. CASE x = r
      BY <2>6, <3>1 DEF OneIf
    <3>2. CASE x # r
      <4>1. Cardinality(Holders(q.searches, x)) = c(x)
        BY <2>5, <3>2 DEF c
      <4> QED
        BY <2>6, <3>2, <4>1 DEF OneIf
    <3> QED
      BY <3>1, <3>2
  <2>8. IsFiniteSet(DOMAIN q.searches)
    BY <1>1, <2>3, FS_Subset
  <2>9. Owing(q, less, ext, {r})
    <3>1. \A x \in Searches : less[x] # 0 <=> x \in DOMAIN q.searches
      BY <1>1, <1>4, <2>2, <2>3
    <3>2. \A x \in DOMAIN q.searches : q.searches[x].refcount = less[x] /\ q.searches[x].root \in DOMAIN q.roots
      BY <1>1, <1>2, <1>4, <2>3
    <3>3. \A x \in DOMAIN q.roots :
            /\ q.roots[x].intcount = Cardinality(Holders(q.searches, x)) + OneIf(x \in ext) + OneIf(x \in {r})
            /\ q.roots[x].intcount # 0
      BY <1>1, <2>3, <2>6, <2>7 DEF OneIf
    <3> QED
      BY <1>1, <1>4, <2>1, <2>3, <2>8, <3>1, <3>2, <3>3 DEF Owing
  <2>10. Counted(n, less, ext) /\ Kept(q, n)
    BY <2>1, <2>9, InternalUnrefCounts
  <2>11. Kept(m, q)
    BY <2>3 DEF Kept, SameRoot, SameSearch
  <2>12. Kept(m, n)
    BY <2>10, <2>11, KeptThrough
  <2> QED
    BY <2>10, <2>12 DEF n, less
<1> QED
  BY <1>6, <1>7

(* A reference to a search more.                                           *)
LEMMA SearchAddrefCounts ==
  ASSUME NEW m, NEW need, NEW ext, Counted(m, need, ext), NEW s \in Searches, need[s] # 0
  PROVE  /\ Counted(locale_search_addref(m, s), [need EXCEPT ![s] = @ + 1], ext)
         /\ Kept(m, locale_search_addref(m, s))
         /\ locale_search_addref(m, s).roots = m.roots
         /\ DOMAIN locale_search_addref(m, s).searches = DOMAIN m.searches
<1> DEFINE n == locale_search_addref(m, s)
           more == [need EXCEPT ![s] = @ + 1]
           S == [m.searches EXCEPT ![s].refcount = @ + 1]
           c(x) == Cardinality(Holders(m.searches, x))
<1>1. /\ m \in Memories /\ ~m.fault /\ need \in [Searches -> Nat] /\ ext \subseteq DOMAIN m.roots
      /\ IsFiniteSet(DOMAIN m.searches)
      /\ \A x \in Searches : need[x] # 0 <=> x \in DOMAIN m.searches
      /\ \A x \in DOMAIN m.searches : m.searches[x].refcount = need[x] /\ m.searches[x].root \in DOMAIN m.roots
      /\ \A x \in DOMAIN m.roots : m.roots[x].intcount = c(x) + OneIf(x \in ext) + OneIf(x \in {}) /\ m.roots[x].intcount # 0
  BY DEF Counted, Owing
<1>2. /\ s \in DOMAIN m.searches
      /\ m.searches \in [DOMAIN m.searches -> SearchRec] /\ DOMAIN m.searches \subseteq Searches
      /\ m.roots \in [DOMAIN m.roots -> RootRec] /\ DOMAIN m.roots \subseteq Roots
      /\ m.fault \in BOOLEAN /\ m = [roots |-> m.roots, searches |-> m.searches, fault |-> m.fault]
  BY <1>1, MemoryIs
<1>3. n = WithSearches(m, S)
  BY <1>2 DEF locale_search_addref, WithSearches
<1>4. more \in [Searches -> Nat] /\ more[s] = need[s] + 1 /\ \A x \in Searches : x # s => more[x] = need[x]
  BY <1>1
<1>5. DOMAIN S = DOMAIN m.searches /\ S \in [DOMAIN S -> SearchRec]
  BY <1>2 DEF SearchRec
<1>6. \A x \in DOMAIN m.searches : SameSearch(S[x], m.searches[x]) /\ S[x].refcount = more[x]
  BY <1>1, <1>2, <1>4 DEF SearchRec, SameSearch
<1> HIDE DEF S, more, n, c
<1>7. n.searches = S /\ n.roots = m.roots /\ n.fault = m.fault /\ n \in Memories
  BY <1>2, <1>3, <1>5, IsMemory DEF WithSearches
<1>8. \A x : Cardinality(Holders(n.searches, x)) = c(x)
  <2>1. \A x : Holders(n.searches, x) = Holders(m.searches, x)
    BY <1>5, <1>6, <1>7 DEF Holders, SameSearch
  <2> QED
    BY <2>1 DEF c
<1>9. Counted(n, more, ext)
  <2>1. \A x \in Searches : more[x] # 0 <=> x \in DOMAIN n.searches
    BY <1>1, <1>2, <1>4, <1>5, <1>7
  <2>2. \A x \in DOMAIN n.searches : n.searches[x].refcount = more[x] /\ n.searches[x].root \in DOMAIN n.roots
    BY <1>1, <1>5, <1>6, <1>7 DEF SameSearch
  <2> QED
    BY <1>1, <1>4, <1>5, <1>7, <1>8, <2>1, <2>2 DEF Counted, Owing
<1>10. Kept(m, n)
  BY <1>5, <1>6, <1>7 DEF Kept, SameRoot
<1> QED
  BY <1>5, <1>7, <1>9, <1>10 DEF n, more

(* A new search, in a memory of which the parts are named.                 *)
LEMMA CreateIs ==
  ASSUME NEW A, NEW B, NEW b, NEW r \in DOMAIN A, NEW s, NEW list
  PROVE  create_search([roots |-> A, searches |-> B, fault |-> b], r, s, list)
           = [roots |-> [A EXCEPT ![r].intcount = @ + 1],
              searches |-> [x \in DOMAIN B \cup {s} |->
                             IF x = s THEN [root |-> r, refcount |-> 1, list |-> list] ELSE B[x]],
              fault |-> b]
<1> DEFINE X == [A EXCEPT ![r].intcount = @ + 1]
           Y == [x \in DOMAIN B \cup {s} |->
                  IF x = s THEN [root |-> r, refcount |-> 1, list |-> list] ELSE B[x]]
<1>1. create_search([roots |-> A, searches |-> B, fault |-> b], r, s, list)
        = [[roots |-> A, searches |-> B, fault |-> b] EXCEPT !.roots = X, !.searches = Y]
  BY DEF create_search
<1> HIDE DEF X, Y
<1>2. [[roots |-> A, searches |-> B, fault |-> b] EXCEPT !.roots = X, !.searches = Y]
        \in [roots : {X}, searches : {Y}, fault : {b}]
  OBVIOUS
<1>3. \A n \in [roots : {X}, searches : {Y}, fault : {b}] : n = [roots |-> X, searches |-> Y, fault |-> b]
  OBVIOUS
<1> QED
  BY <1>1, <1>2, <1>3 DEF X, Y

(* A memory n that has the search s more than m.                           *)
Created(n, m, r, s, list) ==
  /\ DOMAIN n.roots = DOMAIN m.roots
  /\ \A x \in DOMAIN n.roots : SameRoot(n.roots[x], m.roots[x])
  /\ DOMAIN n.searches = DOMAIN m.searches \cup {s}
  /\ \A x \in DOMAIN m.searches : n.searches[x] = m.searches[x]
  /\ n.searches[s].root = r /\ n.searches[s].list = list

(* A new search holds its root and has one reference.                      *)
LEMMA CreateCounts ==
  ASSUME NEW m, NEW need, NEW ext, Counted(m, need, ext), NEW r \in DOMAIN m.roots,
         NEW s \in Searches, s \notin DOMAIN m.searches, NEW list \in Lists
  PROVE  /\ Counted(create_search(m, r, s, list), [need EXCEPT ![s] = @ + 1], ext)
         /\ Created(create_search(m, r, s, list), m, r, s, list)
<1> DEFINE n == create_search(m, r, s, list)
           more == [need EXCEPT ![s] = @ + 1]
           S == [x \in DOMAIN m.searches \cup {s} |->
                  IF x = s THEN [root |-> r, refcount |-> 1, list |-> list] ELSE m.searches[x]]
           R == [m.roots EXCEPT ![r].intcount = @ + 1]
           c(x) == Cardinality(Holders(m.searches, x))
<1>1. /\ m \in Memories /\ ~m.fault /\ need \in [Searches -> Nat] /\ ext \subseteq DOMAIN m.roots
      /\ IsFiniteSet(DOMAIN m.searches)
      /\ \A x \in Searches : need[x] # 0 <=> x \in DOMAIN m.searches
      /\ \A x \in DOMAIN m.searches : m.searches[x].refcount = need[x] /\ m.searches[x].root \in DOMAIN m.roots
      /\ \A x \in DOMAIN m.roots : m.roots[x].intcount = c(x) + OneIf(x \in ext) + OneIf(x \in {}) /\ m.roots[x].intcount # 0
  BY DEF Counted, Owing
<1>2. /\ m.searches \in [DOMAIN m.searches -> SearchRec] /\ DOMAIN m.searches \subseteq Searches
      /\ m.roots \in [DOMAIN m.roots -> RootRec] /\ DOMAIN m.roots \subseteq Roots
      /\ m.fault \in BOOLEAN /\ m = [roots |-> m.roots, searches |-> m.searches, fault |-> m.fault]
  BY <1>1, MemoryIs
<1>3. n = [roots |-> R, searches |-> S, fault |-> m.fault]
  <2>1. PICK A, B, b : A = m.roots /\ B = m.searches /\ b = m.fault
    OBVIOUS
  <2>2. m = [roots |-> A, searches |-> B, fault |-> b] /\ r \in DOMAIN A
    BY <1>2, <2>1
  <2> DEFINE X == [A EXCEPT ![r].intcount = @ + 1]
             Y == [x \in DOMAIN B \cup {s} |->
                    IF x = s THEN [root |-> r, refcount |-> 1, list |-> list] ELSE B[x]]
  <2>3. X = R /\ Y = S
    BY <2>1
  <2>4. n = [roots |-> X, searches |-> Y, fault |-> b]
    BY <2>2, CreateIs
  <2> HIDE DEF X, Y, R, S, n
  <2> QED
    BY <2>1, <2>3, <2>4
<1>4. more \in [Searches -> Nat] /\ more[s] = 1 /\ \A x \in Searches : x # s => more[x] = need[x]
  BY <1>1
<1>5. /\ DOMAIN S = DOMAIN m.searches \cup {s} /\ S \in [DOMAIN S -> SearchRec] /\ DOMAIN S \subseteq Searches
      /\ \A x \in DOMAIN m.searches : S[x] = m.searches[x]
      /\ S[s] = [root |-> r, refcount |-> 1, list |-> list]
  BY <1>2 DEF SearchRec
<1>6. /\ DOMAIN R = DOMAIN m.roots /\ R \in [DOMAIN R -> RootRec]
      /\ \A x \in DOMAIN m.roots : SameRoot(R[x], m.roots[x]) /\ R[x].intcount = m.roots[x].intcount + OneIf(x = r)
  BY <1>2 DEF RootRec, SameRoot, OneIf
<1> HIDE DEF S, R, more, c
<1>7. n.searches = S /\ n.roots = R /\ n.fault = m.fault
  BY <1>3
<1>8. n \in Memories
  BY <1>2, <1>3, <1>5, <1>6, IsMemory
<1> HIDE DEF n
<1>9. \A x \in DOMAIN m.roots : Cardinality(Holders(n.searches, x)) = c(x) + OneIf(x = r) /\ c(x) \in Nat
  <2> SUFFICES ASSUME NEW x \in DOMAIN m.roots
               PROVE  Cardinality(Holders(n.searches, x)) = c(x) + OneIf(x = r) /\ c(x) \in Nat
    OBVIOUS
  <2>1. c(x) \in Nat
    BY <1>1, HoldersAre DEF c
  <2>2. CASE x = r
    <3>1. Holders(n.searches, x) = Holders(m.searches, x) \cup {s} /\ s \notin Holders(m.searches, x)
      BY <1>5, <1>7, <2>2 DEF Holders
    <3> QED
      BY <1>1, <2>1, <2>2, <3>1, HoldersAre DEF c, OneIf
  <2>3. CASE x # r
    <3>1. Holders(n.searches, x) = Holders(m.searches, x)
      BY <1>5, <1>7, <2>3 DEF Holders
    <3> QED
      BY <2>1, <2>3, <3>1 DEF c, OneIf
  <2> QED
    BY <2>2, <2>3
<1>10. Counted(n, more, ext)
  <2>1. \A x \in Searches : more[x] # 0 <=> x \in DOMAIN n.searches
    BY <1>1, <1>4, <1>5, <1>7
  <2>2. \A x \in DOMAIN n.searches : n.searches[x].refcount = more[x] /\ n.searches[x].root \in DOMAIN n.roots
    BY <1>1, <1>2, <1>4, <1>5, <1>6, <1>7
  <2>3. \A x \in DOMAIN n.roots :
          /\ n.roots[x].intcount = Cardinality(Holders(n.searches, x)) + OneIf(x \in ext) + OneIf(x \in {})
          /\ n.roots[x].intcount # 0
    BY <1>1, <1>6, <1>7, <1>9 DEF OneIf
  <2>4. IsFiniteSet(DOMAIN n.searches)
    BY <1>1, <1>5, <1>7, FS_AddElement
  <2> QED
    BY <1>1, <1>4, <1>6, <1>7, <1>8, <2>1, <2>2, <2>3, <2>4 DEF Counted, Owing
<1>11. n.searches[s].root = r /\ n.searches[s].list = list
  BY <1>5, <1>7
<1> QED
  BY <1>5, <1>6, <1>7, <1>10, <1>11 DEF Created, n, more

(* What the references of a list drop, one after the other.                *)
LEMMA UnrefAllIs ==
  ASSUME NEW m \in Memories, NEW list \in [1..LRU_COUNT -> Pointers]
  PROVE  \E after \in [0..LRU_COUNT -> Memories] :
           /\ after[0] = m /\ UnrefAll(m, list) = after[LRU_COUNT]
           /\ \A k \in 1..LRU_COUNT : after[k] = locale_search_unref(after[k - 1], list[k])
<1> DEFINE n == LRU_COUNT
           F == CHOOSE f : f = [k \in 0..n |-> IF k = 0 THEN m ELSE locale_search_unref(f[k - 1], list[k])]
           Step == [x \in (1..n) \X Memories |-> locale_search_unref(x[2], list[x[1]])]
<1>1. n \in Nat /\ Len(list) = n /\ \A k \in 1..n : list[k] \in Pointers
  BY LocaleAssumption
<1>2. Step \in [(1..n) \X Memories -> Memories]
  <2>1. \A x \in (1..n) \X Memories : locale_search_unref(x[2], list[x[1]]) \in Memories
    BY SearchUnrefIs
  <2> QED
    BY <2>1, Zenon
<1>3. PICK f \in [0..n -> Memories] : Recursive(f, n, m, Step)
  <2> HIDE DEF Step, n
  <2> QED
    BY <1>1, <1>2, Recursion
<1>4. /\ \A k \in 0..n : k # 0 => k \in 1..n /\ k - 1 \in 0..n
      /\ 0 \in 0..n /\ n \in 0..n /\ \A k \in 1..n : k \in 0..n /\ k # 0
  BY <1>1
<1>5. f[0] = m /\ \A k \in 1..n : f[k] = locale_search_unref(f[k - 1], list[k])
  <2>1. f[0] = m /\ \A k \in 1..n : f[k] = Step[<<k, f[k - 1]>>]
    BY <1>3 DEF Recursive
  <2>2. \A k \in 1..n : <<k, f[k - 1]>> \in (1..n) \X Memories
    BY <1>3, <1>4
  <2> QED
    BY <2>1, <2>2
<1>6. f = [k \in 0..n |-> IF k = 0 THEN m ELSE locale_search_unref(f[k - 1], list[k])]
  <2>1. f = [k \in 0..n |-> f[k]]
    BY <1>3, Zenon
  <2> QED
    BY <1>4, <1>5, <2>1, Zenon
<1>7. F = [k \in 0..n |-> IF k = 0 THEN m ELSE locale_search_unref(F[k - 1], list[k])]
  BY <1>6, Zenon
<1>8. UnrefAll(m, list) = F[n]
  BY <1>1 DEF UnrefAll
<1> HIDE DEF F
<1>9. F[0] = m /\ \A k \in 1..n : F[k] = locale_search_unref(F[k - 1], list[k])
  BY <1>4, <1>7, Zenon
<1>10. F \in [0..n -> Memories]
  <2> DEFINE T == {k \in 0..n : F[k] \in Memories}
  <2>1. 0 \in T
    BY <1>4, <1>9
  <2>2. \A k \in 1..n : k - 1 \in T => k \in T
    BY <1>1, <1>4, <1>9, SearchUnrefIs, ZenonT(60)
  <2>3. 0..n \subseteq T
    <3> HIDE DEF T
    <3> QED
      BY <1>1, <2>1, <2>2, UpTo
  <2>4. \A k \in 0..n : F[k] \in Memories
    BY <2>3
  <2> QED
    BY <1>7, <2>4, Zenon
<1> QED
  BY <1>8, <1>9, <1>10, Zenon

(* The list of a root drops one reference to each search it has.           *)
LEMMA UnrefAllCounts ==
  ASSUME NEW m, NEW need, NEW ext, Counted(m, need, ext), NEW list \in [1..LRU_COUNT -> Pointers],
         \A i \in 1..LRU_COUNT : list[i] # NoSearch => need[list[i]] # 0,
         \A i, j \in 1..LRU_COUNT : i < j /\ list[j] # NoSearch => list[i] # list[j]
  PROVE  /\ Counted(UnrefAll(m, list), [s \in Searches |-> need[s] - OneIf(\E i \in 1..LRU_COUNT : list[i] = s)], ext)
         /\ Kept(m, UnrefAll(m, list))
<1> DEFINE n == LRU_COUNT
           left(k) == [s \in Searches |-> need[s] - OneIf(\E i \in 1..k : list[i] = s)]
<1>1. n \in Nat /\ m \in Memories /\ need \in [Searches -> Nat] /\ NoSearch \notin Searches
  BY LocaleAssumption DEF Counted, Owing
<1>2. PICK after \in [0..n -> Memories] :
           /\ after[0] = m /\ UnrefAll(m, list) = after[n]
           /\ \A k \in 1..n : after[k] = locale_search_unref(after[k - 1], list[k])
  BY <1>1, UnrefAllIs
<1> DEFINE T == {k \in 0..n : Counted(after[k], left(k), ext) /\ Kept(m, after[k])}
<1>3. 0 \in T
  <2>1. left(0) = need
    BY <1>1 DEF OneIf
  <2>2. Kept(m, m)
    BY DEF Kept, SameRoot, SameSearch
  <2> HIDE DEF left
  <2> QED
    BY <1>1, <1>2, <2>1, <2>2
<1>4. ASSUME NEW k \in 1..n, k - 1 \in T PROVE k \in T
  <2>1. Counted(after[k - 1], left(k - 1), ext) /\ Kept(m, after[k - 1]) /\ k \in 0..n
        /\ after[k] = locale_search_unref(after[k - 1], list[k])
    BY <1>1, <1>2, <1>4
  <2>2. \A i : i \in 1..k <=> i \in 1..(k - 1) \/ i = k
    BY <1>1
  <2>3. CASE list[k] = NoSearch
    <3>1. after[k] = after[k - 1]
      BY <2>1, <2>3 DEF locale_search_unref
    <3>2. \A s \in Searches : (\E i \in 1..k : list[i] = s) <=> (\E i \in 1..(k - 1) : list[i] = s)
      BY <1>1, <2>2, <2>3
    <3>3. left(k) = left(k - 1)
      BY <3>2
    <3> HIDE DEF left
    <3> QED
      BY <2>1, <3>1, <3>3
  <2>4. CASE list[k] # NoSearch
    <3>1. list[k] \in Searches /\ need[list[k]] # 0
      BY <2>4 DEF Pointers
    <3>2. ~\E i \in 1..(k - 1) : list[i] = list[k]
      BY <1>1, <2>4
    <3>3. left(k - 1)[list[k]] # 0
      BY <3>1, <3>2, <1>1 DEF OneIf
    <3>4. left(k) = [left(k - 1) EXCEPT ![list[k]] = @ - 1]
      <4>1. ASSUME NEW s \in Searches
            PROVE  need[s] - OneIf(\E i \in 1..k : list[i] = s)
                   = (need[s] - OneIf(\E i \in 1..(k - 1) : list[i] = s)) - OneIf(s = list[k])
        <5>1. CASE s = list[k]
          BY <1>1, <2>2, <3>2, <5>1 DEF OneIf
        <5>2. CASE s # list[k]
          <6>1. (\E i \in 1..k : list[i] = s) <=> (\E i \in 1..(k - 1) : list[i] = s)
            BY <2>2, <5>2
          <6> QED
            BY <1>1, <5>2, <6>1 DEF OneIf
        <5> QED
          BY <5>1, <5>2
      <4>2. \A s \in Searches : left(k)[s] = left(k - 1)[s] - OneIf(s = list[k])
        BY <4>1
      <4>3. \A s \in Searches : left(k - 1)[s] \in Int
        BY <1>1 DEF OneIf
      <4>4. DOMAIN left(k) = Searches /\ DOMAIN left(k - 1) = Searches /\ left(k) = [s \in Searches |-> left(k)[s]]
        OBVIOUS
      <4> HIDE DEF left
      <4>5. \A s \in Searches : left(k)[s] = [left(k - 1) EXCEPT ![list[k]] = @ - 1][s]
        BY <3>1, <4>2, <4>3, <4>4 DEF OneIf
      <4> QED
        BY <3>1, <4>4, <4>5
    <3> HIDE DEF left
    <3>5. /\ Counted(after[k], left(k), ext)
          /\ Kept(after[k - 1], after[k])
      BY <2>1, <3>1, <3>3, <3>4, SearchUnrefCounts
    <3> QED
      BY <2>1, <3>5, KeptThrough
  <2> QED
    BY <2>3, <2>4
<1>5. 0..n \subseteq T
  <2> HIDE DEF T
  <2> QED
    BY <1>1, <1>3, <1>4, UpTo
<1>6. Counted(after[n], left(n), ext) /\ Kept(m, after[n])
  <2> HIDE DEF left
  <2>1. n \in 0..n
    BY <1>1
  <2> QED
    BY <1>5, <2>1, Zenon
<1> QED
  BY <1>2, <1>6

-----------------------------------------------------------------------------
(* The inductive invariant.                                                *)

External(rr) == {r \in Roots : rr[r] > 0}

InList(R, s) == \E r \in DOMAIN R : R[r].refcount > 0 /\ \E i \in 1..LRU_COUNT : R[r].lru[i] = s

AsDefault(R, s) == \E r \in DOMAIN R : R[r].default = s

(* The references to each search: the client's, the one of the list of its *)
(* root while the root has external references, and the default one.       *)
References(R, sr) == [s \in Searches |-> sr[s] + OneIf(InList(R, s)) + OneIf(AsDefault(R, s))]

(* The list of a root has searches of the root, each list of locales once, *)
(* then nothing.                                                           *)
LruGood(S, r, lru) ==
  /\ \A i \in 1..LRU_COUNT : lru[i] # NoSearch => lru[i] \in DOMAIN S /\ S[lru[i]].root = r
  /\ \A i, j \in 1..LRU_COUNT :
       i < j /\ lru[j] # NoSearch => lru[i] # NoSearch /\ lru[i] # lru[j] /\ S[lru[i]].list # S[lru[j]].list

DefaultGood(S, r, d) == d # NoSearch => d \in DOMAIN S /\ S[d].root = r

Linked(R, S) ==
  \A r \in DOMAIN R : (R[r].refcount > 0 => LruGood(S, r, R[r].lru)) /\ DefaultGood(S, r, R[r].default)

(* m is the memory, rr and sr the references of the client.                *)
Good(m, rr, sr) ==
  /\ rr \in [Roots -> Nat] /\ sr \in [Searches -> Nat]
  /\ Counted(m, References(m.roots, sr), External(rr))
  /\ \A r \in DOMAIN m.roots : m.roots[r].refcount = rr[r]
  /\ Linked(m.roots, m.searches)

(* The inductive invariant behind LocaleLifetimes.                         *)
LocaleInv == Good(Memory, rootRefs, searchRefs)

(* What the counts depend on.                                              *)
LEMMA CountedAlike ==
  ASSUME NEW m, NEW n \in Memories, NEW need, NEW ext, Counted(m, need, ext),
         n.searches = m.searches, n.fault = m.fault, DOMAIN n.roots = DOMAIN m.roots,
         \A r \in DOMAIN n.roots : n.roots[r].intcount = m.roots[r].intcount
  PROVE  Counted(n, need, ext)
BY DEF Counted, Owing

(* When the counts of what a memory has left are those that its own roots  *)
(* ask for, no root and no search that another one points to was freed.    *)
LEMMA Survivors ==
  ASSUME NEW m \in Memories, NEW n \in Memories, NEW sr \in [Searches -> Nat], NEW ext,
         Kept(m, n), Linked(m.roots, m.searches),
         Counted(n, References(m.roots, sr), ext),
         \A r \in DOMAIN m.roots : m.roots[r].refcount > 0 => r \in ext
  PROVE  Linked(n.roots, n.searches) /\ Counted(n, References(n.roots, sr), ext)
<1> DEFINE need == References(m.roots, sr)
<1>1. /\ m.roots \in [DOMAIN m.roots -> RootRec] /\ DOMAIN m.roots \subseteq Roots
      /\ m.searches \in [DOMAIN m.searches -> SearchRec] /\ DOMAIN m.searches \subseteq Searches
      /\ NoSearch \notin Searches
  BY MemoryIs, LocaleAssumption
<1>2. /\ ext \subseteq DOMAIN n.roots
      /\ \A s \in Searches : need[s] # 0 <=> s \in DOMAIN n.searches
      /\ \A s \in DOMAIN n.searches : n.searches[s].root \in DOMAIN n.roots
  BY DEF Counted, Owing
<1>3. /\ DOMAIN n.searches \subseteq DOMAIN m.searches
      /\ \A s \in DOMAIN n.searches : n.searches[s].root = m.searches[s].root /\ n.searches[s].list = m.searches[s].list
      /\ DOMAIN n.roots \subseteq DOMAIN m.roots
      /\ \A r \in DOMAIN n.roots : /\ n.roots[r].refcount = m.roots[r].refcount /\ n.roots[r].lru = m.roots[r].lru
                                   /\ n.roots[r].default = m.roots[r].default
  BY DEF Kept, SameRoot, SameSearch
<1>4. \A s \in Searches : InList(m.roots, s) \/ AsDefault(m.roots, s) => s \in DOMAIN n.searches
  <2> SUFFICES ASSUME NEW s \in Searches, InList(m.roots, s) \/ AsDefault(m.roots, s)
               PROVE  need[s] # 0
    BY <1>2
  <2> QED
    BY DEF References, OneIf
<1>5. ASSUME NEW r \in DOMAIN m.roots, m.roots[r].default # NoSearch
      PROVE  r \in DOMAIN n.roots /\ m.roots[r].default \in DOMAIN n.searches
  <2>1. m.roots[r].default \in DOMAIN m.searches /\ m.searches[m.roots[r].default].root = r
    BY <1>5 DEF Linked, DefaultGood
  <2>2. m.roots[r].default \in DOMAIN n.searches
    BY <1>1, <1>4, <2>1 DEF AsDefault
  <2> QED
    BY <1>2, <1>3, <2>1, <2>2
<1>6. ASSUME NEW r \in DOMAIN m.roots, m.roots[r].refcount > 0
      PROVE  r \in DOMAIN n.roots /\ \A i \in 1..LRU_COUNT : m.roots[r].lru[i] # NoSearch => m.roots[r].lru[i] \in DOMAIN n.searches
  <2>1. \A i \in 1..LRU_COUNT : m.roots[r].lru[i] # NoSearch => m.roots[r].lru[i] \in DOMAIN m.searches
    BY <1>6 DEF Linked, LruGood
  <2> QED
    BY <1>1, <1>2, <1>4, <1>6, <2>1 DEF InList
<1>7. Linked(n.roots, n.searches)
  <2> SUFFICES ASSUME NEW r \in DOMAIN n.roots
               PROVE  /\ n.roots[r].refcount > 0 => LruGood(n.searches, r, n.roots[r].lru)
                      /\ DefaultGood(n.searches, r, n.roots[r].default)
    BY DEF Linked
  <2>1. r \in DOMAIN m.roots
    BY <1>3
  <2>2. DefaultGood(n.searches, r, n.roots[r].default)
    BY <1>3, <1>5, <2>1 DEF Linked, DefaultGood
  <2>3. ASSUME n.roots[r].refcount > 0 PROVE LruGood(n.searches, r, n.roots[r].lru)
    <3> DEFINE lru == m.roots[r].lru
    <3>1. n.roots[r].lru = lru /\ m.roots[r].refcount > 0
      BY <1>3, <2>3
    <3>2. \A i \in 1..LRU_COUNT : lru[i] # NoSearch => lru[i] \in DOMAIN n.searches
      BY <1>6, <2>1, <3>1
    <3>3. LruGood(m.searches, r, lru)
      BY <2>1, <3>1 DEF Linked
    <3> HIDE DEF lru
    <3>4. LruGood(n.searches, r, lru)
      BY <1>3, <3>2, <3>3 DEF LruGood
    <3> QED
      BY <3>1, <3>4
  <2> QED
    BY <2>2, <2>3
<1>8. References(n.roots, sr) = need
  <2> SUFFICES ASSUME NEW s \in Searches
               PROVE  /\ OneIf(InList(n.roots, s)) = OneIf(InList(m.roots, s))
                      /\ OneIf(AsDefault(n.roots, s)) = OneIf(AsDefault(m.roots, s))
    BY DEF References
  <2>1. InList(n.roots, s) <=> InList(m.roots, s)
    <3>1. ASSUME InList(m.roots, s) PROVE InList(n.roots, s)
      BY <1>3, <1>6, <3>1 DEF InList
    <3>2. ASSUME InList(n.roots, s) PROVE InList(m.roots, s)
      BY <1>3, <3>2 DEF InList
    <3> QED
      BY <3>1, <3>2
  <2>2. AsDefault(n.roots, s) <=> AsDefault(m.roots, s)
    BY <1>1, <1>3, <1>5 DEF AsDefault
  <2> QED
    BY <2>1, <2>2 DEF OneIf
<1> QED
  BY <1>7, <1>8

-----------------------------------------------------------------------------
(* What each operation does to a good memory.                              *)

(* A good memory, in the terms of its parts.                               *)
LEMMA GoodIs ==
  ASSUME NEW m, NEW rr, NEW sr, Good(m, rr, sr)
  PROVE  /\ m \in Memories /\ rr \in [Roots -> Nat] /\ sr \in [Searches -> Nat]
         /\ m.roots \in [DOMAIN m.roots -> RootRec] /\ DOMAIN m.roots \subseteq Roots
         /\ m.searches \in [DOMAIN m.searches -> SearchRec] /\ DOMAIN m.searches \subseteq Searches
         /\ NoSearch \notin Searches /\ ~m.fault
         /\ \A r \in Roots : rr[r] > 0 => r \in DOMAIN m.roots
         /\ \A r \in DOMAIN m.roots : m.roots[r].refcount = rr[r]
         /\ \A s \in DOMAIN m.searches : m.searches[s].root \in DOMAIN m.roots
         /\ \A s \in Searches : sr[s] > 0 => s \in DOMAIN m.searches
         /\ \A s \in Searches : References(m.roots, sr)[s] # 0 <=> s \in DOMAIN m.searches
<1>1. /\ m \in Memories /\ rr \in [Roots -> Nat] /\ sr \in [Searches -> Nat]
      /\ Counted(m, References(m.roots, sr), External(rr))
      /\ \A r \in DOMAIN m.roots : m.roots[r].refcount = rr[r]
  BY DEF Good, Counted, Owing
<1>2. /\ ~m.fault /\ External(rr) \subseteq DOMAIN m.roots
      /\ \A s \in Searches : References(m.roots, sr)[s] # 0 <=> s \in DOMAIN m.searches
      /\ \A s \in DOMAIN m.searches : m.searches[s].root \in DOMAIN m.roots
  BY <1>1 DEF Counted, Owing
<1>3. \A s \in Searches : sr[s] > 0 => References(m.roots, sr)[s] # 0
  BY <1>1 DEF References, OneIf
<1>4. \A r \in Roots : rr[r] > 0 => r \in DOMAIN m.roots
  BY <1>2 DEF External
<1> QED
  BY <1>1, <1>2, <1>3, <1>4, MemoryIs, LocaleAssumption

(* A new root.                                                             *)
LEMMA RootCreateGood ==
  ASSUME NEW m, NEW rr, NEW sr, Good(m, rr, sr), NEW r \in Roots, r \notin DOMAIN m.roots
  PROVE  Good(WithRoots(m, [x \in DOMAIN m.roots \cup {r} |->
                 IF x = r THEN [refcount |-> 1, intcount |-> 1, lru |-> [i \in 1..LRU_COUNT |-> NoSearch],
                                default |-> NoSearch]
                 ELSE m.roots[x]]),
              [rr EXCEPT ![r] = 1], sr)
<1> DEFINE R == [x \in DOMAIN m.roots \cup {r} |->
                 IF x = r THEN [refcount |-> 1, intcount |-> 1, lru |-> [i \in 1..LRU_COUNT |-> NoSearch],
                                default |-> NoSearch]
                 ELSE m.roots[x]]
           n == WithRoots(m, R)
           rr2 == [rr EXCEPT ![r] = 1]
<1>1. /\ m \in Memories /\ rr \in [Roots -> Nat] /\ sr \in [Searches -> Nat]
      /\ m.roots \in [DOMAIN m.roots -> RootRec] /\ DOMAIN m.roots \subseteq Roots
      /\ m.searches \in [DOMAIN m.searches -> SearchRec] /\ DOMAIN m.searches \subseteq Searches
      /\ NoSearch \notin Searches /\ ~m.fault /\ m.fault \in BOOLEAN
      /\ \A x \in Roots : rr[x] > 0 => x \in DOMAIN m.roots
      /\ \A x \in DOMAIN m.roots : m.roots[x].refcount = rr[x]
      /\ \A s \in DOMAIN m.searches : m.searches[s].root \in DOMAIN m.roots
  BY GoodIs, MemoryIs
<1>2. /\ DOMAIN R = DOMAIN m.roots \cup {r} /\ \A x \in DOMAIN m.roots : R[x] = m.roots[x]
      /\ R[r].refcount = 1 /\ R[r].intcount = 1 /\ R[r].default = NoSearch
      /\ R[r].lru = [i \in 1..LRU_COUNT |-> NoSearch]
  OBVIOUS
<1>3. R \in [DOMAIN R -> RootRec]
  <2>1. R[r] \in RootRec
    BY <1>2 DEF RootRec, Pointers
  <2>2. R = [x \in DOMAIN R |-> R[x]]
    OBVIOUS
  <2> HIDE DEF R
  <2> QED
    BY <1>1, <1>2, <2>1, <2>2
<1> HIDE DEF R
<1>4. n.roots = R /\ n.searches = m.searches /\ n.fault = m.fault /\ n \in Memories
  BY <1>1, <1>2, <1>3, IsMemory DEF WithRoots
<1> HIDE DEF n
<1>5. \A i \in 1..LRU_COUNT : R[r].lru[i] = NoSearch
  BY <1>2
<1>6. References(n.roots, sr) = References(m.roots, sr)
  <2> SUFFICES ASSUME NEW s \in Searches
               PROVE  /\ OneIf(InList(R, s)) = OneIf(InList(m.roots, s))
                      /\ OneIf(AsDefault(R, s)) = OneIf(AsDefault(m.roots, s))
    BY <1>4 DEF References
  <2>1. InList(R, s) <=> InList(m.roots, s)
    <3>1. s # NoSearch
      BY <1>1
    <3>2. ASSUME NEW x \in DOMAIN R
          PROVE  (R[x].refcount > 0 /\ \E i \in 1..LRU_COUNT : R[x].lru[i] = s)
                   <=> x \in DOMAIN m.roots /\ m.roots[x].refcount > 0 /\ \E i \in 1..LRU_COUNT : m.roots[x].lru[i] = s
      <4>1. CASE x = r
        BY <1>5, <3>1, <4>1
      <4>2. CASE x # r
        BY <1>2, <4>2
      <4> QED
        BY <4>1, <4>2
    <3> QED
      BY <1>2, <3>2 DEF InList
  <2>2. AsDefault(R, s) <=> AsDefault(m.roots, s)
    BY <1>1, <1>2 DEF AsDefault
  <2> QED
    BY <2>1, <2>2 DEF OneIf
<1>7. rr2 \in [Roots -> Nat] /\ External(rr2) = External(rr) \cup {r} /\ r \notin External(rr)
  BY <1>1 DEF External
<1>8. Counted(n, References(n.roots, sr), External(rr2))
  <2> DEFINE need == References(m.roots, sr)
  <2>1. /\ need \in [Searches -> Nat] /\ IsFiniteSet(DOMAIN m.searches) /\ External(rr) \subseteq DOMAIN m.roots
        /\ \A s \in Searches : need[s] # 0 <=> s \in DOMAIN m.searches
        /\ \A s \in DOMAIN m.searches : m.searches[s].refcount = need[s]
        /\ \A x \in DOMAIN m.roots :
             /\ m.roots[x].intcount = Cardinality(Holders(m.searches, x)) + OneIf(x \in External(rr)) + OneIf(x \in {})
             /\ m.roots[x].intcount # 0
    BY DEF Good, Counted, Owing
  <2> HIDE DEF need
  <2>2. Cardinality(Holders(m.searches, r)) = 0
    <3>1. Holders(m.searches, r) = {}
      BY <1>1 DEF Holders
    <3> QED
      BY <3>1, FS_EmptySet
  <2>3. \A x \in DOMAIN n.roots :
             /\ n.roots[x].intcount = Cardinality(Holders(n.searches, x)) + OneIf(x \in External(rr2)) + OneIf(x \in {})
             /\ n.roots[x].intcount # 0
    <3> SUFFICES ASSUME NEW x \in DOMAIN n.roots
                 PROVE  /\ n.roots[x].intcount = Cardinality(Holders(m.searches, x)) + OneIf(x \in External(rr2)) + OneIf(x \in {})
                        /\ n.roots[x].intcount # 0
      BY <1>4
    <3> HIDE DEF rr2
    <3>1. CASE x = r
      BY <1>2, <1>4, <1>7, <2>2, <3>1 DEF OneIf
    <3>2. CASE x # r
      <4>1. x \in DOMAIN m.roots /\ n.roots[x] = m.roots[x] /\ (x \in External(rr2) <=> x \in External(rr))
        BY <1>2, <1>4, <1>7, <3>2
      <4> QED
        BY <2>1, <4>1 DEF OneIf
    <3> QED
      BY <3>1, <3>2
  <2>4. Counted(n, need, External(rr2))
    BY <1>1, <1>2, <1>4, <1>7, <2>1, <2>3 DEF Counted, Owing
  <2> QED
    BY <1>6, <2>4 DEF need
<1>9. Linked(n.roots, n.searches)
  <2>1. Linked(m.roots, m.searches)
    BY DEF Good
  <2>2. LruGood(m.searches, r, R[r].lru) /\ DefaultGood(m.searches, r, R[r].default)
    BY <1>2, <1>5 DEF LruGood, DefaultGood
  <2> QED
    BY <1>2, <1>4, <2>1, <2>2 DEF Linked
<1>10. \A x \in DOMAIN n.roots : n.roots[x].refcount = rr2[x]
  BY <1>1, <1>2, <1>4
<1> QED
  BY <1>1, <1>7, <1>8, <1>9, <1>10 DEF Good, n, R

(* A root of which only the external references change.                    *)
LEMMA RefcountChanges ==
  ASSUME NEW A, A \in [DOMAIN A -> RootRec], NEW r \in DOMAIN A, NEW v \in Nat
  PROVE  LET R == [A EXCEPT ![r].refcount = v]
         IN  /\ DOMAIN R = DOMAIN A /\ R \in [DOMAIN R -> RootRec] /\ R[r].refcount = v
             /\ \A x \in DOMAIN A : /\ x # r => R[x] = A[x]
                                   /\ R[x].lru = A[x].lru /\ R[x].default = A[x].default
                                   /\ R[x].intcount = A[x].intcount
BY DEF RootRec

(* The external references of a root change, and there are some left.      *)
LEMMA RootRefsGood ==
  ASSUME NEW m, NEW rr, NEW sr, Good(m, rr, sr), NEW r \in Roots, rr[r] > 0, NEW v \in Nat, v > 0
  PROVE  Good(WithRoots(m, [m.roots EXCEPT ![r].refcount = v]), [rr EXCEPT ![r] = v], sr)
<1> DEFINE R == [m.roots EXCEPT ![r].refcount = v]
           n == WithRoots(m, R)
           rr2 == [rr EXCEPT ![r] = v]
<1>1. /\ m \in Memories /\ rr \in [Roots -> Nat] /\ sr \in [Searches -> Nat]
      /\ m.roots \in [DOMAIN m.roots -> RootRec] /\ DOMAIN m.roots \subseteq Roots
      /\ m.searches \in [DOMAIN m.searches -> SearchRec] /\ DOMAIN m.searches \subseteq Searches
      /\ m.fault \in BOOLEAN /\ r \in DOMAIN m.roots
      /\ \A x \in DOMAIN m.roots : m.roots[x].refcount = rr[x]
  BY GoodIs, MemoryIs
<1>2. /\ DOMAIN R = DOMAIN m.roots /\ R \in [DOMAIN R -> RootRec] /\ R[r].refcount = v
      /\ \A x \in DOMAIN m.roots : /\ x # r => R[x] = m.roots[x]
                                   /\ R[x].lru = m.roots[x].lru /\ R[x].default = m.roots[x].default
                                   /\ R[x].intcount = m.roots[x].intcount
  BY <1>1, RefcountChanges
<1>3. \A x \in DOMAIN m.roots : R[x].refcount > 0 <=> m.roots[x].refcount > 0
  BY <1>1, <1>2
<1> HIDE DEF R
<1>4. n.roots = R /\ n.searches = m.searches /\ n.fault = m.fault /\ n \in Memories
  BY <1>1, <1>2, IsMemory DEF WithRoots
<1> HIDE DEF n
<1>5. References(R, sr) = References(m.roots, sr)
  <2> SUFFICES ASSUME NEW s \in Searches
               PROVE  /\ OneIf(InList(R, s)) = OneIf(InList(m.roots, s))
                      /\ OneIf(AsDefault(R, s)) = OneIf(AsDefault(m.roots, s))
    BY DEF References
  <2>1. InList(R, s) <=> InList(m.roots, s)
    BY <1>2, <1>3 DEF InList
  <2>2. AsDefault(R, s) <=> AsDefault(m.roots, s)
    BY <1>2 DEF AsDefault
  <2> QED
    BY <2>1, <2>2 DEF OneIf
<1>6. rr2 \in [Roots -> Nat] /\ External(rr2) = External(rr)
  BY <1>1 DEF External
<1>7. Counted(n, References(n.roots, sr), External(rr2))
  <2>1. Counted(m, References(m.roots, sr), External(rr))
    BY DEF Good
  <2> QED
    BY <1>2, <1>4, <1>5, <1>6, <2>1, CountedAlike
<1>8. Linked(n.roots, n.searches)
  <2>1. Linked(m.roots, m.searches)
    BY DEF Good
  <2> QED
    BY <1>2, <1>3, <1>4, <2>1 DEF Linked
<1>9. \A x \in DOMAIN n.roots : n.roots[x].refcount = rr2[x]
  BY <1>1, <1>2, <1>4
<1> QED
  BY <1>1, <1>6, <1>7, <1>8, <1>9 DEF Good, n, R

(* The last external reference of a root: the searches of its list are     *)
(* released, then the root, which survives if a search still holds it.     *)
LEMMA RootLastGood ==
  ASSUME NEW m, NEW rr, NEW sr, Good(m, rr, sr), NEW r \in Roots, rr[r] > 0
  PROVE  Good(LastUnref(WithRoots(m, [m.roots EXCEPT ![r].refcount = 0]), r), [rr EXCEPT ![r] = 0], sr)
<1> DEFINE R == [m.roots EXCEPT ![r].refcount = 0]
           n == WithRoots(m, R)
           rr2 == [rr EXCEPT ![r] = 0]
           list == m.roots[r].lru
           need == References(m.roots, sr)
           less == [s \in Searches |-> need[s] - OneIf(\E i \in 1..LRU_COUNT : list[i] = s)]
           a == UnrefAll(n, list)
           b == internal_unref(a, r)
<1>1. /\ m \in Memories /\ rr \in [Roots -> Nat] /\ sr \in [Searches -> Nat]
      /\ m.roots \in [DOMAIN m.roots -> RootRec] /\ DOMAIN m.roots \subseteq Roots
      /\ m.searches \in [DOMAIN m.searches -> SearchRec] /\ DOMAIN m.searches \subseteq Searches
      /\ m.fault \in BOOLEAN /\ r \in DOMAIN m.roots /\ NoSearch \notin Searches
      /\ \A x \in DOMAIN m.roots : m.roots[x].refcount = rr[x]
      /\ \A x \in Roots : rr[x] > 0 => x \in DOMAIN m.roots
      /\ \A s \in Searches : need[s] # 0 <=> s \in DOMAIN m.searches
  BY GoodIs, MemoryIs
<1>2. /\ DOMAIN R = DOMAIN m.roots /\ R \in [DOMAIN R -> RootRec] /\ R[r].refcount = 0
      /\ \A x \in DOMAIN m.roots : /\ x # r => R[x] = m.roots[x]
                                   /\ R[x].lru = m.roots[x].lru /\ R[x].default = m.roots[x].default
                                   /\ R[x].intcount = m.roots[x].intcount
  <2>1. PICK v \in Nat : v = 0
    OBVIOUS
  <2>2. m.roots \in [DOMAIN m.roots -> RootRec] /\ r \in DOMAIN m.roots
    BY <1>1
  <2> DEFINE Q == [m.roots EXCEPT ![r].refcount = v]
  <2>3. R = Q
    BY <2>1
  <2>4. /\ DOMAIN Q = DOMAIN m.roots /\ Q \in [DOMAIN Q -> RootRec] /\ Q[r].refcount = v
        /\ \A x \in DOMAIN m.roots : /\ x # r => Q[x] = m.roots[x]
                                     /\ Q[x].lru = m.roots[x].lru /\ Q[x].default = m.roots[x].default
                                     /\ Q[x].intcount = m.roots[x].intcount
    BY <2>2, RefcountChanges
  <2> HIDE DEF R, Q
  <2> QED
    BY <2>1, <2>3, <2>4
<1>3. Linked(m.roots, m.searches) /\ Counted(m, need, External(rr))
  BY DEF Good
<1>4. list \in [1..LRU_COUNT -> Pointers] /\ LruGood(m.searches, r, list) /\ m.roots[r].refcount > 0
  BY <1>1, <1>3 DEF Linked, RootRec
<1> HIDE DEF R, need
<1>5. n.roots = R /\ n.searches = m.searches /\ n.fault = m.fault /\ n \in Memories
  BY <1>1, <1>2, IsMemory DEF WithRoots
<1>6. LastUnref(n, r) = b
  BY <1>1, <1>2, <1>5 DEF LastUnref
<1> HIDE DEF n
<1>7. Counted(n, need, External(rr))
  BY <1>2, <1>3, <1>5, CountedAlike
<1> HIDE DEF list
<1>8. /\ \A i \in 1..LRU_COUNT : list[i] # NoSearch => need[list[i]] # 0
      /\ \A i, j \in 1..LRU_COUNT : i < j /\ list[j] # NoSearch => list[i] # list[j]
  BY <1>1, <1>4 DEF LruGood
<1>9. Counted(a, less, External(rr)) /\ Kept(n, a)
  BY <1>4, <1>7, <1>8, UnrefAllCounts
<1>10. less = References(R, sr)
  <2>1. ASSUME NEW s \in Searches
        PROVE  need[s] - OneIf(\E i \in 1..LRU_COUNT : list[i] = s) = sr[s] + OneIf(InList(R, s)) + OneIf(AsDefault(R, s))
    <3>1. need[s] = sr[s] + OneIf(InList(m.roots, s)) + OneIf(AsDefault(m.roots, s))
      BY DEF need, References
    <3>2. AsDefault(R, s) <=> AsDefault(m.roots, s)
      BY <1>2 DEF AsDefault
    <3>3. CASE \E i \in 1..LRU_COUNT : list[i] = s
      <4>1. m.searches[s].root = r
        BY <1>1, <1>4, <3>3 DEF LruGood
      <4>2. InList(m.roots, s)
        BY <1>1, <1>4, <3>3 DEF InList, list
      <4>3. ~InList(R, s)
        <5> SUFFICES ASSUME NEW x \in DOMAIN R, R[x].refcount > 0, NEW i \in 1..LRU_COUNT, R[x].lru[i] = s
                     PROVE  FALSE
          BY DEF InList
        <5>1. x \in DOMAIN m.roots /\ x # r /\ m.roots[x].refcount > 0 /\ m.roots[x].lru[i] = s
          BY <1>2
        <5>2. LruGood(m.searches, x, m.roots[x].lru)
          BY <1>3, <5>1 DEF Linked
        <5> QED
          BY <1>1, <4>1, <5>1, <5>2 DEF LruGood
      <4> QED
        BY <1>1, <3>1, <3>2, <3>3, <4>2, <4>3 DEF OneIf
    <3>4. CASE ~\E i \in 1..LRU_COUNT : list[i] = s
      <4>1. InList(R, s) <=> InList(m.roots, s)
        <5>1. ASSUME NEW x \in DOMAIN R
              PROVE  (R[x].refcount > 0 /\ \E i \in 1..LRU_COUNT : R[x].lru[i] = s)
                       <=> (m.roots[x].refcount > 0 /\ \E i \in 1..LRU_COUNT : m.roots[x].lru[i] = s)
          <6>1. CASE x = r
            BY <1>2, <3>4, <6>1 DEF list
          <6>2. CASE x # r
            BY <1>2, <6>2
          <6> QED
            BY <6>1, <6>2
        <5> QED
          BY <1>2, <5>1 DEF InList
      <4> QED
        BY <1>1, <3>1, <3>2, <3>4, <4>1 DEF OneIf
    <3> QED
      BY <3>3, <3>4
  <2> QED
    BY <2>1 DEF References
<1> HIDE DEF a, b, less
<1>11. rr2 \in [Roots -> Nat] /\ External(rr2) = External(rr) \ {r} /\ r \in External(rr)
  BY <1>1 DEF External
<1>12. Owing(a, less, External(rr2), {r})
  <2>1. /\ a \in Memories /\ ~a.fault /\ less \in [Searches -> Nat]
        /\ External(rr) \subseteq DOMAIN a.roots /\ IsFiniteSet(DOMAIN a.searches)
        /\ \A s \in Searches : less[s] # 0 <=> s \in DOMAIN a.searches
        /\ \A s \in DOMAIN a.searches : a.searches[s].refcount = less[s] /\ a.searches[s].root \in DOMAIN a.roots
        /\ \A x \in DOMAIN a.roots :
             /\ a.roots[x].intcount = Cardinality(Holders(a.searches, x)) + OneIf(x \in External(rr)) + OneIf(x \in {})
             /\ a.roots[x].intcount # 0
    BY <1>9 DEF Counted, Owing
  <2>2. \A x : Cardinality(Holders(a.searches, x)) \in Nat
    BY <2>1, HoldersAre
  <2> HIDE DEF rr2
  <2>3. \A x \in DOMAIN a.roots :
          a.roots[x].intcount = Cardinality(Holders(a.searches, x)) + OneIf(x \in External(rr2)) + OneIf(x \in {r})
    BY <1>11, <2>1, <2>2 DEF OneIf
  <2> QED
    BY <1>11, <2>1, <2>3 DEF Owing
<1>13. Counted(b, less, External(rr2)) /\ Kept(a, b)
  BY <1>12, InternalUnrefCounts DEF b
<1>14. Kept(n, b) /\ b \in Memories
  BY <1>9, <1>13, KeptThrough DEF Counted, Owing
<1>15. Linked(n.roots, n.searches)
  BY <1>2, <1>3, <1>5 DEF Linked
<1>16. \A x \in DOMAIN n.roots : n.roots[x].refcount > 0 => x \in External(rr2)
  BY <1>1, <1>2, <1>5, <1>11 DEF External
<1>17. Linked(b.roots, b.searches) /\ Counted(b, References(b.roots, sr), External(rr2))
  BY <1>1, <1>5, <1>10, <1>13, <1>14, <1>15, <1>16, Survivors
<1>18. \A x \in DOMAIN b.roots : b.roots[x].refcount = rr2[x]
  BY <1>1, <1>2, <1>5, <1>14 DEF Kept, SameRoot
<1>19. Good(b, rr2, sr)
  BY <1>1, <1>11, <1>17, <1>18 DEF Good
<1> QED
  BY <1>6, <1>19 DEF n, R

(* A client releases a search.                                             *)
LEMMA SearchUnrefGood ==
  ASSUME NEW m, NEW rr, NEW sr, Good(m, rr, sr), NEW s \in Searches, sr[s] > 0
  PROVE  Good(locale_search_unref(m, s), rr, [sr EXCEPT ![s] = @ - 1])
<1> DEFINE n == locale_search_unref(m, s)
           sr2 == [sr EXCEPT ![s] = @ - 1]
           need == References(m.roots, sr)
<1>1. /\ m \in Memories /\ rr \in [Roots -> Nat] /\ sr \in [Searches -> Nat]
      /\ DOMAIN m.roots \subseteq Roots
      /\ \A x \in DOMAIN m.roots : m.roots[x].refcount = rr[x]
      /\ Counted(m, need, External(rr)) /\ Linked(m.roots, m.searches)
  BY GoodIs DEF Good
<1>2. sr2 \in [Searches -> Nat] /\ \A x \in Searches : sr2[x] = sr[x] - OneIf(x = s)
  BY <1>1 DEF OneIf
<1>3. need[s] # 0 /\ \A x \in Searches : need[x] = sr[x] + OneIf(InList(m.roots, x)) + OneIf(AsDefault(m.roots, x))
  BY <1>1 DEF References, OneIf
<1> HIDE DEF n, need, sr2
<1>4. Counted(n, [need EXCEPT ![s] = @ - 1], External(rr)) /\ Kept(m, n)
  BY <1>1, <1>3, SearchUnrefCounts DEF n
<1>5. [need EXCEPT ![s] = @ - 1] = References(m.roots, sr2)
  <2>1. need \in [Searches -> Nat]
    BY <1>1 DEF Counted, Owing
  <2>2. \A x \in Searches : [need EXCEPT ![s] = @ - 1][x] = need[x] - OneIf(x = s)
    BY <2>1 DEF OneIf
  <2>3. \A x \in Searches : OneIf(InList(m.roots, x)) \in Nat /\ OneIf(AsDefault(m.roots, x)) \in Nat /\ OneIf(x = s) \in Nat
    BY DEF OneIf
  <2>4. \A x \in Searches : [need EXCEPT ![s] = @ - 1][x] = sr2[x] + OneIf(InList(m.roots, x)) + OneIf(AsDefault(m.roots, x))
    BY <1>1, <1>2, <1>3, <2>2, <2>3
  <2> QED
    BY <2>1, <2>4 DEF References
<1>6. n \in Memories
  BY <1>4 DEF Counted, Owing
<1>7. \A x \in DOMAIN m.roots : m.roots[x].refcount > 0 => x \in External(rr)
  BY <1>1 DEF External
<1>8. Linked(n.roots, n.searches) /\ Counted(n, References(n.roots, sr2), External(rr))
  BY <1>1, <1>2, <1>4, <1>5, <1>6, <1>7, Survivors
<1>9. \A x \in DOMAIN n.roots : n.roots[x].refcount = rr[x]
  BY <1>1, <1>4 DEF Kept, SameRoot
<1> QED
  BY <1>1, <1>2, <1>8, <1>9 DEF Good, n, sr2

(* A client takes a reference to a search.                                 *)
LEMMA SearchAddrefGood ==
  ASSUME NEW m, NEW rr, NEW sr, Good(m, rr, sr), NEW s \in Searches, s \in DOMAIN m.searches
  PROVE  Good(locale_search_addref(m, s), rr, [sr EXCEPT ![s] = @ + 1])
<1> DEFINE n == locale_search_addref(m, s)
           sr2 == [sr EXCEPT ![s] = @ + 1]
           need == References(m.roots, sr)
<1>1. /\ m \in Memories /\ rr \in [Roots -> Nat] /\ sr \in [Searches -> Nat]
      /\ \A x \in DOMAIN m.roots : m.roots[x].refcount = rr[x]
      /\ Counted(m, need, External(rr)) /\ Linked(m.roots, m.searches)
      /\ need[s] # 0
  <2>1. need[s] # 0 /\ m \in Memories
    BY GoodIs
  <2> HIDE DEF need
  <2> QED
    BY <2>1 DEF Good, need
<1>2. sr2 \in [Searches -> Nat] /\ \A x \in Searches : sr2[x] = sr[x] + OneIf(x = s)
  BY <1>1 DEF OneIf
<1>3. \A x \in Searches : need[x] = sr[x] + OneIf(InList(m.roots, x)) + OneIf(AsDefault(m.roots, x))
  BY DEF References
<1> HIDE DEF n, need, sr2
<1>4. /\ Counted(n, [need EXCEPT ![s] = @ + 1], External(rr)) /\ Kept(m, n)
      /\ n.roots = m.roots /\ DOMAIN n.searches = DOMAIN m.searches
  BY <1>1, SearchAddrefCounts, ZenonT(60) DEF n
<1>5. [need EXCEPT ![s] = @ + 1] = References(m.roots, sr2)
  <2>1. need \in [Searches -> Nat]
    BY <1>1 DEF Counted, Owing
  <2>2. \A x \in Searches : [need EXCEPT ![s] = @ + 1][x] = need[x] + OneIf(x = s)
    BY <2>1 DEF OneIf
  <2>3. \A x \in Searches : OneIf(InList(m.roots, x)) \in Nat /\ OneIf(AsDefault(m.roots, x)) \in Nat /\ OneIf(x = s) \in Nat
    BY DEF OneIf
  <2>4. \A x \in Searches : [need EXCEPT ![s] = @ + 1][x] = sr2[x] + OneIf(InList(m.roots, x)) + OneIf(AsDefault(m.roots, x))
    BY <1>1, <1>2, <1>3, <2>2, <2>3
  <2> QED
    BY <2>1, <2>4 DEF References
<1>6. Linked(n.roots, n.searches)
  <2> SUFFICES ASSUME NEW r \in DOMAIN m.roots
               PROVE  /\ m.roots[r].refcount > 0 => LruGood(n.searches, r, m.roots[r].lru)
                      /\ DefaultGood(n.searches, r, m.roots[r].default)
    BY <1>4 DEF Linked
  <2>1. \A x \in DOMAIN m.searches : n.searches[x].root = m.searches[x].root /\ n.searches[x].list = m.searches[x].list
    BY <1>4 DEF Kept, SameSearch
  <2>2. /\ m.roots[r].refcount > 0 => LruGood(m.searches, r, m.roots[r].lru)
        /\ DefaultGood(m.searches, r, m.roots[r].default)
    BY <1>1 DEF Linked
  <2>3. ASSUME NEW lru, LruGood(m.searches, r, lru) PROVE LruGood(n.searches, r, lru)
    BY <1>4, <2>1, <2>3 DEF LruGood
  <2> QED
    BY <1>4, <2>1, <2>2, <2>3 DEF DefaultGood
<1> QED
  BY <1>1, <1>2, <1>4, <1>5, <1>6 DEF Good, n, sr2

(* A root of which one field changes.                                      *)
LEMMA RootChanges ==
  ASSUME NEW A, A \in [DOMAIN A -> RootRec], NEW r \in DOMAIN A
  PROVE  /\ \A d \in Pointers :
              LET R == [A EXCEPT ![r].default = d]
              IN  /\ DOMAIN R = DOMAIN A /\ R \in [DOMAIN R -> RootRec] /\ R[r].default = d
                  /\ R[r].lru = A[r].lru /\ R[r].refcount = A[r].refcount /\ R[r].intcount = A[r].intcount
                  /\ \A x \in DOMAIN A : x # r => R[x] = A[x]
         /\ \A l \in [1..LRU_COUNT -> Pointers] :
              LET R == [A EXCEPT ![r].lru = l]
              IN  /\ DOMAIN R = DOMAIN A /\ R \in [DOMAIN R -> RootRec] /\ R[r].lru = l
                  /\ R[r].default = A[r].default /\ R[r].refcount = A[r].refcount /\ R[r].intcount = A[r].intcount
                  /\ \A x \in DOMAIN A : x # r => R[x] = A[x]
BY DEF RootRec

(* The default search of a root changes: the new one is referenced before  *)
(* the old one is released, which may be the same.                         *)
LEMMA SetDefaultGood ==
  ASSUME NEW m, NEW rr, NEW sr, Good(m, rr, sr), NEW r \in Roots, rr[r] > 0, NEW d \in Pointers,
         d # NoSearch => d \in DOMAIN m.searches /\ m.searches[d].root = r
  PROVE  LET k == IF d = NoSearch THEN m ELSE locale_search_addref(m, d)
             w == WithRoots(k, [m.roots EXCEPT ![r].default = d])
         IN  k.roots = m.roots /\ k \in Memories /\ Good(locale_search_unref(w, m.roots[r].default), rr, sr)
<1> DEFINE k == IF d = NoSearch THEN m ELSE locale_search_addref(m, d)
           R == [m.roots EXCEPT ![r].default = d]
           w == WithRoots(k, R)
           old == m.roots[r].default
           n == locale_search_unref(w, old)
           need == References(m.roots, sr)
           needk == [s \in Searches |-> need[s] + OneIf(s = d)]
           c(s) == sr[s] + OneIf(InList(m.roots, s))
<1>1. /\ m \in Memories /\ rr \in [Roots -> Nat] /\ sr \in [Searches -> Nat]
      /\ m.roots \in [DOMAIN m.roots -> RootRec] /\ DOMAIN m.roots \subseteq Roots
      /\ \A x \in DOMAIN m.roots : m.roots[x].refcount = rr[x]
      /\ r \in DOMAIN m.roots /\ NoSearch \notin Searches
      /\ DOMAIN m.searches \subseteq Searches
  BY GoodIs
<1>2. Counted(m, need, External(rr)) /\ Linked(m.roots, m.searches)
  BY DEF Good
<1>3. /\ need \in [Searches -> Nat] /\ \A s \in Searches : need[s] # 0 <=> s \in DOMAIN m.searches
      /\ \A s \in Searches : need[s] = c(s) + OneIf(AsDefault(m.roots, s))
  <2>1. need \in [Searches -> Nat] /\ \A s \in Searches : need[s] # 0 <=> s \in DOMAIN m.searches
    BY <1>2 DEF Counted, Owing
  <2> QED
    BY <2>1 DEF References
<1> HIDE DEF need
<1>4. Counted(k, needk, External(rr)) /\ Kept(m, k) /\ k.roots = m.roots /\ DOMAIN k.searches = DOMAIN m.searches
  <2>1. CASE d = NoSearch
    <3>1. needk = need
      BY <1>1, <1>3, <2>1 DEF OneIf
    <3>2. Kept(m, m)
      BY DEF Kept, SameRoot, SameSearch
    <3> HIDE DEF needk
    <3> QED
      BY <1>2, <2>1, <3>1, <3>2
  <2>2. CASE d # NoSearch
    <3>1. d \in Searches /\ need[d] # 0 /\ k = locale_search_addref(m, d)
      BY <1>1, <1>3, <2>2
    <3>2. needk = [need EXCEPT ![d] = @ + 1]
      <4> HIDE DEF k
      <4>1. \A s \in Searches : need[s] + OneIf(s = d) = [need EXCEPT ![d] = @ + 1][s]
        BY <1>3, <3>1 DEF OneIf
      <4>2. need \in [Searches -> Nat]
        BY <1>3
      <4> QED
        BY <3>1, <4>1, <4>2
    <3> HIDE DEF needk, k
    <3> QED
      BY <1>2, <3>1, <3>2, SearchAddrefCounts
  <2> QED
    BY <2>1, <2>2
<1>5. k \in Memories
  BY <1>4 DEF Counted, Owing
<1>6. \A s \in DOMAIN m.searches : k.searches[s].root = m.searches[s].root /\ k.searches[s].list = m.searches[s].list
  BY <1>4 DEF Kept, SameSearch
<1> HIDE DEF k
<1>7. /\ DOMAIN R = DOMAIN m.roots /\ R \in [DOMAIN R -> RootRec] /\ R[r].default = d
      /\ R[r].lru = m.roots[r].lru /\ R[r].refcount = m.roots[r].refcount /\ R[r].intcount = m.roots[r].intcount
      /\ \A x \in DOMAIN m.roots : x # r => R[x] = m.roots[x]
  BY SMTT(30), <1>1, RootChanges
<1> HIDE DEF R
<1>8. w.roots = R /\ w.searches = k.searches /\ w.fault = k.fault /\ w \in Memories
  <2>1. /\ k.searches \in [DOMAIN k.searches -> SearchRec] /\ DOMAIN k.searches \subseteq Searches /\ k.fault \in BOOLEAN
    BY <1>5, MemoryIs
  <2> QED
    BY <1>1, <1>7, <2>1, IsMemory DEF WithRoots
<1> HIDE DEF w
<1>9. Counted(w, needk, External(rr))
  <2> HIDE DEF needk
  <2>1. \A x \in DOMAIN w.roots : w.roots[x].intcount = k.roots[x].intcount
    BY <1>4, <1>7, <1>8
  <2> QED
    BY <1>4, <1>7, <1>8, <2>1, CountedAlike
<1>10. Linked(w.roots, w.searches)
  <2> SUFFICES ASSUME NEW x \in DOMAIN m.roots
               PROVE  /\ R[x].refcount > 0 => LruGood(k.searches, x, R[x].lru)
                      /\ DefaultGood(k.searches, x, R[x].default)
    BY <1>7, <1>8 DEF Linked
  <2>1. /\ m.roots[x].refcount > 0 => LruGood(m.searches, x, m.roots[x].lru)
        /\ DefaultGood(m.searches, x, m.roots[x].default)
    BY <1>2 DEF Linked
  <2>2. R[x].refcount = m.roots[x].refcount /\ R[x].lru = m.roots[x].lru
    BY <1>7
  <2>3. ASSUME NEW lru, LruGood(m.searches, x, lru) PROVE LruGood(k.searches, x, lru)
    BY <1>4, <1>6, <2>3 DEF LruGood
  <2>4. DefaultGood(k.searches, x, R[x].default)
    BY <1>4, <1>6, <1>7, <2>1 DEF DefaultGood
  <2> QED
    BY <2>1, <2>2, <2>3, <2>4
<1>11. old \in Pointers
  BY <1>1 DEF RootRec
<1>12. \A s \in Searches : needk[s] = References(R, sr)[s] + OneIf(s = old)
  <2> SUFFICES ASSUME NEW s \in Searches
               PROVE  need[s] + OneIf(s = d) = References(R, sr)[s] + OneIf(s = old)
    OBVIOUS
  <2>1. References(R, sr)[s] = c(s) + OneIf(AsDefault(R, s)) /\ c(s) \in Nat
    <3>1. InList(R, s) <=> InList(m.roots, s)
      <4>1. \A x \in DOMAIN m.roots : R[x].refcount = m.roots[x].refcount /\ R[x].lru = m.roots[x].lru
        BY <1>7
      <4> QED
        BY <1>7, <4>1 DEF InList
    <3> QED
      BY <1>1, <3>1 DEF References, OneIf
  <2>2. \A x \in DOMAIN m.roots : m.roots[x].default = s => m.searches[s].root = x
    BY <1>1, <1>2 DEF Linked, DefaultGood
  <2>3. s = d => m.searches[s].root = r
    BY <1>1
  <2> HIDE DEF c
  <2>4. OneIf(AsDefault(m.roots, s)) + OneIf(s = d) = OneIf(AsDefault(R, s)) + OneIf(s = old)
    <3>1. s = old => AsDefault(m.roots, s)
      BY <1>1 DEF AsDefault
    <3>2. s = d => AsDefault(R, s)
      BY <1>1, <1>7 DEF AsDefault
    <3>3. s = d /\ s # old => ~AsDefault(m.roots, s)
      BY <2>2, <2>3 DEF AsDefault
    <3>4. s = old /\ s # d => ~AsDefault(R, s)
      BY <1>1, <1>7, <2>2 DEF AsDefault
    <3>5. s # old /\ s # d => (AsDefault(R, s) <=> AsDefault(m.roots, s))
      BY <1>7 DEF AsDefault
    <3> HIDE DEF old
    <3> QED
      BY <3>1, <3>2, <3>3, <3>4, <3>5 DEF OneIf
  <2>5. OneIf(AsDefault(m.roots, s)) \in Nat /\ OneIf(AsDefault(R, s)) \in Nat /\ OneIf(s = d) \in Nat /\ OneIf(s = old) \in Nat
    BY DEF OneIf
  <2> QED
    BY <1>3, <2>1, <2>4, <2>5
<1>13. Counted(n, References(R, sr), External(rr)) /\ Kept(w, n)
  <2>1. needk \in [Searches -> Nat] /\ References(R, sr) \in [Searches -> Int]
    BY <1>1, <1>3 DEF OneIf, References
  <2>2. CASE old = NoSearch
    <3>1. n = w
      BY <1>8, <1>11, <2>2, SearchUnrefIs
    <3>2. needk = References(R, sr)
      <4>1. \A s \in Searches : needk[s] = References(R, sr)[s]
        BY <1>1, <1>12, <2>1, <2>2 DEF OneIf
      <4> HIDE DEF needk
      <4> QED
        BY <2>1, <4>1
    <3>3. Kept(w, w)
      BY DEF Kept, SameRoot, SameSearch
    <3> HIDE DEF needk, n
    <3> QED
      BY <1>9, <3>1, <3>2, <3>3
  <2>3. CASE old # NoSearch
    <3>1. old \in Searches
      BY <1>11, <2>3 DEF Pointers
    <3>2. AsDefault(m.roots, old)
      BY <1>1 DEF AsDefault
    <3>3. need[old] # 0
      BY <1>1, <1>3, <3>1, <3>2 DEF OneIf
    <3>4. needk[old] # 0
      BY <1>3, <3>1, <3>3 DEF OneIf
    <3> HIDE DEF needk, old
    <3>5. [needk EXCEPT ![old] = @ - 1] = References(R, sr)
      <4>1. \A s \in Searches : [needk EXCEPT ![old] = @ - 1][s] = References(R, sr)[s]
        BY <1>12, <2>1, <3>1 DEF OneIf
      <4> QED
        BY <2>1, <4>1
    <3> QED
      BY <1>9, <3>1, <3>4, <3>5, SearchUnrefCounts
  <2> QED
    BY <2>2, <2>3
<1> HIDE DEF n, needk
<1>14. n \in Memories
  BY <1>13 DEF Counted, Owing
<1>15. \A x \in DOMAIN w.roots : w.roots[x].refcount = rr[x] /\ (w.roots[x].refcount > 0 => x \in External(rr))
  BY <1>1, <1>7, <1>8 DEF External
<1>16. Linked(n.roots, n.searches) /\ Counted(n, References(n.roots, sr), External(rr))
  BY <1>1, <1>8, <1>10, <1>13, <1>14, <1>15, Survivors
<1>17. \A x \in DOMAIN n.roots : n.roots[x].refcount = rr[x]
  BY <1>13, <1>15 DEF Kept, SameRoot
<1>18. Good(n, rr, sr)
  BY <1>1, <1>16, <1>17 DEF Good
<1> QED
  BY <1>4, <1>5, <1>18 DEF k, w, n, R

(* A list l that has s in front, and those before i shifted.               *)
InFront(l, lru, s, i) ==
  /\ l \in [1..LRU_COUNT -> Pointers] /\ l[1] = s
  /\ \A j \in 1..LRU_COUNT : j # 1 /\ j <= i => l[j] = lru[j - 1] /\ j - 1 \in 1..LRU_COUNT
  /\ \A j \in 1..LRU_COUNT : j > i => l[j] = lru[j]

(* The list with a search in front.                                        *)
LEMMA ToFrontIs ==
  ASSUME NEW lru \in [1..LRU_COUNT -> Pointers], NEW s \in Pointers, NEW i \in 1..LRU_COUNT
  PROVE  InFront(ToFront(lru, s, i), lru, s, i)
<1>1. LRU_COUNT \in Nat /\ 1 \in 1..LRU_COUNT /\ DOMAIN lru = 1..LRU_COUNT
  BY LocaleAssumption
<1>2. \A j \in 1..LRU_COUNT : j # 1 => j - 1 \in 1..LRU_COUNT
  BY <1>1
<1>3. \A j \in 1..LRU_COUNT : j > i => j # 1
  BY <1>1
<1> DEFINE l == ToFront(lru, s, i)
<1>4. l = [j \in 1..LRU_COUNT |-> IF j = 1 THEN s ELSE IF j <= i THEN lru[j - 1] ELSE lru[j]]
  BY <1>1 DEF ToFront
<1> HIDE DEF l
<1>5. \A j \in 1..LRU_COUNT : (IF j = 1 THEN s ELSE IF j <= i THEN lru[j - 1] ELSE lru[j]) \in Pointers
  BY <1>2
<1>6. l \in [1..LRU_COUNT -> Pointers]
  BY <1>4, <1>5
<1>7. \A j \in 1..LRU_COUNT : j > i => ~(j <= i)
  BY <1>1
<1> QED
  BY <1>1, <1>2, <1>3, <1>4, <1>6, <1>7 DEF InFront, l

(* The list of a root takes another order.                                 *)
LEMMA FoundGood ==
  ASSUME NEW m, NEW rr, NEW sr, Good(m, rr, sr), NEW r \in Roots, rr[r] > 0,
         NEW i \in 1..LRU_COUNT, m.roots[r].lru[i] # NoSearch
  PROVE  LET n == WithRoots(m, [m.roots EXCEPT ![r].lru = ToFront(m.roots[r].lru, m.roots[r].lru[i], i)])
         IN  Good(n, rr, sr) /\ n.searches = m.searches /\ m.roots[r].lru[i] \in DOMAIN m.searches
<1> DEFINE lru == m.roots[r].lru
           l == ToFront(lru, lru[i], i)
           R == [m.roots EXCEPT ![r].lru = l]
           n == WithRoots(m, R)
<1>1. /\ m \in Memories /\ rr \in [Roots -> Nat] /\ sr \in [Searches -> Nat]
      /\ m.roots \in [DOMAIN m.roots -> RootRec] /\ DOMAIN m.roots \subseteq Roots
      /\ m.searches \in [DOMAIN m.searches -> SearchRec] /\ DOMAIN m.searches \subseteq Searches
      /\ m.fault \in BOOLEAN
      /\ \A x \in DOMAIN m.roots : m.roots[x].refcount = rr[x]
      /\ r \in DOMAIN m.roots
  BY GoodIs, MemoryIs
<1>2. Counted(m, References(m.roots, sr), External(rr)) /\ Linked(m.roots, m.searches)
  BY DEF Good
<1>3. lru \in [1..LRU_COUNT -> Pointers]
  BY <1>1 DEF RootRec
<1>4. LruGood(m.searches, r, lru)
  BY <1>1, <1>2 DEF Linked
<1> HIDE DEF lru
<1>5. /\ l \in [1..LRU_COUNT -> Pointers] /\ l[1] = lru[i]
      /\ \A j \in 1..LRU_COUNT : j # 1 /\ j <= i => l[j] = lru[j - 1] /\ j - 1 \in 1..LRU_COUNT
      /\ \A j \in 1..LRU_COUNT : j > i => l[j] = lru[j]
  <2>1. lru[i] \in Pointers
    BY <1>3
  <2>2. InFront(l, lru, lru[i], i)
    BY <1>3, <2>1, ToFrontIs
  <2> HIDE DEF l
  <2> QED
    BY <2>2 DEF InFront
<1> HIDE DEF l
<1>6. LRU_COUNT \in Nat
  BY LocaleAssumption
(* Each place of the new list has the content of a place of the old one,   *)
(* and different places of different ones.                                 *)
<1> DEFINE from == [j \in 1..LRU_COUNT |-> IF j = 1 THEN i ELSE IF j <= i THEN j - 1 ELSE j]
<1>7. /\ \A j \in 1..LRU_COUNT : from[j] \in 1..LRU_COUNT /\ l[j] = lru[from[j]]
      /\ \A j, k \in 1..LRU_COUNT : from[j] = from[k] => j = k
      /\ \A j \in 1..LRU_COUNT : \E k \in 1..LRU_COUNT : from[k] = j
      /\ \A j, k \in 1..LRU_COUNT : j < k => from[j] < from[k] \/ from[j] = i
  <2>1. \A j \in 1..LRU_COUNT : from[j] \in 1..LRU_COUNT /\ l[j] = lru[from[j]]
    BY <1>5, <1>6
  <2>2. \A j, k \in 1..LRU_COUNT : from[j] = from[k] => j = k
    BY <1>6
  <2>3. ASSUME NEW j \in 1..LRU_COUNT PROVE \E k \in 1..LRU_COUNT : from[k] = j
    <3>1. CASE j = i
      <4>1. 1 \in 1..LRU_COUNT /\ from[1] = j
        BY <1>6, <3>1
      <4> QED
        BY <4>1
    <3>2. CASE j < i
      <4>1. j + 1 \in 1..LRU_COUNT /\ from[j + 1] = j
        BY <1>6, <3>2
      <4> QED
        BY <4>1
    <3>3. CASE j > i
      <4>1. from[j] = j
        BY <1>6, <3>3
      <4> QED
        BY <4>1
    <3> QED
      BY <1>6, <3>1, <3>2, <3>3
  <2>4. \A j, k \in 1..LRU_COUNT : j < k => from[j] < from[k] \/ from[j] = i
    BY <1>6
  <2> QED
    BY <2>1, <2>2, <2>3, <2>4
<1> HIDE DEF from
<1>8. LruGood(m.searches, r, l)
  <2> DEFINE S == m.searches
  <2>1. /\ \A j \in 1..LRU_COUNT : lru[j] # NoSearch => lru[j] \in DOMAIN S /\ S[lru[j]].root = r
        /\ \A j, k \in 1..LRU_COUNT :
             j < k /\ lru[k] # NoSearch => lru[j] # NoSearch /\ lru[j] # lru[k] /\ S[lru[j]].list # S[lru[k]].list
    BY <1>4 DEF LruGood
  <2> HIDE DEF S
  <2>2. \A j \in 1..LRU_COUNT : l[j] # NoSearch => l[j] \in DOMAIN S /\ S[l[j]].root = r
    BY <1>7, <2>1
  <2>3. lru[i] # NoSearch
    BY DEF lru
  <2>4. \A j, k \in 1..LRU_COUNT : j # k /\ lru[j] # NoSearch /\ lru[k] # NoSearch =>
             lru[j] # lru[k] /\ S[lru[j]].list # S[lru[k]].list
    BY <1>6, <2>1
  <2>5. ASSUME NEW j \in 1..LRU_COUNT, NEW k \in 1..LRU_COUNT, j < k, l[k] # NoSearch
        PROVE  l[j] # NoSearch /\ l[j] # l[k] /\ S[l[j]].list # S[l[k]].list
    <3>1. from[j] \in 1..LRU_COUNT /\ from[k] \in 1..LRU_COUNT /\ l[j] = lru[from[j]] /\ l[k] = lru[from[k]]
      BY <1>7
    <3>2. from[j] # from[k]
      BY <1>6, <1>7, <2>5
    <3>3. lru[from[j]] # NoSearch
      BY <1>7, <2>1, <2>3, <2>5, <3>1
    <3> QED
      BY <2>4, <2>5, <3>1, <3>2, <3>3
  <2> QED
    BY <2>2, <2>5 DEF LruGood, S
<1>9. /\ DOMAIN R = DOMAIN m.roots /\ R \in [DOMAIN R -> RootRec] /\ R[r].lru = l
      /\ R[r].default = m.roots[r].default /\ R[r].refcount = m.roots[r].refcount /\ R[r].intcount = m.roots[r].intcount
      /\ \A x \in DOMAIN m.roots : x # r => R[x] = m.roots[x]
  <2>1. m.roots \in [DOMAIN m.roots -> RootRec] /\ r \in DOMAIN m.roots /\ l \in [1..LRU_COUNT -> Pointers]
    BY <1>1, <1>5
  <2> QED
    BY <2>1, RootChanges
<1> HIDE DEF R
<1>10. n.roots = R /\ n.searches = m.searches /\ n.fault = m.fault /\ n \in Memories
  BY <1>1, <1>9, IsMemory DEF WithRoots
<1> HIDE DEF n
<1>11. References(R, sr) = References(m.roots, sr)
  <2> SUFFICES ASSUME NEW s \in Searches
               PROVE  /\ OneIf(InList(R, s)) = OneIf(InList(m.roots, s))
                      /\ OneIf(AsDefault(R, s)) = OneIf(AsDefault(m.roots, s))
    BY DEF References
  <2>1. InList(R, s) <=> InList(m.roots, s)
    <3>1. (\E j \in 1..LRU_COUNT : l[j] = s) <=> (\E j \in 1..LRU_COUNT : lru[j] = s)
      <4>1. /\ \A j \in 1..LRU_COUNT : from[j] \in 1..LRU_COUNT /\ l[j] = lru[from[j]]
            /\ \A j \in 1..LRU_COUNT : \E k \in 1..LRU_COUNT : from[k] = j
        BY <1>7
      <4>2. ASSUME NEW j \in 1..LRU_COUNT, l[j] = s PROVE \E k \in 1..LRU_COUNT : lru[k] = s
        BY <4>1, <4>2
      <4>3. ASSUME NEW j \in 1..LRU_COUNT, lru[j] = s PROVE \E k \in 1..LRU_COUNT : l[k] = s
        <5>1. PICK k \in 1..LRU_COUNT : from[k] = j
          BY <4>1
        <5> QED
          BY <4>1, <4>3, <5>1
      <4> QED
        BY <4>2, <4>3
    <3>2. ASSUME NEW x \in DOMAIN m.roots
          PROVE  (R[x].refcount > 0 /\ \E j \in 1..LRU_COUNT : R[x].lru[j] = s)
                   <=> (m.roots[x].refcount > 0 /\ \E j \in 1..LRU_COUNT : m.roots[x].lru[j] = s)
      <4>1. CASE x = r
        BY <1>9, <3>1, <4>1 DEF lru
      <4>2. CASE x # r
        BY <1>9, <4>2
      <4> QED
        BY <4>1, <4>2
    <3> QED
      BY <1>9, <3>2 DEF InList
  <2>2. AsDefault(R, s) <=> AsDefault(m.roots, s)
    <3>1. \A x \in DOMAIN m.roots : R[x].default = m.roots[x].default
      BY <1>9
    <3> QED
      BY <1>9, <3>1 DEF AsDefault
  <2> QED
    BY <2>1, <2>2 DEF OneIf
<1>12. Counted(n, References(n.roots, sr), External(rr))
  <2>1. \A x \in DOMAIN n.roots : n.roots[x].intcount = m.roots[x].intcount
    BY <1>9, <1>10
  <2> QED
    BY <1>2, <1>9, <1>10, <1>11, <2>1, CountedAlike
<1>13. Linked(n.roots, n.searches)
  <2> SUFFICES ASSUME NEW x \in DOMAIN m.roots
               PROVE  /\ R[x].refcount > 0 => LruGood(m.searches, x, R[x].lru)
                      /\ DefaultGood(m.searches, x, R[x].default)
    BY <1>9, <1>10 DEF Linked
  <2>1. CASE x = r
    BY <1>2, <1>8, <1>9, <2>1 DEF Linked
  <2>2. CASE x # r
    BY <1>2, <1>9, <2>2 DEF Linked
  <2> QED
    BY <2>1, <2>2
<1>14. \A x \in DOMAIN n.roots : n.roots[x].refcount = rr[x]
  BY <1>1, <1>9, <1>10
<1>15. Good(n, rr, sr)
  BY <1>1, <1>12, <1>13, <1>14 DEF Good
<1>16. lru[i] \in DOMAIN m.searches
  BY <1>4 DEF LruGood, lru
<1> QED
  BY <1>10, <1>15, <1>16 DEF n, R, l, lru

(* The memory m in which the root r has the list l.                        *)
Relisted(m, r, l) == WithRoots(m, [m.roots EXCEPT ![r].lru = l])

(* A new search is put in front of the list of its root, and the last one  *)
(* of the list is released.                                                *)
LEMMA NewGood ==
  ASSUME NEW m, NEW rr, NEW sr, Good(m, rr, sr), NEW r \in Roots, rr[r] > 0,
         NEW list \in Lists, NEW s \in Searches, s \notin DOMAIN m.searches,
         \A i \in 1..LRU_COUNT : m.roots[r].lru[i] # NoSearch => m.searches[m.roots[r].lru[i]].list # list
  PROVE  LET lru == m.roots[r].lru
             a == locale_search_unref(create_search(m, r, s, list), lru[LRU_COUNT])
             n == Relisted(a, r, ToFront(lru, s, LRU_COUNT))
         IN  /\ a \in Memories /\ r \in DOMAIN a.roots /\ a.roots[r].lru = lru
             /\ Good(n, rr, sr) /\ s \in DOMAIN n.searches
<1> DEFINE lru == m.roots[r].lru
           old == lru[LRU_COUNT]
           c == create_search(m, r, s, list)
           a == locale_search_unref(c, old)
           l == ToFront(lru, s, LRU_COUNT)
           n == WithRoots(a, [a.roots EXCEPT ![r].lru = l])
           d == WithRoots(c, [c.roots EXCEPT ![r].lru = l])
           need == References(m.roots, sr)
           needc == [need EXCEPT ![s] = @ + 1]
           needa == [x \in Searches |-> needc[x] - OneIf(x = old)]
<1>1. /\ m \in Memories /\ rr \in [Roots -> Nat] /\ sr \in [Searches -> Nat]
      /\ m.roots \in [DOMAIN m.roots -> RootRec] /\ DOMAIN m.roots \subseteq Roots
      /\ DOMAIN m.searches \subseteq Searches
      /\ \A x \in DOMAIN m.roots : m.roots[x].refcount = rr[x]
      /\ r \in DOMAIN m.roots /\ NoSearch \notin Searches
  BY GoodIs
<1>2. Counted(m, need, External(rr)) /\ Linked(m.roots, m.searches)
  BY DEF Good
<1>3. /\ need \in [Searches -> Nat] /\ \A x \in Searches : need[x] # 0 <=> x \in DOMAIN m.searches
      /\ \A x \in Searches : need[x] = sr[x] + OneIf(InList(m.roots, x)) + OneIf(AsDefault(m.roots, x))
  <2>1. need \in [Searches -> Nat] /\ \A x \in Searches : need[x] # 0 <=> x \in DOMAIN m.searches
    BY <1>2 DEF Counted, Owing
  <2> QED
    BY <2>1 DEF References
<1> HIDE DEF need
<1>4. lru \in [1..LRU_COUNT -> Pointers] /\ LRU_COUNT \in Nat /\ LRU_COUNT \in 1..LRU_COUNT /\ 1 \in 1..LRU_COUNT
  BY <1>1, LocaleAssumption DEF RootRec
<1>5. LruGood(m.searches, r, lru) /\ m.roots[r].refcount > 0
  BY <1>1, <1>2 DEF Linked
<1>6. \A i \in 1..LRU_COUNT : lru[i] # NoSearch => m.searches[lru[i]].list # list
  OBVIOUS
<1>7. /\ Counted(c, needc, External(rr))
      /\ DOMAIN c.roots = DOMAIN m.roots /\ \A x \in DOMAIN c.roots : SameRoot(c.roots[x], m.roots[x])
      /\ DOMAIN c.searches = DOMAIN m.searches \cup {s} /\ \A x \in DOMAIN m.searches : c.searches[x] = m.searches[x]
      /\ c.searches[s].root = r /\ c.searches[s].list = list
  <2>1. Counted(c, needc, External(rr)) /\ Created(c, m, r, s, list)
    BY <1>1, <1>2, CreateCounts
  <2> HIDE DEF lru, c, needc, needa, a, d, n, l, old
  <2> QED
    BY <2>1 DEF Created
<1> HIDE DEF lru, c
<1>8. /\ c \in Memories /\ c.roots \in [DOMAIN c.roots -> RootRec] /\ DOMAIN c.roots \subseteq Roots
      /\ c.searches \in [DOMAIN c.searches -> SearchRec] /\ DOMAIN c.searches \subseteq Searches /\ c.fault \in BOOLEAN
  <2>1. c \in Memories
    BY <1>7 DEF Counted, Owing
  <2> QED
    BY <2>1, MemoryIs
<1>9. needc \in [Searches -> Nat] /\ \A x \in Searches : needc[x] = need[x] + OneIf(x = s)
  BY <1>3 DEF OneIf
<1>10. old \in Pointers /\ old # s /\ (old # NoSearch => old \in DOMAIN m.searches /\ needc[old] # 0)
  <2>1. old \in Pointers /\ (old # NoSearch => old \in DOMAIN m.searches)
    BY <1>4, <1>5 DEF LruGood
  <2> HIDE DEF needc, old
  <2> QED
    BY <1>1, <1>3, <1>9, <2>1 DEF OneIf
<1> HIDE DEF needc, old
<1>11. Counted(a, needa, External(rr)) /\ Kept(c, a)
  <2>1. CASE old = NoSearch
    <3>1. a = c
      BY <1>8, <1>10, <2>1, SearchUnrefIs
    <3>2. \A x \in Searches : needc[x] - OneIf(x = old) = needc[x]
      BY <1>1, <1>9, <2>1 DEF OneIf
    <3>3. needa = needc
      BY <1>9, <3>2
    <3>4. Kept(c, c)
      BY DEF Kept, SameRoot, SameSearch
    <3> HIDE DEF needa, a
    <3> QED
      BY <1>7, <3>1, <3>3, <3>4
  <2>2. CASE old # NoSearch
    <3>1. old \in Searches
      BY <1>10, <2>2 DEF Pointers
    <3>2. needa = [needc EXCEPT ![old] = @ - 1]
      <4>1. \A x \in Searches : needc[x] - OneIf(x = old) = [needc EXCEPT ![old] = @ - 1][x]
        BY <1>9, <3>1 DEF OneIf
      <4> QED
        BY <1>9, <3>1, <4>1
    <3> HIDE DEF needa
    <3> QED
      BY <1>7, <1>10, <2>2, <3>1, <3>2, SearchUnrefCounts
  <2> QED
    BY <2>1, <2>2
<1>12. /\ a \in Memories /\ a.roots \in [DOMAIN a.roots -> RootRec] /\ DOMAIN a.roots \subseteq Roots
       /\ a.searches \in [DOMAIN a.searches -> SearchRec] /\ DOMAIN a.searches \subseteq Searches /\ a.fault \in BOOLEAN
       /\ External(rr) \subseteq DOMAIN a.roots
  <2>1. a \in Memories /\ External(rr) \subseteq DOMAIN a.roots
    BY <1>11 DEF Counted, Owing
  <2> QED
    BY <2>1, MemoryIs
<1> HIDE DEF a
<1>13. r \in DOMAIN a.roots /\ a.roots[r].lru = lru
  <2>1. r \in External(rr)
    BY DEF External
  <2> QED
    BY <1>7, <1>11, <1>12, <2>1 DEF Kept, SameRoot, lru
<1>14. InFront(l, lru, s, LRU_COUNT)
  BY <1>4, ToFrontIs DEF Pointers
<1> HIDE DEF l
<1>15. /\ l \in [1..LRU_COUNT -> Pointers] /\ l[1] = s
       /\ \A j \in 1..LRU_COUNT : j # 1 => l[j] = lru[j - 1] /\ j - 1 \in 1..LRU_COUNT
  BY <1>4, <1>14 DEF InFront
<1>16. LruGood(c.searches, r, l)
  <2>1. /\ \A j \in 1..LRU_COUNT : lru[j] # NoSearch =>
             /\ lru[j] \in DOMAIN m.searches /\ c.searches[lru[j]].root = r /\ lru[j] # s
             /\ c.searches[lru[j]].list = m.searches[lru[j]].list /\ c.searches[lru[j]].list # list
        /\ \A j, k \in 1..LRU_COUNT :
             j < k /\ lru[k] # NoSearch => /\ lru[j] # NoSearch /\ lru[j] # lru[k]
                                           /\ m.searches[lru[j]].list # m.searches[lru[k]].list
    BY <1>5, <1>6, <1>7 DEF LruGood
  <2>2. \A j \in 1..LRU_COUNT : l[j] # NoSearch => l[j] \in DOMAIN c.searches /\ c.searches[l[j]].root = r
    BY <1>7, <1>15, <2>1
  <2>3. ASSUME NEW j \in 1..LRU_COUNT, NEW k \in 1..LRU_COUNT, j < k, l[k] # NoSearch
        PROVE  l[j] # NoSearch /\ l[j] # l[k] /\ c.searches[l[j]].list # c.searches[l[k]].list
    <3>1. k # 1 /\ k - 1 \in 1..LRU_COUNT /\ l[k] = lru[k - 1]
      BY <1>4, <1>15, <2>3
    <3>2. CASE j = 1
      <4>1. l[j] = s /\ s # NoSearch
        BY <1>1, <1>15, <3>2
      <4>2. lru[k - 1] # s /\ c.searches[lru[k - 1]].list # list
        BY <2>1, <2>3, <3>1
      <4> QED
        BY <1>7, <3>1, <4>1, <4>2
    <3>3. CASE j # 1
      <4>1. l[j] = lru[j - 1] /\ j - 1 \in 1..LRU_COUNT /\ j - 1 < k - 1
        BY <1>4, <1>15, <2>3, <3>3
      <4>2. lru[j - 1] # NoSearch /\ lru[j - 1] # lru[k - 1] /\ m.searches[lru[j - 1]].list # m.searches[lru[k - 1]].list
        BY <2>1, <2>3, <3>1, <4>1
      <4> QED
        BY <2>1, <2>3, <3>1, <4>1, <4>2
    <3> QED
      BY <3>2, <3>3
  <2> QED
    BY <2>2, <2>3 DEF LruGood
<1> DEFINE R == [c.roots EXCEPT ![r].lru = l]
           Q == [a.roots EXCEPT ![r].lru = l]
<1>17. /\ DOMAIN R = DOMAIN m.roots /\ R \in [DOMAIN R -> RootRec] /\ R[r].lru = l
       /\ \A x \in DOMAIN m.roots : /\ R[x].default = m.roots[x].default /\ R[x].refcount = m.roots[x].refcount
                                    /\ x # r => R[x].lru = m.roots[x].lru
  <2>1. r \in DOMAIN c.roots
    BY <1>1, <1>7
  <2>2. /\ DOMAIN R = DOMAIN c.roots /\ R \in [DOMAIN R -> RootRec] /\ R[r].lru = l
        /\ R[r].default = c.roots[r].default /\ R[r].refcount = c.roots[r].refcount
        /\ \A x \in DOMAIN c.roots : x # r => R[x] = c.roots[x]
    BY <1>8, <1>15, <2>1, RootChanges
  <2> HIDE DEF R
  <2> QED
    BY <1>7, <2>2 DEF SameRoot
<1>18. /\ DOMAIN Q = DOMAIN a.roots /\ Q \in [DOMAIN Q -> RootRec] /\ Q[r].lru = l
       /\ Q[r].default = a.roots[r].default /\ Q[r].refcount = a.roots[r].refcount /\ Q[r].intcount = a.roots[r].intcount
       /\ \A x \in DOMAIN a.roots : x # r => Q[x] = a.roots[x]
  BY <1>12, <1>13, <1>15, RootChanges
<1> HIDE DEF R, Q
<1>19. d.roots = R /\ d.searches = c.searches /\ d \in Memories
  BY <1>1, <1>8, <1>17, IsMemory DEF WithRoots, R
<1>20. n.roots = Q /\ n.searches = a.searches /\ n.fault = a.fault /\ n \in Memories
  BY <1>12, <1>18, IsMemory DEF WithRoots, Q
<1> HIDE DEF d, n
<1>21. Kept(d, n)
  <2>1. \A x \in DOMAIN Q : x \in DOMAIN R /\ SameRoot(Q[x], R[x])
    <3>1. \A x \in DOMAIN a.roots : x \in DOMAIN c.roots /\ SameRoot(a.roots[x], c.roots[x]) /\ SameRoot(c.roots[x], m.roots[x])
      BY <1>7, <1>11 DEF Kept
    <3>2. ASSUME NEW x \in DOMAIN a.roots PROVE SameRoot(Q[x], R[x])
      <4>1. CASE x = r
        BY <1>7, <1>17, <1>18, <3>1, <4>1 DEF SameRoot
      <4>2. CASE x # r
        BY <1>7, <1>17, <1>18, <3>1, <4>2 DEF SameRoot
      <4> QED
        BY <4>1, <4>2
    <3> QED
      BY <1>7, <1>17, <1>18, <3>1, <3>2
  <2> QED
    BY <1>11, <1>19, <1>20, <2>1 DEF Kept
<1>22. Linked(d.roots, d.searches)
  <2> SUFFICES ASSUME NEW x \in DOMAIN m.roots
               PROVE  /\ R[x].refcount > 0 => LruGood(c.searches, x, R[x].lru)
                      /\ DefaultGood(c.searches, x, R[x].default)
    BY <1>17, <1>19 DEF Linked
  <2>1. /\ m.roots[x].refcount > 0 => LruGood(m.searches, x, m.roots[x].lru)
        /\ DefaultGood(m.searches, x, m.roots[x].default)
    BY <1>2 DEF Linked
  <2>2. DefaultGood(c.searches, x, R[x].default)
    BY <1>7, <1>17, <2>1 DEF DefaultGood
  <2>3. ASSUME NEW k, LruGood(m.searches, x, k) PROVE LruGood(c.searches, x, k)
    BY <1>7, <2>3 DEF LruGood
  <2>4. CASE x = r
    BY <1>16, <1>17, <2>2, <2>4
  <2>5. CASE x # r
    BY <1>17, <2>1, <2>2, <2>3, <2>5
  <2> QED
    BY <2>4, <2>5
<1>23. needa = References(R, sr)
  <2>1. ASSUME NEW x \in Searches
        PROVE  needc[x] - OneIf(x = old) = sr[x] + OneIf(InList(R, x)) + OneIf(AsDefault(R, x))
    <3>1. AsDefault(R, x) <=> AsDefault(m.roots, x)
      BY <1>17 DEF AsDefault
    <3>2. \A i \in 1..LRU_COUNT : lru[i] = x => m.searches[x].root = r
      BY <1>1, <1>5 DEF LruGood
    <3>3. ASSUME NEW y \in DOMAIN m.roots, y # r, m.searches[x].root = r, m.roots[y].refcount > 0, NEW i \in 1..LRU_COUNT
          PROVE  m.roots[y].lru[i] # x
      <4>1. LruGood(m.searches, y, m.roots[y].lru)
        BY <1>2, <3>3 DEF Linked
      <4> QED
        BY <1>1, <3>3, <4>1 DEF LruGood
    <3>4. CASE x = s
      <4>1. InList(R, x)
        BY <1>1, <1>4, <1>5, <1>15, <1>17, <3>4 DEF InList
      <4>2. ~InList(m.roots, x)
        BY <1>1, <1>3, <3>4 DEF OneIf
      <4> QED
        BY <1>1, <1>3, <1>9, <1>10, <3>1, <3>4, <4>1, <4>2 DEF OneIf
    <3>5. CASE x = old
      <4>1. InList(m.roots, x)
        BY <1>1, <1>4, <1>5, <3>5 DEF InList, old, lru
      <4>2. m.searches[x].root = r
        BY <1>4, <3>2, <3>5 DEF old
      <4>3. \A i \in 1..LRU_COUNT : l[i] # x
        <5> SUFFICES ASSUME NEW i \in 1..LRU_COUNT, l[i] = x PROVE FALSE
          OBVIOUS
        <5>1. i # 1
          BY <1>10, <1>15, <3>5
        <5>2. l[i] = lru[i - 1] /\ i - 1 \in 1..LRU_COUNT /\ i - 1 < LRU_COUNT
          BY <1>4, <1>15, <5>1
        <5>3. lru[LRU_COUNT] = x /\ x # NoSearch
          BY <1>1, <3>5 DEF old
        <5> QED
          BY <1>4, <1>5, <5>2, <5>3 DEF LruGood
      <4>4. ~InList(R, x)
        <5> SUFFICES ASSUME NEW y \in DOMAIN m.roots, R[y].refcount > 0, NEW i \in 1..LRU_COUNT, R[y].lru[i] = x
                     PROVE  FALSE
          BY <1>17 DEF InList
        <5>1. CASE y = r
          BY <1>17, <4>3, <5>1
        <5>2. CASE y # r
          BY <1>17, <3>3, <4>2, <5>2
        <5> QED
          BY <5>1, <5>2
      <4> QED
        BY <1>1, <1>3, <1>9, <1>10, <3>1, <3>5, <4>1, <4>4 DEF OneIf
    <3>6. CASE x # s /\ x # old
      <4>1. (\E i \in 1..LRU_COUNT : l[i] = x) <=> (\E i \in 1..LRU_COUNT : lru[i] = x)
        <5>1. ASSUME NEW i \in 1..LRU_COUNT, l[i] = x PROVE \E j \in 1..LRU_COUNT : lru[j] = x
          BY <1>15, <3>6, <5>1
        <5>2. ASSUME NEW i \in 1..LRU_COUNT, lru[i] = x PROVE \E j \in 1..LRU_COUNT : l[j] = x
          <6>1. i # LRU_COUNT
            BY <3>6, <5>2 DEF old
          <6>2. i + 1 \in 1..LRU_COUNT /\ i + 1 # 1 /\ (i + 1) - 1 = i
            BY <1>4, <6>1
          <6>3. l[i + 1] = lru[i]
            BY <1>15, <6>2
          <6> QED
            BY <5>2, <6>2, <6>3
        <5> QED
          BY <5>1, <5>2
      <4>2. ASSUME NEW y \in DOMAIN m.roots
            PROVE  (R[y].refcount > 0 /\ \E i \in 1..LRU_COUNT : R[y].lru[i] = x)
                     <=> (m.roots[y].refcount > 0 /\ \E i \in 1..LRU_COUNT : m.roots[y].lru[i] = x)
        <5>1. CASE y = r
          BY <1>17, <4>1, <5>1 DEF lru
        <5>2. CASE y # r
          BY <1>17, <5>2
        <5> QED
          BY <5>1, <5>2
      <4>3. InList(R, x) <=> InList(m.roots, x)
        BY <1>17, <4>2 DEF InList
      <4> QED
        BY <1>1, <1>3, <1>9, <3>1, <3>6, <4>3 DEF OneIf
    <3> QED
      BY <3>4, <3>5, <3>6
  <2> QED
    BY <2>1 DEF References
<1> HIDE DEF needa
<1>24. Counted(n, References(d.roots, sr), External(rr))
  <2>1. \A x \in DOMAIN n.roots : n.roots[x].intcount = a.roots[x].intcount
    BY <1>18, <1>20
  <2> QED
    BY <1>11, <1>18, <1>19, <1>20, <1>23, <2>1, CountedAlike
<1>25. \A x \in DOMAIN d.roots : d.roots[x].refcount = rr[x] /\ (d.roots[x].refcount > 0 => x \in External(rr))
  BY <1>1, <1>17, <1>19 DEF External
<1>26. Linked(n.roots, n.searches) /\ Counted(n, References(n.roots, sr), External(rr))
  BY <1>1, <1>19, <1>20, <1>21, <1>22, <1>24, <1>25, Survivors
<1>27. \A x \in DOMAIN n.roots : n.roots[x].refcount = rr[x]
  BY <1>21, <1>25 DEF Kept, SameRoot
<1>28. Good(n, rr, sr)
  BY <1>1, <1>26, <1>27 DEF Good
<1>29. s \in DOMAIN n.searches
  <2>1. needa[s] # 0
    BY <1>3, <1>9, <1>10 DEF OneIf, needa
  <2> QED
    BY <1>11, <1>20, <2>1 DEF Counted, Owing
<1> QED
  BY <1>12, <1>13, <1>28, <1>29 DEF Relisted, a, c, n, Q, l, lru, old
-----------------------------------------------------------------------------
(* The operations preserve the invariant.                                  *)

(* What a function leaves is the next memory.                              *)
LEMMA EffectIs ==
  ASSUME NEW n \in Memories, Effect(n)
  PROVE  Memory' = n
<1>1. n = [roots |-> n.roots, searches |-> n.searches, fault |-> n.fault]
  BY MemoryIs
<1>2. Memory' = [roots |-> roots', searches |-> searches', fault |-> fault']
  BY DEF Memory
<1> QED
  BY <1>1, <1>2 DEF Effect

(* The memory of the state has the parts of the state.                     *)
LEMMA MemoryParts ==
  Memory.roots = roots /\ Memory.searches = searches /\ Memory.fault = fault
BY DEF Memory

(* An external reference of a root less.                                   *)
LEMMA RefcountIs ==
  ASSUME NEW m \in Memories, NEW r
  PROVE  [m EXCEPT !.roots[r].refcount = @ - 1]
           = WithRoots(m, [m.roots EXCEPT ![r].refcount = m.roots[r].refcount - 1])
BY MemoryIs DEF WithRoots

(* Nothing is made yet.                                                    *)
LEMMA InitGood ==
  ASSUME LocaleInit
  PROVE  LocaleInv
<1>1. /\ DOMAIN roots = {} /\ DOMAIN searches = {} /\ fault = FALSE
      /\ rootRefs \in [Roots -> Nat] /\ searchRefs \in [Searches -> Nat]
      /\ \A r \in Roots : rootRefs[r] = 0
      /\ \A s \in Searches : searchRefs[s] = 0
      /\ roots \in [{} -> RootRec] /\ searches \in [{} -> SearchRec]
  BY DEF LocaleInit
<1>2. Memory \in Memories
  BY <1>1, IsMemory DEF Memory
<1>3. References(roots, searchRefs) = [s \in Searches |-> 0]
  BY <1>1 DEF References, InList, AsDefault, OneIf
<1>4. External(rootRefs) = {}
  BY <1>1 DEF External
<1>5. IsFiniteSet({})
  BY FS_EmptySet
<1>6. Counted(Memory, [s \in Searches |-> 0], {})
  BY <1>1, <1>2, <1>5, MemoryParts DEF Counted, Owing
<1> QED
  BY <1>1, <1>3, <1>4, <1>6, MemoryParts DEF LocaleInv, Good, Linked

(* locale_root_create.                                                     *)
LEMMA CreateStep ==
  ASSUME LocaleInv, NEW r \in Roots, locale_root_create(r)
  PROVE  LocaleInv'
<1> DEFINE R == [x \in DOMAIN roots \cup {r} |->
                 IF x = r THEN [refcount |-> 1, intcount |-> 1, lru |-> [i \in 1..LRU_COUNT |-> NoSearch],
                                default |-> NoSearch]
                 ELSE roots[x]]
<1>1. Good(WithRoots(Memory, R), [rootRefs EXCEPT ![r] = 1], searchRefs)
  BY RootCreateGood, MemoryParts DEF LocaleInv, locale_root_create
<1>2. Memory' = WithRoots(Memory, R)
  BY DEF locale_root_create, Memory, WithRoots
<1> HIDE DEF R
<1> QED
  BY <1>1, <1>2 DEF LocaleInv, locale_root_create

(* locale_root_addref.                                                     *)
LEMMA AddrefStep ==
  ASSUME LocaleInv, NEW r \in Roots, locale_root_addref(r)
  PROVE  LocaleInv'
<1> DEFINE v == rootRefs[r] + 1
           R == [roots EXCEPT ![r].refcount = v]
<1>1. /\ rootRefs \in [Roots -> Nat] /\ r \in DOMAIN roots /\ roots[r].refcount = rootRefs[r]
      /\ rootRefs[r] > 0 /\ v \in Nat /\ v > 0
  BY GoodIs, MemoryParts DEF LocaleInv, locale_root_addref
<1>2. Good(WithRoots(Memory, R), [rootRefs EXCEPT ![r] = v], searchRefs)
  <2> HIDE DEF v
  <2> QED
    BY <1>1, RootRefsGood, MemoryParts DEF LocaleInv
<1>3. Memory' = WithRoots(Memory, R) /\ rootRefs' = [rootRefs EXCEPT ![r] = v]
  BY <1>1 DEF locale_root_addref, Memory, WithRoots
<1> HIDE DEF R, v
<1> QED
  BY <1>2, <1>3 DEF LocaleInv, locale_root_addref

(* locale_root_unref.                                                      *)
LEMMA UnrefStep ==
  ASSUME LocaleInv, NEW r \in Roots, locale_root_unref(r)
  PROVE  LocaleInv'
<1> DEFINE v == rootRefs[r] - 1
           m == [Memory EXCEPT !.roots[r].refcount = @ - 1]
           n == WithRoots(Memory, [roots EXCEPT ![r].refcount = v])
           e == IF m.roots[r].refcount = 0 THEN LastUnref(m, r) ELSE m
           rr == [rootRefs EXCEPT ![r] = v]
<1>1. /\ rootRefs \in [Roots -> Nat] /\ r \in DOMAIN roots /\ roots[r].refcount = rootRefs[r]
      /\ rootRefs[r] > 0 /\ v \in Nat /\ Memory \in Memories
      /\ roots \in [DOMAIN roots -> RootRec]
  BY GoodIs, MemoryParts DEF LocaleInv, locale_root_unref
<1>2. m = n
  BY <1>1, RefcountIs, MemoryParts
<1>3. n.roots[r].refcount = v
  BY <1>1, RefcountChanges DEF WithRoots
<1>4. Good(e, rr, searchRefs)
  <2>1. CASE v = 0
    <3>1. e = LastUnref(n, r)
      BY <1>2, <1>3, <2>1
    <3> HIDE DEF e, m
    <3> QED
      BY <1>1, <2>1, <3>1, RootLastGood, MemoryParts DEF LocaleInv
  <2>2. CASE v # 0
    <3>1. e = n
      BY <1>2, <1>3, <2>2
    <3>2. v > 0
      BY <1>1, <2>2
    <3> HIDE DEF e, m, v
    <3> QED
      BY <1>1, <3>1, <3>2, RootRefsGood, MemoryParts DEF LocaleInv
  <2> QED
    BY <2>1, <2>2
<1>5. Effect(e) /\ rootRefs' = rr /\ searchRefs' = searchRefs
  BY DEF locale_root_unref
<1> HIDE DEF e, rr
<1>6. Memory' = e
  BY <1>4, <1>5, GoodIs, EffectIs
<1> QED
  BY <1>4, <1>5, <1>6 DEF LocaleInv

(* locale_search_addref, called by a client.                               *)
LEMMA SearchAddrefStep ==
  ASSUME LocaleInv, NEW s \in Searches, search_addref(s)
  PROVE  LocaleInv'
<1> DEFINE n == locale_search_addref(Memory, s)
<1>1. s \in DOMAIN searches /\ Good(Memory, rootRefs, searchRefs)
  <2>1. Good(Memory, rootRefs, searchRefs)
    BY DEF LocaleInv
  <2>2. searchRefs[s] \in Nat /\ searchRefs[s] > 0
    BY <2>1, GoodIs DEF search_addref
  <2> QED
    BY <2>1, <2>2, GoodIs, MemoryParts
<1>2. Good(n, rootRefs, [searchRefs EXCEPT ![s] = @ + 1])
  BY <1>1, SearchAddrefGood, MemoryParts
<1>3. Effect(n) /\ rootRefs' = rootRefs /\ searchRefs' = [searchRefs EXCEPT ![s] = @ + 1]
  BY DEF search_addref
<1> HIDE DEF n
<1>4. Memory' = n
  BY <1>2, <1>3, GoodIs, EffectIs
<1> QED
  BY <1>2, <1>3, <1>4 DEF LocaleInv

(* locale_search_unref, called by a client.                                *)
LEMMA SearchUnrefStep ==
  ASSUME LocaleInv, NEW s \in Searches, search_unref(s)
  PROVE  LocaleInv'
<1> DEFINE n == locale_search_unref(Memory, s)
<1>1. Good(n, rootRefs, [searchRefs EXCEPT ![s] = @ - 1])
  BY SearchUnrefGood DEF LocaleInv, search_unref
<1>2. Effect(n) /\ rootRefs' = rootRefs /\ searchRefs' = [searchRefs EXCEPT ![s] = @ - 1]
  BY DEF search_unref
<1> HIDE DEF n
<1>3. Memory' = n
  BY <1>1, <1>2, GoodIs, EffectIs
<1> QED
  BY <1>1, <1>2, <1>3 DEF LocaleInv

(* locale_root_set_default_search.                                         *)
LEMMA SetDefaultStep ==
  ASSUME LocaleInv, NEW r \in Roots, NEW s \in Pointers, locale_root_set_default_search(r, s)
  PROVE  LocaleInv'
<1> DEFINE kept == IF s = NoSearch THEN Memory ELSE locale_search_addref(Memory, s)
           w == WithRoots(kept, [roots EXCEPT ![r].default = s])
           n == locale_search_unref(w, roots[r].default)
<1>1. /\ Good(Memory, rootRefs, searchRefs) /\ rootRefs[r] > 0
      /\ s # NoSearch => s \in DOMAIN searches /\ searches[s].root = r
  <2>1. Good(Memory, rootRefs, searchRefs)
    BY DEF LocaleInv
  <2>2. \A x \in Searches : searchRefs[x] > 0 => x \in DOMAIN searches
    BY <2>1, GoodIs, MemoryParts
  <2> QED
    BY <2>1, <2>2 DEF locale_root_set_default_search, Pointers
<1>2. kept.roots = roots /\ kept \in Memories /\ Good(n, rootRefs, searchRefs)
  BY <1>1, SetDefaultGood, MemoryParts
<1>3. Effect(n) /\ rootRefs' = rootRefs /\ searchRefs' = searchRefs
  <2>1. [kept EXCEPT !.roots[r].default = s] = w
    <3>1. kept = [roots |-> kept.roots, searches |-> kept.searches, fault |-> kept.fault] /\ kept.roots = roots
      BY <1>2, MemoryIs
    <3> HIDE DEF kept
    <3> QED
      BY <3>1 DEF WithRoots
  <2>2. Effect(locale_search_unref([kept EXCEPT !.roots[r].default = s], roots[r].default))
    BY DEF locale_root_set_default_search
  <2> QED
    BY <2>1, <2>2 DEF locale_root_set_default_search
<1> HIDE DEF n
<1>4. Memory' = n
  BY <1>2, <1>3, GoodIs, EffectIs
<1> QED
  BY <1>2, <1>3, <1>4 DEF LocaleInv

(* The least of a set of positions.                                        *)
LEMMA LeastIs ==
  ASSUME NEW n \in Nat, NEW I \in SUBSET (1..n), I # {}
  PROVE  Min(I) \in I /\ \A y \in I : Min(I) <= y
<1>1. I \subseteq Nat
  OBVIOUS
<1>2. PICK x \in I : \A y \in I : ~(<<y, x>> \in OpToRel(<, Nat))
  BY <1>1, NatLessThanWellFounded, WFMin
<1>3. \A y \in I : x <= y
  <2> SUFFICES ASSUME NEW y \in I, ~(x <= y) PROVE FALSE
    OBVIOUS
  <2>1. <<y, x>> \in OpToRel(<, Nat)
    BY <1>1 DEF OpToRel
  <2> QED
    BY <1>2, <2>1
<1> QED
  BY <1>3 DEF Min

(* Where the search of a list is in the list of a root.                    *)
LEMMA MatchIs ==
  ASSUME LocaleInv, NEW r \in Roots, rootRefs[r] > 0, NEW list
  PROVE  LET i == search_matches(r, list)
             lru == roots[r].lru
         IN  /\ i # 0 => i \in 1..LRU_COUNT /\ lru[i] # NoSearch /\ searches[lru[i]].list = list
             /\ i = 0 => \A j \in 1..LRU_COUNT : lru[j] # NoSearch => searches[lru[j]].list # list
<1> DEFINE lru == roots[r].lru
           I == {j \in 1..Len(lru) : lru[j] # NoSearch /\ lru[j] \in DOMAIN searches /\ searches[lru[j]].list = list}
<1>1. lru \in [1..LRU_COUNT -> Pointers] /\ LRU_COUNT \in Nat /\ LruGood(searches, r, lru)
  <2>1. Good(Memory, rootRefs, searchRefs)
    BY DEF LocaleInv
  <2>2. r \in DOMAIN roots /\ roots \in [DOMAIN roots -> RootRec] /\ roots[r].refcount > 0
    BY <2>1, GoodIs, MemoryParts
  <2>3. Linked(roots, searches)
    BY <2>1, MemoryParts DEF Good
  <2> QED
    BY <2>2, <2>3, LocaleAssumption DEF Linked, RootRec
<1>2. search_matches(r, list) = IF I # {} THEN Min(I) ELSE 0
  BY DEF search_matches, SelectInSeq
<1> HIDE DEF lru
<1>3. Len(lru) = LRU_COUNT
  BY <1>1
<1>4. I \in SUBSET (1..LRU_COUNT)
  BY <1>3
<1>5. \A j \in 1..LRU_COUNT : lru[j] # NoSearch => lru[j] \in DOMAIN searches
  BY <1>1 DEF LruGood
<1>6. \A j \in 1..LRU_COUNT : lru[j] # NoSearch /\ searches[lru[j]].list = list => j \in I
  BY <1>3, <1>5
<1>7. \A j \in I : j \in 1..LRU_COUNT /\ lru[j] # NoSearch /\ searches[lru[j]].list = list
  BY <1>3
<1> HIDE DEF I
<1>8. I # {} => Min(I) \in I
  BY <1>1, <1>4, LeastIs
<1>9. 0 \notin I
  BY <1>4
<1> QED
  BY <1>2, <1>6, <1>7, <1>8, <1>9 DEF lru

(* locale_root_search.                                                     *)
LEMMA SearchStep ==
  ASSUME LocaleInv, NEW r \in Roots, NEW list \in Lists, NEW s \in Pointers, locale_root_search(r, list, s)
  PROVE  LocaleInv'
<1> DEFINE i == search_matches(r, list)
           lru == roots[r].lru
           found == lru[i]
           made == locale_search_unref(create_search(Memory, r, s, list), lru[LRU_COUNT])
           search == IF i # 0 THEN found ELSE s
           place == IF i # 0 THEN i ELSE LRU_COUNT
           base == IF i # 0 THEN Memory ELSE made
           m == [base EXCEPT !.roots[r].lru = ToFront(@, search, place)]
           Counts(x, y) == /\ Effect(locale_search_addref(x, y))
                           /\ searchRefs' = [searchRefs EXCEPT ![y] = @ + 1]
                           /\ rootRefs' = rootRefs
<1>1. /\ rootRefs[r] > 0 /\ s \notin DOMAIN searches
      /\ i # 0 => s = NoSearch
      /\ IF i = 0 /\ s = NoSearch THEN UNCHANGED localeVars ELSE Counts(m, search)
  BY DEF locale_root_search
<1>2. /\ i # 0 => i \in 1..LRU_COUNT /\ found # NoSearch /\ searches[found].list = list
      /\ i = 0 => \A j \in 1..LRU_COUNT : lru[j] # NoSearch => searches[lru[j]].list # list
  BY <1>1, MatchIs
<1>3. Good(Memory, rootRefs, searchRefs) /\ Memory \in Memories
  BY GoodIs DEF LocaleInv
<1>4. ASSUME NEW n, NEW x \in Searches, Good(n, rootRefs, searchRefs), x \in DOMAIN n.searches, Counts(n, x)
      PROVE  LocaleInv'
  <2>1. Good(locale_search_addref(n, x), rootRefs, [searchRefs EXCEPT ![x] = @ + 1])
    BY <1>4, SearchAddrefGood
  <2>2. Memory' = locale_search_addref(n, x)
    BY <1>4, <2>1, GoodIs, EffectIs
  <2> QED
    BY <1>4, <2>1, <2>2 DEF LocaleInv
<1>5. CASE i = 0 /\ s = NoSearch
  BY <1>1, <1>5 DEF LocaleInv, localeVars, Memory
<1>6. CASE i # 0
  <2> DEFINE n == WithRoots(Memory, [roots EXCEPT ![r].lru = ToFront(lru, found, i)])
  <2>1. Good(n, rootRefs, searchRefs) /\ n.searches = searches /\ found \in DOMAIN searches
    BY <1>1, <1>2, <1>3, <1>6, FoundGood, MemoryParts
  <2>2. m = n /\ search = found
    <3>1. base = Memory /\ search = found /\ place = i
      BY <1>6
    <3>2. base = [roots |-> base.roots, searches |-> base.searches, fault |-> base.fault] /\ base.roots = roots
      BY <3>1 DEF Memory
    <3> HIDE DEF base, search, place, found, i
    <3> QED
      BY <3>1, <3>2, MemoryParts DEF WithRoots
  <2>3. found \in Searches
    BY <1>3, <2>1, GoodIs, MemoryParts
  <2>4. Counts(n, found)
    BY <1>1, <1>6, <2>2
  <2> HIDE DEF n, found, Counts
  <2> QED
    BY <1>4, <2>1, <2>3, <2>4
<1>7. CASE i = 0 /\ s # NoSearch
  <2> DEFINE n == Relisted(made, r, ToFront(lru, s, LRU_COUNT))
  <2>1. s \in Searches
    BY <1>7 DEF Pointers
  <2>2. /\ made \in Memories /\ made.roots[r].lru = lru
        /\ Good(n, rootRefs, searchRefs) /\ s \in DOMAIN n.searches
    <3> DEFINE M == Memory
               old == M.roots[r].lru
               a == locale_search_unref(create_search(M, r, s, list), old[LRU_COUNT])
               b == Relisted(a, r, ToFront(old, s, LRU_COUNT))
    <3>1. M.roots = roots /\ M.searches = searches
      BY MemoryParts
    <3>2. s \notin DOMAIN M.searches /\ \A j \in 1..LRU_COUNT : old[j] # NoSearch => M.searches[old[j]].list # list
      BY <1>1, <1>2, <1>7, <3>1
    <3>3. a \in Memories /\ a.roots[r].lru = old /\ Good(b, rootRefs, searchRefs) /\ s \in DOMAIN b.searches
      <4>1. \A j \in 1..LRU_COUNT : M.roots[r].lru[j] # NoSearch => M.searches[M.roots[r].lru[j]].list # list
        BY <3>2
      <4> HIDE DEF M, i, lru, found, made, search, place, base, m, Counts, n
      <4>2. Good(M, rootRefs, searchRefs)
        BY <1>3 DEF M
      <4>3. r \in Roots /\ rootRefs[r] > 0 /\ list \in Lists /\ s \in Searches /\ s \notin DOMAIN M.searches
        BY <1>1, <2>1, <3>2
      <4> QED
        BY SMTT(30), <4>1, <4>2, <4>3, NewGood
    <3>4. old = lru
      BY <3>1
    <3>5. a = made
      BY <3>4
    <3> HIDE DEF a, made, lru, old
    <3>6. b = n
      BY <3>4, <3>5
    <3> QED
      BY <3>3, <3>4, <3>5, <3>6
  <2>3. m = n /\ search = s
    <3>1. base = made /\ search = s /\ place = LRU_COUNT
      BY <1>7
    <3>2. base = [roots |-> base.roots, searches |-> base.searches, fault |-> base.fault]
      BY <2>2, <3>1, MemoryIs
    <3> HIDE DEF base, search, place, made
    <3> QED
      BY <2>2, <3>1, <3>2 DEF WithRoots, Relisted
  <2>4. Counts(n, s)
    BY <1>1, <1>7, <2>3
  <2> HIDE DEF n, Counts
  <2> QED
    BY <1>4, <2>1, <2>2, <2>4
<1> QED
  BY <1>5, <1>6, <1>7

(* Every step.                                                             *)
LEMMA LocaleStep ==
  ASSUME LocaleInv, [LocaleNext]_localeVars
  PROVE  LocaleInv'
<1>1. ASSUME NEW r \in Roots, locale_root_create(r) PROVE LocaleInv'
  BY <1>1, CreateStep
<1>2. ASSUME NEW r \in Roots, locale_root_addref(r) PROVE LocaleInv'
  BY <1>2, AddrefStep
<1>3. ASSUME NEW r \in Roots, locale_root_unref(r) PROVE LocaleInv'
  BY <1>3, UnrefStep
<1>4. ASSUME NEW r \in Roots, NEW list \in Lists, NEW s \in Searches \cup {NoSearch}, locale_root_search(r, list, s)
      PROVE  LocaleInv'
  BY <1>4, SearchStep DEF Pointers
<1>5. ASSUME NEW r \in Roots, NEW s \in Searches \cup {NoSearch}, locale_root_set_default_search(r, s)
      PROVE  LocaleInv'
  BY <1>5, SetDefaultStep DEF Pointers
<1>6. ASSUME NEW s \in Searches, search_addref(s) PROVE LocaleInv'
  BY <1>6, SearchAddrefStep
<1>7. ASSUME NEW s \in Searches, search_unref(s) PROVE LocaleInv'
  BY <1>7, SearchUnrefStep
<1>8. CASE UNCHANGED localeVars
  BY <1>8 DEF LocaleInv, localeVars, Memory
<1> QED
  BY <1>1, <1>2, <1>3, <1>4, <1>5, <1>6, <1>7, <1>8 DEF LocaleNext

-----------------------------------------------------------------------------
(* What the invariant gives.                                               *)

(* The invariant, in the terms of the variables.                           *)
LEMMA InvIs ==
  ASSUME LocaleInv
  PROVE  /\ rootRefs \in [Roots -> Nat] /\ searchRefs \in [Searches -> Nat] /\ ~fault
         /\ DOMAIN roots \subseteq Roots /\ DOMAIN searches \subseteq Searches /\ NoSearch \notin Searches
         /\ \A r \in DOMAIN roots : roots[r] \in RootRec
         /\ External(rootRefs) \subseteq DOMAIN roots /\ IsFiniteSet(DOMAIN searches)
         /\ \A r \in DOMAIN roots :
              /\ roots[r].refcount = rootRefs[r]
              /\ roots[r].intcount = Cardinality(Holders(searches, r)) + OneIf(r \in External(rootRefs))
              /\ roots[r].intcount # 0
         /\ \A s \in DOMAIN searches : /\ searches[s].refcount = References(roots, searchRefs)[s]
                                       /\ searches[s].root \in DOMAIN roots
         /\ \A s \in Searches : References(roots, searchRefs)[s] # 0 <=> s \in DOMAIN searches
         /\ Linked(roots, searches)
<1>1. Good(Memory, rootRefs, searchRefs)
  BY DEF LocaleInv
<1>2. Counted(Memory, References(roots, searchRefs), External(rootRefs)) /\ Linked(roots, searches)
  BY <1>1, MemoryParts DEF Good
<1>3. \A r \in DOMAIN roots : /\ roots[r].intcount = Cardinality(Holders(searches, r)) + OneIf(r \in External(rootRefs)) + OneIf(r \in {})
                              /\ roots[r].intcount # 0
  BY <1>2, MemoryParts DEF Counted, Owing
<1>4. \A r : Cardinality(Holders(searches, r)) \in Nat
  BY <1>2, HoldersAre, MemoryParts DEF Counted, Owing
<1>5. \A r \in DOMAIN roots : roots[r].intcount = Cardinality(Holders(searches, r)) + OneIf(r \in External(rootRefs))
  <2> SUFFICES ASSUME NEW r \in DOMAIN roots
               PROVE  roots[r].intcount = Cardinality(Holders(searches, r)) + OneIf(r \in External(rootRefs))
    OBVIOUS
  <2>1. OneIf(r \in {}) = 0 /\ OneIf(r \in External(rootRefs)) \in Nat
    BY DEF OneIf
  <2> QED
    BY <1>3, <1>4, <2>1
<1>6. External(rootRefs) \subseteq DOMAIN roots /\ IsFiniteSet(DOMAIN searches)
      /\ \A s \in DOMAIN searches : searches[s].refcount = References(roots, searchRefs)[s]
  BY <1>2, MemoryParts DEF Counted, Owing
<1> QED
  BY <1>1, <1>2, <1>3, <1>5, <1>6, GoodIs, MemoryParts

(* What is held is alive.                                                  *)
LEMMA InvHeld ==
  ASSUME LocaleInv
  PROVE  HeldIsAlive
<1>1. \A r \in Roots : rootRefs[r] > 0 => r \in DOMAIN roots
  BY InvIs DEF External
<1>2. \A s \in Searches : searchRefs[s] > 0 => s \in DOMAIN searches
  <2> SUFFICES ASSUME NEW s \in Searches, searchRefs[s] > 0 PROVE References(roots, searchRefs)[s] # 0
    BY InvIs
  <2> QED
    BY InvIs DEF References, OneIf
<1>3. \A r \in DOMAIN roots : roots[r].default # NoSearch => roots[r].default \in DOMAIN searches
  BY InvIs DEF Linked, DefaultGood
<1> QED
  BY <1>1, <1>2, <1>3, InvIs DEF HeldIsAlive

(* A search is in the list of its own root, and the default of its own     *)
(* root, or of none.                                                       *)
LEMMA OwnRoot ==
  ASSUME LocaleInv, NEW s \in DOMAIN searches
  PROVE  /\ InList(roots, s) <=> LET r == roots[searches[s].root]
                                 IN  r.refcount > 0 /\ s \in ToSet(r.lru)
         /\ AsDefault(roots, s) <=> roots[searches[s].root].default = s
<1>1. searches[s].root \in DOMAIN roots /\ s # NoSearch /\ Linked(roots, searches)
  BY InvIs
<1>2. \A r \in DOMAIN roots : roots[r].lru \in [1..LRU_COUNT -> Pointers]
  BY InvIs DEF RootRec
<1>3. \A r \in DOMAIN roots : s \in ToSet(roots[r].lru) <=> \E i \in 1..LRU_COUNT : roots[r].lru[i] = s
  <2> SUFFICES ASSUME NEW r \in DOMAIN roots
               PROVE  s \in ToSet(roots[r].lru) <=> \E i \in 1..LRU_COUNT : roots[r].lru[i] = s
    OBVIOUS
  <2>1. DOMAIN roots[r].lru = 1..LRU_COUNT
    BY <1>2
  <2> QED
    BY <2>1 DEF ToSet
<1>4. ASSUME NEW r \in DOMAIN roots, roots[r].refcount > 0, NEW i \in 1..LRU_COUNT, roots[r].lru[i] = s
      PROVE  searches[s].root = r
  BY <1>1, <1>4 DEF Linked, LruGood
<1>5. ASSUME NEW r \in DOMAIN roots, roots[r].default = s
      PROVE  searches[s].root = r
  BY <1>1, <1>5 DEF Linked, DefaultGood
<1>6. InList(roots, s) <=> \E r \in DOMAIN roots : roots[r].refcount > 0 /\ s \in ToSet(roots[r].lru)
  BY <1>3 DEF InList
<1>7. \A r \in DOMAIN roots : roots[r].refcount > 0 /\ s \in ToSet(roots[r].lru) => searches[s].root = r
  BY <1>3, <1>4
<1> QED
  BY <1>1, <1>5, <1>6, <1>7 DEF AsDefault

(* The counts are exact.                                                   *)
LEMMA InvCounts ==
  ASSUME LocaleInv
  PROVE  LocaleCounts
<1>1. ASSUME NEW s \in DOMAIN searches
      PROVE  LET r == roots[searches[s].root]
             IN searches[s].refcount =
                  searchRefs[s] + (IF r.refcount > 0 /\ s \in ToSet(r.lru) THEN 1 ELSE 0) + (IF r.default = s THEN 1 ELSE 0)
  <2>1. s \in Searches /\ searches[s].refcount = References(roots, searchRefs)[s]
    BY InvIs
  <2>2. searches[s].refcount = searchRefs[s] + OneIf(InList(roots, s)) + OneIf(AsDefault(roots, s))
    BY <2>1 DEF References
  <2> QED
    BY <2>2, OwnRoot DEF OneIf
<1>2. ASSUME NEW r \in DOMAIN roots
      PROVE  roots[r].intcount = Cardinality({s \in DOMAIN searches : searches[s].root = r}) + (IF rootRefs[r] > 0 THEN 1 ELSE 0)
  <2>1. r \in Roots /\ roots[r].intcount = Cardinality(Holders(searches, r)) + OneIf(r \in External(rootRefs))
    BY InvIs
  <2>2. r \in External(rootRefs) <=> rootRefs[r] > 0
    BY <2>1 DEF External
  <2> QED
    BY <2>1, <2>2 DEF Holders, OneIf
<1>3. \A r \in DOMAIN roots : roots[r].refcount = rootRefs[r]
  BY InvIs
<1> QED
  BY <1>1, <1>2, <1>3 DEF LocaleCounts

(* A root that nobody holds is held by a search, which is held by it.      *)
LEMMA InvNothing ==
  ASSUME LocaleInv
  PROVE  NothingLeft
<1> SUFFICES ASSUME \A r \in Roots : rootRefs[r] = 0, \A s \in Searches : searchRefs[s] = 0,
                    NEW r \in DOMAIN roots
             PROVE  roots[r].default # NoSearch
  BY DEF NothingLeft
<1>1. r \notin External(rootRefs) /\ IsFiniteSet(DOMAIN searches)
  BY InvIs DEF External
<1>2. Cardinality(Holders(searches, r)) # 0
  <2>1. roots[r].intcount = Cardinality(Holders(searches, r)) + OneIf(r \in External(rootRefs)) /\ roots[r].intcount # 0
    BY InvIs
  <2>2. Cardinality(Holders(searches, r)) \in Nat
    BY <1>1, HoldersAre
  <2> QED
    BY <1>1, <2>1, <2>2 DEF OneIf
<1>3. PICK s \in DOMAIN searches : searches[s].root = r
  <2>1. Holders(searches, r) # {}
    BY <1>1, <1>2, HoldersAre
  <2> QED
    BY <2>1 DEF Holders
<1>4. s \in Searches /\ s # NoSearch /\ References(roots, searchRefs)[s] # 0
  BY InvIs
<1>5. ~InList(roots, s)
  <2>1. \A x \in DOMAIN roots : roots[x].refcount = 0
    BY InvIs
  <2> QED
    BY <2>1 DEF InList
<1>6. AsDefault(roots, s)
  BY <1>4, <1>5 DEF References, OneIf
<1> QED
  BY <1>3, <1>4, <1>6, OwnRoot

(* The lists.                                                              *)
LEMMA InvLru ==
  ASSUME LocaleInv
  PROVE  LruDistinct
BY InvIs DEF LruDistinct, Linked, LruGood

(* Roots and searches hold each other by exact counts: what the client     *)
(* holds is alive, what nobody uses is freed (but a root and its default   *)
(* search), and the cache gives one search for one list of locales, for    *)
(* every number of roots, searches, lists and places in the cache.         *)
THEOREM LocalesCorrect == LocaleSpec => []LocaleLifetimes
<1>1. LocaleInit => LocaleInv
  BY InitGood
<1>2. LocaleInv /\ [LocaleNext]_localeVars => LocaleInv'
  BY LocaleStep
<1>3. LocaleInv => LocaleLifetimes
  BY InvHeld, InvCounts, InvNothing, InvLru DEF LocaleLifetimes
<1> QED
  BY <1>1, <1>2, <1>3, PTL DEF LocaleSpec

-----------------------------------------------------------------------------
(* The iterators.                                                          *)

(* An iterator, and one that is at its end.                                *)
At(l, st) == [list |-> l, state |-> st, end |-> FALSE]
AtEnd == [list |-> << >>, state |-> "none", end |-> TRUE]

(* The iterator of a list and of a default list at its k-th place.         *)
IterAt(list, default, k) ==
  IF k <= Len(list) THEN At(SubSeq(list, k, Len(list)), "given")
  ELSE IF k <= Len(list) + Len(default) THEN At(SubSeq(default, k - Len(list), Len(default)), "default")
  ELSE IF k = Len(list) + Len(default) + 1 THEN At(<< >>, "none")
  ELSE AtEnd

(* The place of an iterator that is out of the lists.                      *)
Nowhere == PlaceOf(At(<< >>, "none"))

(* An iterator with another list, or at its end.                           *)
Relist(it, l) == [it EXCEPT !.list = l]
Ended(it) == [it EXCEPT !.end = TRUE]

(* An iterator that is given another list.                                 *)
LEMMA RelistIs ==
  ASSUME NEW l, NEW st, NEW x
  PROVE  Relist(At(l, st), x) = At(x, st)
<1>1. PICK e : e = FALSE
  OBVIOUS
<1>2. [[list |-> l, state |-> st, end |-> e] EXCEPT !.list = x] = [list |-> x, state |-> st, end |-> e]
  OBVIOUS
<1> QED
  BY <1>1, <1>2, Zenon DEF Relist, At

(* An iterator that is put at its end.                                     *)
LEMMA EndedIs ==
  Ended(At(<< >>, "none")) = AtEnd /\ Ended(AtEnd) = AtEnd
<1>1. PICK y, l, st, e : y = TRUE /\ l = << >> /\ st = "none" /\ e = FALSE
  OBVIOUS
<1>2. /\ [[list |-> l, state |-> st, end |-> e] EXCEPT !.end = y] = [list |-> l, state |-> st, end |-> y]
      /\ [[list |-> l, state |-> st, end |-> y] EXCEPT !.end = y] = [list |-> l, state |-> st, end |-> y]
  OBVIOUS
<1> QED
  BY <1>1, <1>2, Zenon DEF Ended, At, AtEnd

(* What iter_next does to an iterator.                                     *)
LEMMA NextOf ==
  ASSUME NEW l, Len(l) \in Nat, NEW st, NEW default
  PROVE  /\ Len(l) > 1 => iter_next(At(l, st), default) = At(Tail(l), st)
         /\ ~(Len(l) > 1) /\ st = "given" /\ default # << >> =>
              iter_next(At(l, st), default) = At(default, "default")
         /\ ~(Len(l) > 1) /\ st # "none" /\ ~(st = "given" /\ default # << >>) =>
              iter_next(At(l, st), default) = At(<< >>, "none")
<1> DEFINE it == At(l, st)
<1>1. Len(l) \in Nat
  OBVIOUS
<1>2. it.list = l /\ it.state = st
  BY DEF At
<1> HIDE DEF it
<1>3. CASE Len(l) > 1
  <2>1. Len(it.list) > 1
    BY <1>2, <1>3
  <2>2. iter_next(it, default) = Relist(it, Tail(it.list))
    BY <2>1 DEF iter_next, Relist
  <2>3. PICK x : x = Tail(it.list)
    OBVIOUS
  <2>4. iter_next(it, default) = Relist(it, x)
    BY <2>2, <2>3
  <2>5. Relist(it, x) = At(x, st)
    BY RelistIs DEF it
  <2>6. x = Tail(l)
    BY <1>2, <2>3
  <2> QED
    BY <1>3, <2>4, <2>5, <2>6 DEF it
<1>4. CASE ~(Len(l) > 1) /\ st = "given" /\ default # << >>
  <2>1. iter_next(it, default) = At(default, "default")
    BY <1>1, <1>2, <1>4 DEF iter_next, At
  <2> QED
    BY <1>4, <2>1 DEF it
<1>5. CASE ~(Len(l) > 1) /\ st # "none" /\ ~(st = "given" /\ default # << >>)
  <2>1. iter_next(it, default) = At(<< >>, "none")
    BY <1>1, <1>2, <1>5 DEF iter_next, At
  <2> QED
    BY <1>5, <2>1 DEF it
<1> QED
  BY <1>3, <1>4, <1>5

(* Out of the lists the iterator ends, and stays at its end.               *)
LEMMA NextOfLast ==
  ASSUME NEW default, NEW it, it = At(<< >>, "none") \/ it = AtEnd
  PROVE  iter_next(it, default) = AtEnd
<1>1. it.list = << >> /\ it.state = "none"
  BY DEF At, AtEnd
<1>2. /\ ~(Len(it.list) > 1)
      /\ ~(Len(it.list) <= 1 /\ it.state = "given" /\ default # << >>)
      /\ ~(Len(it.list) <= 1 /\ it.state # "none" /\ ~(it.state = "given" /\ default # << >>))
  BY <1>1
<1>3. iter_next(it, default) = Ended(it)
  BY <1>2 DEF iter_next, Ended
<1> QED
  BY <1>3, EndedIs

(* The head and the tail of a list.                                        *)
LEMMA HeadTail ==
  ASSUME NEW S, NEW s \in Seq(S), Len(s) > 0
  PROVE  /\ Head(s) = s[1] /\ s # << >> /\ Tail(s) \in Seq(S) /\ Len(Tail(s)) = Len(s) - 1
         /\ \A i \in 1..(Len(s) - 1) : Tail(s)[i] = s[i + 1]
OBVIOUS

(* What is left of a list from a place on.                                 *)
LEMMA RestIs ==
  ASSUME NEW V, NEW s \in Seq(V), NEW k \in 1..Len(s)
  PROVE  LET t == SubSeq(s, k, Len(s))
         IN  /\ t \in Seq(V) /\ Len(t) = Len(s) + 1 - k /\ t # << >> /\ Head(t) = s[k]
             /\ k < Len(s) => Tail(t) = SubSeq(s, k + 1, Len(s))
<1> DEFINE t == SubSeq(s, k, Len(s))
           n == Len(s)
<1>1. n \in Nat /\ k \in Nat /\ 1 <= k /\ k <= n
  OBVIOUS
<1>2. t \in Seq(V) /\ Len(t) = n + 1 - k /\ \A i \in 1..(n + 1 - k) : t[i] = s[k + i - 1]
  BY <1>1, SubSeqIs
<1>3. Len(t) > 0 /\ t # << >> /\ Head(t) = s[k]
  <2> HIDE DEF t
  <2>1. Len(t) > 0 /\ t[1] = s[k]
    BY <1>1, <1>2
  <2> QED
    BY <1>2, <2>1, HeadTail
<1>4. ASSUME k < n PROVE Tail(t) = SubSeq(s, k + 1, n)
  <2> DEFINE u == SubSeq(s, k + 1, n)
  <2>1. u \in Seq(V) /\ Len(u) = n - k /\ \A i \in 1..(n - k) : u[i] = s[k + i]
    BY <1>1, <1>4, SubSeqIs
  <2>2. Tail(t) \in Seq(V) /\ Len(Tail(t)) = n - k /\ \A i \in 1..(n - k) : Tail(t)[i] = t[i + 1]
    <3>1. Len(t) - 1 = n - k
      BY <1>1, <1>2
    <3> HIDE DEF t, n
    <3> QED
      BY <1>2, <1>3, <3>1, HeadTail
  <2>3. \A i \in 1..(n - k) : t[i + 1] = s[k + i]
    BY <1>1, <1>2
  <2> HIDE DEF u, t, n
  <2>4. \A i \in 1..(n - k) : Tail(t)[i] = u[i]
    BY <2>1, <2>2, <2>3
  <2>5. Tail(t) = u
    BY <2>1, <2>2, <2>4, SameSeq
  <2> QED
    BY <2>5 DEF u
<1> QED
  BY <1>2, <1>3, <1>4

(* It starts at the first place.                                           *)
LEMMA StartIs ==
  ASSUME NEW V, NEW list \in Seq(V), NEW default \in Seq(V)
  PROVE  iter_init(list, default) = IterAt(list, default, 1)
<1>1. Len(list) \in Nat /\ Len(default) \in Nat
  OBVIOUS
<1>2. \A s \in Seq(V) : SubSeq(s, 1, Len(s)) = s
  OBVIOUS
<1>3. CASE list # << >>
  <2>1. Len(list) >= 1
    BY <1>3
  <2>2. iter_init(list, default) = At(list, "given")
    BY <1>3 DEF iter_init, At
  <2> QED
    BY <1>1, <1>2, <2>1, <2>2 DEF IterAt
<1>4. CASE list = << >> /\ default # << >>
  <2>1. Len(list) = 0 /\ Len(default) >= 1
    BY <1>4
  <2>2. iter_init(list, default) = At(default, "default")
    BY <1>4, <2>1 DEF iter_init, iter_next, At
  <2>3. /\ ~(1 <= Len(list)) /\ 1 <= Len(list) + Len(default) /\ 1 - Len(list) = 1
        /\ SubSeq(default, 1, Len(default)) = default
    BY <1>1, <1>2, <2>1
  <2> QED
    BY <2>2, <2>3 DEF IterAt
<1>5. CASE list = << >> /\ default = << >>
  <2>1. Len(list) = 0 /\ Len(default) = 0
    BY <1>5
  <2>2. iter_init(list, default) = At(<< >>, "none")
    BY <1>5, <2>1 DEF iter_init, iter_next, At
  <2> QED
    BY <2>1, <2>2 DEF IterAt
<1> QED
  BY <1>3, <1>4, <1>5

(* iter_next goes to the next place.                                       *)
LEMMA NextIs ==
  ASSUME NEW V, NEW list \in Seq(V), NEW default \in Seq(V), NEW k \in Nat, k > 0
  PROVE  iter_next(IterAt(list, default, k), default) = IterAt(list, default, k + 1)
<1> DEFINE L == Len(list)
           D == Len(default)
           it == IterAt(list, default, k)
<1>1. L \in Nat /\ D \in Nat /\ (D = 0 <=> default = << >>) /\ SubSeq(default, 1, D) = default
  OBVIOUS
<1>2. CASE k < L
  <2> DEFINE t == SubSeq(list, k, L)
  <2>1. it = At(t, "given")
    BY <1>1, <1>2 DEF IterAt
  <2>2. Len(t) > 1 /\ Tail(t) = SubSeq(list, k + 1, L)
    BY <1>1, <1>2, RestIs
  <2> HIDE DEF t, it
  <2>3. iter_next(it, default) = At(Tail(t), "given")
    BY <2>1, <2>2, <1>1, NextOf
  <2> QED
    <3>1. k + 1 <= L
      BY <1>1, <1>2
    <3> QED
      BY <2>2, <2>3, <3>1 DEF IterAt, it
<1>3. CASE k = L
  <2> DEFINE t == SubSeq(list, k, L)
  <2>1. it = At(t, "given")
    BY <1>1, <1>3 DEF IterAt
  <2>2. Len(t) \in Nat /\ ~(Len(t) > 1)
    BY <1>1, <1>3, RestIs
  <2> HIDE DEF t, it
  <2>3. CASE default # << >>
    <3>1. iter_next(it, default) = At(default, "default")
      BY <2>1, <2>2, <2>3, NextOf
    <3>2. ~(k + 1 <= L) /\ k + 1 <= L + D /\ (k + 1) - L = 1
      BY <1>1, <1>3, <2>3
    <3> QED
      BY <1>1, <3>1, <3>2 DEF IterAt, it
  <2>4. CASE default = << >>
    <3>1. iter_next(it, default) = At(<< >>, "none")
      BY <2>1, <2>2, <2>4, NextOf
    <3>2. ~(k + 1 <= L) /\ ~(k + 1 <= L + D) /\ k + 1 = L + D + 1
      BY <1>1, <1>3, <2>4
    <3> QED
      BY <3>1, <3>2 DEF IterAt, it
  <2> QED
    BY <2>3, <2>4
<1>4. CASE k > L /\ k < L + D
  <2> DEFINE t == SubSeq(default, k - L, D)
  <2>1. it = At(t, "default")
    BY <1>1, <1>4 DEF IterAt
  <2>2. k - L \in 1..D /\ k - L < D /\ (k - L) + 1 = (k + 1) - L
    BY <1>1, <1>4
  <2>3. Len(t) > 1 /\ Tail(t) = SubSeq(default, (k + 1) - L, D)
    BY <1>1, <2>2, RestIs
  <2> HIDE DEF t, it
  <2>4. iter_next(it, default) = At(Tail(t), "default")
    BY <2>1, <2>3, NextOf
  <2> QED
    <3>1. ~(k + 1 <= L) /\ k + 1 <= L + D
      BY <1>1, <1>4
    <3> QED
      BY <2>3, <2>4, <3>1 DEF IterAt, it
<1>5. CASE k > L /\ k = L + D
  <2> DEFINE t == SubSeq(default, k - L, D)
  <2>1. it = At(t, "default")
    BY <1>1, <1>5 DEF IterAt
  <2>2. k - L \in 1..D /\ k - L = D
    BY <1>1, <1>5
  <2>3. Len(t) \in Nat /\ ~(Len(t) > 1)
    BY <1>1, <2>2, RestIs
  <2> HIDE DEF t, it
  <2>4. iter_next(it, default) = At(<< >>, "none")
    BY <2>1, <2>3, NextOf
  <2> QED
    <3>1. ~(k + 1 <= L) /\ ~(k + 1 <= L + D) /\ k + 1 = L + D + 1
      BY <1>1, <1>5
    <3> QED
      BY <2>4, <3>1 DEF IterAt, it
<1>6. CASE k > L + D
  <2>1. it = At(<< >>, "none") \/ it = AtEnd
    BY <1>1, <1>6 DEF IterAt
  <2> HIDE DEF it
  <2>3. iter_next(it, default) = AtEnd
    BY <2>1, NextOfLast
  <2>4. ~(k + 1 <= L) /\ ~(k + 1 <= L + D) /\ k + 1 # L + D + 1
    BY <1>1, <1>6
  <2> QED
    BY <2>3, <2>4 DEF IterAt, it
<1> QED
  BY <1>1, <1>2, <1>3, <1>4, <1>5, <1>6

(* A list, a default list, and the place that is out of them.              *)
LEMMA AllIs ==
  ASSUME NEW V, NEW list \in Seq(V), NEW default \in Seq(V), NEW none \in V
  PROVE  LET all == list \o default \o <<none>>
         IN  /\ all \in Seq(V) /\ Len(all) = Len(list) + Len(default) + 1
             /\ \A k \in 1..Len(list) : all[k] = list[k]
             /\ \A k \in 1..Len(default) : all[Len(list) + k] = default[k]
             /\ all[Len(list) + Len(default) + 1] = none
<1> DEFINE both == list \o default
           L == Len(list)
           D == Len(default)
<1>1. PICK last : last = <<none>>
  OBVIOUS
<1>10. last \in Seq(V) /\ Len(last) = 1 /\ last[1] = none
  BY <1>1
<1>2. /\ both \in Seq(V) /\ Len(both) = L + D /\ L \in Nat /\ D \in Nat
      /\ \A k \in 1..L : both[k] = list[k]
      /\ \A k \in (L + 1)..(L + D) : both[k] = default[k - L]
  BY ConcatIs
<1>3. \A k \in 1..D : L + k \in (L + 1)..(L + D) /\ L + k - L = k /\ L + k \in 1..(L + D)
  BY <1>2
<1>4. \A k \in 1..L : k \in 1..(L + D)
  BY <1>2
<1> DEFINE all == both \o last
<1> HIDE DEF both, L, D
<1>5. /\ all \in Seq(V) /\ Len(all) = L + D + 1
      /\ \A k \in 1..(L + D) : all[k] = both[k]
      /\ \A k \in (L + D + 1)..(L + D + 1) : all[k] = last[k - (L + D)]
  <2>1. \A k \in (Len(both) + 1)..(Len(both) + Len(last)) : all[k] = last[k - Len(both)]
    BY <1>2, <1>10, ConcatIs
  <2>2. all \in Seq(V) /\ Len(all) = Len(both) + Len(last) /\ \A k \in 1..Len(both) : all[k] = both[k]
    BY <1>2, <1>10, ConcatIs
  <2> HIDE DEF all
  <2> QED
    BY <1>2, <1>10, <2>1, <2>2
<1>6. L + D + 1 \in (L + D + 1)..(L + D + 1) /\ (L + D + 1) - (L + D) = 1
  BY <1>2
<1> HIDE DEF all
<1>7. all[L + D + 1] = none
  BY <1>5, <1>6, <1>10
<1>8. \A k \in 1..L : all[k] = list[k]
  BY <1>2, <1>4, <1>5
<1>9. \A k \in 1..D : all[L + k] = default[k]
  <2> SUFFICES ASSUME NEW k \in 1..D PROVE all[L + k] = default[k]
    OBVIOUS
  <2>1. both[L + k] = default[(L + k) - L] /\ (L + k) - L = k
    BY <1>2, <1>3
  <2> QED
    BY <1>3, <1>5, <2>1
<1> QED
  BY <1>1, <1>5, <1>7, <1>8, <1>9 DEF all, both, L, D

(* The places of an iterator are those of its list, of the default list,   *)
(* and the one that is out of them.                                        *)
LEMMA PlacesAre ==
  ASSUME NEW V, NEW list \in Seq(V), NEW default \in Seq(V), Nowhere \in V,
         NEW k \in 1..(Len(list) + Len(default) + 1)
  PROVE  PlaceOf(IterAt(list, default, k)) = (list \o default \o <<Nowhere>>)[k] /\ ~IterAt(list, default, k).end
<1> DEFINE L == Len(list)
           D == Len(default)
           all == list \o default \o <<Nowhere>>
<1>9. /\ \A j \in 1..L : all[j] = list[j]
      /\ \A j \in 1..D : all[L + j] = default[j]
      /\ all[L + D + 1] = Nowhere
  BY AllIs
<1>1. L \in Nat /\ D \in Nat /\ k \in Nat /\ k >= 1 /\ k <= L + D + 1
  OBVIOUS
<1>2. \A l : PlaceOf(At(l, "given")) = IF l = << >> THEN "" ELSE Head(l)
  BY DEF PlaceOf, At
<1>3. \A l : PlaceOf(At(l, "default")) = IF l = << >> THEN "" ELSE Head(l)
  BY DEF PlaceOf, At
<1>4. PlaceOf(At(<< >>, "none")) = Nowhere
  BY DEF Nowhere
<1>5. \A l, st : ~At(l, st).end
  BY DEF At
<1>6. CASE k <= L
  <2>1. IterAt(list, default, k) = At(SubSeq(list, k, L), "given")
    BY <1>6 DEF IterAt
  <2>2. SubSeq(list, k, L) # << >> /\ Head(SubSeq(list, k, L)) = list[k]
    BY <1>1, <1>6, RestIs
  <2>3. all[k] = list[k]
    <3>1. k \in 1..L
      BY <1>1, <1>6
    <3> HIDE DEF all
    <3> QED
      BY <1>9, <3>1
  <2>4. PlaceOf(At(SubSeq(list, k, L), "given")) = list[k]
    BY <1>2, <2>2
  <2> HIDE DEF L
  <2> QED
    BY <1>5, <2>1, <2>3, <2>4
<1>7. CASE k > L /\ k <= L + D
  <2>1. IterAt(list, default, k) = At(SubSeq(default, k - L, D), "default")
    BY <1>1, <1>7 DEF IterAt
  <2>2. k - L \in 1..D
    BY <1>1, <1>7
  <2>3. SubSeq(default, k - L, D) # << >> /\ Head(SubSeq(default, k - L, D)) = default[k - L]
    BY <2>2, RestIs
  <2>4. all[k] = default[k - L]
    <3>1. L + (k - L) = k
      BY <1>1
    <3> HIDE DEF all
    <3> QED
      BY <1>9, <2>2, <3>1
  <2>5. PlaceOf(At(SubSeq(default, k - L, D), "default")) = default[k - L]
    BY <1>3, <2>3
  <2> HIDE DEF L, D
  <2> QED
    BY <1>5, <2>1, <2>4, <2>5
<1>8. CASE k = L + D + 1
  <2>1. IterAt(list, default, k) = At(<< >>, "none")
    BY <1>1, <1>8 DEF IterAt
  <2>2. all[k] = Nowhere
    BY <1>8, <1>9
  <2> QED
    BY <1>4, <1>5, <2>1, <2>2
<1>10. k <= L \/ (k > L /\ k <= L + D) \/ k = L + D + 1
  BY <1>1
<1> QED
  BY <1>6, <1>7, <1>8, <1>10

(* The iterator that starts with a list.                                   *)
LEMMA IteratedIs ==
  ASSUME NEW V, NEW list \in Seq(V), NEW default \in Seq(V), Nowhere \in V
  PROVE  IterFrom(iter_init(list, default), default) = list \o default \o <<Nowhere>>
<1> DEFINE it == IterAt(list, default, 1)
           L == Len(list)
           D == Len(default)
           N == Len(it.list) + D + 2
           f == [k \in 1..N |-> IterAt(list, default, k)]
           at == CHOOSE g : g = [k \in 1..N |-> IF k = 1 THEN it ELSE iter_next(g[k - 1], default)]
           I == {k \in 1..Len(at) : at[k].end}
<1>1. L \in Nat /\ D \in Nat /\ L + D + 2 \in 1..N /\ N \in Nat
  <2>1. \A l, st : At(l, st).list = l
    BY DEF At
  <2>2. CASE L > 0
    <3>1. it = At(SubSeq(list, 1, L), "given") /\ SubSeq(list, 1, L) = list
      BY <2>2 DEF IterAt
    <3>2. it.list = list
      BY <2>1, <3>1
    <3> QED
      BY <2>2, <3>2
  <2>3. CASE L = 0 /\ D > 0
    <3>1. ~(1 <= L) /\ 1 <= L + D /\ 1 - L = 1 /\ SubSeq(default, 1, D) = default
      BY <2>3
    <3>2. it = At(default, "default")
      BY <3>1 DEF IterAt
    <3> QED
      BY <2>1, <2>3, <3>2
  <2>4. CASE L = 0 /\ D = 0
    <3>1. it = At(<< >>, "none")
      BY <2>4 DEF IterAt
    <3> QED
      BY <2>1, <2>4, <3>1
  <2> QED
    BY <2>2, <2>3, <2>4
<1> HIDE DEF N
<1>2. \A k \in 1..N : k # 1 => k - 1 \in 1..N /\ k - 1 \in Nat /\ k - 1 > 0 /\ (k - 1) + 1 = k
  BY <1>1
<1>3. f = [k \in 1..N |-> IF k = 1 THEN it ELSE iter_next(f[k - 1], default)]
  <2>1. ASSUME NEW k \in 1..N, k # 1 PROVE IterAt(list, default, k) = iter_next(f[k - 1], default)
    BY <1>2, <2>1, NextIs
  <2> QED
    BY <2>1, Zenon
<1>4. at = [k \in 1..N |-> IF k = 1 THEN it ELSE iter_next(at[k - 1], default)]
  BY <1>3, Zenon
<1> HIDE DEF at
<1>5. \A k \in 1..N : at[k] = f[k]
  <2> DEFINE S == {k \in 0..N : k = 0 \/ at[k] = f[k]}
  <2>1. 0 \in S
    BY <1>1
  <2>2. \A k \in 1..N : k - 1 \in S => k \in S
    <3> SUFFICES ASSUME NEW k \in 1..N, k - 1 \in S PROVE at[k] = f[k]
      BY <1>1
    <3>1. CASE k = 1
      BY <1>3, <1>4, <3>1
    <3>2. CASE k # 1
      <4> HIDE DEF f, it
      <4>1. at[k] = iter_next(at[k - 1], default) /\ f[k] = iter_next(f[k - 1], default)
        BY <1>3, <1>4, <3>2, Zenon
      <4>2. at[k - 1] = f[k - 1]
        BY <1>2, <3>2
      <4> QED
        BY <4>1, <4>2
    <3> QED
      BY <3>1, <3>2
  <2>3. 0..N \subseteq S
    <3> HIDE DEF S
    <3> QED
      BY <1>1, <2>1, <2>2, UpTo
  <2>4. \A k \in 1..N : k \in 0..N /\ k # 0
    BY <1>1
  <2> QED
    BY <2>3, <2>4
<1>6. \A k \in 1..N : at[k] = IterAt(list, default, k)
  BY <1>5
<1>7. Len(at) = N
  BY <1>1, <1>4
<1>8. \A k \in 1..(L + D + 1) : /\ k \in 1..N /\ ~at[k].end
                                  /\ PlaceOf(at[k]) = (list \o default \o <<Nowhere>>)[k]
  <2> SUFFICES ASSUME NEW k \in 1..(L + D + 1)
               PROVE  /\ k \in 1..N /\ ~at[k].end
                      /\ PlaceOf(at[k]) = (list \o default \o <<Nowhere>>)[k]
    OBVIOUS
  <2>1. k \in 1..N
    BY <1>1
  <2>2. at[k] = IterAt(list, default, k)
    BY <1>6, <2>1
  <2> QED
    BY <2>1, <2>2, PlacesAre
<1>9. at[L + D + 2].end
  <2>1. IterAt(list, default, L + D + 2) = AtEnd
    BY <1>1 DEF IterAt
  <2> QED
    BY <1>1, <1>6, <2>1 DEF AtEnd
<1>10. Min(I) = L + D + 2 /\ I # {}
  <2>1. L + D + 2 \in I /\ I \in SUBSET (1..N)
    BY <1>1, <1>7, <1>9
  <2>2. \A k \in I : L + D + 2 <= k
    <3>1. ASSUME NEW k \in I PROVE k \in Nat /\ k >= 1 /\ k \notin 1..(L + D + 1)
      <4>1. k \in 1..N /\ at[k].end
        BY <1>7
      <4>2. k \notin 1..(L + D + 1)
        BY <1>8, <4>1, Zenon
      <4> QED
        BY <1>1, <4>1, <4>2
    <3> HIDE DEF I
    <3> QED
      BY <1>1, <3>1
  <2>3. Min(I) \in I /\ \A y \in I : Min(I) <= y
    <3> HIDE DEF I
    <3> QED
      BY <1>1, <2>1, LeastIs
  <2>4. Min(I) \in Nat
    BY <2>1, <2>3
  <2> QED
    BY <1>1, <2>1, <2>2, <2>3, <2>4
<1>11. IterFrom(it, default) = [k \in 1..(L + D + 1) |-> PlaceOf(at[k])]
  <2>1. IterFrom(it, default) = [k \in 1..(IF I # {} THEN Min(I) ELSE 0) - 1 |-> PlaceOf(at[k])]
    BY DEF IterFrom, SelectInSeq, N, at
  <2>2. (IF I # {} THEN Min(I) ELSE 0) - 1 = L + D + 1
    BY <1>1, <1>10
  <2> HIDE DEF I, it
  <2> QED
    BY <2>1, <2>2
<1>13. list \o default \o <<Nowhere>> = [k \in 1..(L + D + 1) |-> (list \o default \o <<Nowhere>>)[k]]
  <2> DEFINE all == list \o default \o <<Nowhere>>
  <2>1. all \in Seq(V) /\ Len(all) = L + D + 1
    BY AllIs
  <2> HIDE DEF all
  <2>2. all = [k \in 1..Len(all) |-> all[k]]
    BY <2>1, SeqIsTuple
  <2>3. all = [k \in 1..(L + D + 1) |-> all[k]]
    BY <2>1, <2>2
  <2> QED
    BY <2>3 DEF all
<1>14. iter_init(list, default) = it
  BY StartIs
<1> HIDE DEF it
<1> QED
  BY <1>8, <1>11, <1>13, <1>14

(* The lists of the state.                                                 *)
LEMMA InvLists ==
  ASSUME LocaleInv
  PROVE  /\ \A s \in DOMAIN searches : searches[s].root \in DOMAIN roots /\ searches[s].list \in Lists
         /\ \A r : DefaultOf(r) \in Lists \cup {<< >>}
<1>1. searches \in [DOMAIN searches -> SearchRec]
  BY GoodIs, MemoryParts DEF LocaleInv
<1>2. \A s \in DOMAIN searches : searches[s].list \in Lists
  BY <1>1 DEF SearchRec
<1>3. \A r : DefaultOf(r) \in Lists \cup {<< >>}
  BY <1>2 DEF DefaultOf
<1> QED
  BY <1>2, <1>3, InvIs

(* A file is looked for in every place, in order.                          *)
LEMMA InvTried ==
  ASSUME LocaleInv
  PROVE  TriedInOrder
<1> DEFINE V == STRING \cup {Nowhere}
<1>1. Nowhere \in V
  OBVIOUS
<1>2. \A list \in Lists \cup {<< >>} : list \in Seq(V)
  <2>1. \A list \in Seq(STRING) : list \in Seq(V)
    <3>1. ASSUME NEW A, NEW B, A \subseteq B, NEW l \in Seq(A) PROVE l \in Seq(B)
      BY <3>1
    <3>2. STRING \subseteq V
      BY Zenon
    <3> HIDE DEF V
    <3> QED
      BY <3>1, <3>2, Zenon
  <2>2. << >> \in Seq(V)
    OBVIOUS
  <2> QED
    BY <2>1, <2>2, LocaleAssumption, Zenon
<1> HIDE DEF V
<1>3. \A list, default \in Lists \cup {<< >>} :
        IterFrom(iter_init(list, default), default) = list \o default \o <<Nowhere>>
  BY <1>1, <1>2, IteratedIs
<1>4. Nowhere = ""
  BY DEF Nowhere, PlaceOf, At
<1>5. \A list, default \in Lists \cup {<< >>} :
        IterFrom(iter_init(list, default), default) = list \o default \o <<"">>
  BY <1>3, <1>4, Zenon
<1>6. ASSUME NEW s \in DOMAIN searches
      PROVE  locale_search_resolve(s) = searches[s].list \o DefaultOf(searches[s].root) \o <<"">>
  BY <1>5, InvLists, Zenon DEF locale_search_resolve
<1>7. ASSUME NEW r \in DOMAIN roots, NEW list \in Lists
      PROVE  locale_root_resolve(r, list) = list \o DefaultOf(r) \o <<"">>
  BY <1>5, InvLists, Zenon DEF locale_root_resolve
<1> QED
  BY <1>6, <1>7 DEF TriedInOrder

(* The iterator of open and resolve gives the locales of the search, then  *)
(* those of the default search of its root, then the file itself, whatever *)
(* the lists.                                                              *)
THEOREM IteratorsCorrect == LocaleSpec => []TriedInOrder
<1>1. LocaleInit => LocaleInv
  BY InitGood
<1>2. LocaleInv /\ [LocaleNext]_localeVars => LocaleInv'
  BY LocaleStep
<1>3. LocaleInv => TriedInOrder
  BY InvTried
<1> QED
  BY <1>1, <1>2, <1>3, PTL DEF LocaleSpec
=============================================================================
