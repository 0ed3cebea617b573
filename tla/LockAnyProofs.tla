--------------------------- MODULE LockAnyProofs ---------------------------
(***************************************************************************)
(* Proofs about LockAny, for any number of threads, items and lockers.     *)
(***************************************************************************)
EXTENDS LockAny, FiniteSetTheorems, WellFoundedInduction, TLAPS

Readers(i) == {t \in Threads : Reads(t, i)}
Writers(i) == {t \in Threads : Writes(t, i)}

(* What the flags and counters of a locker say of the threads.             *)
LockerInv(l) ==
  /\ l.item = NULL => /\ l.cntr = 0 /\ l.cntw = 0
                      /\ ~l.lockr /\ ~l.lockw
  /\ l.item # NULL =>
       /\ l.cntr = Cardinality(Readers(l.item))
       /\ l.cntw = Cardinality(Writers(l.item))
       /\ Readers(l.item) \cup Writers(l.item) # {}
       /\ l.lockw <=> \E t \in Threads : held[t][l.item] = "w"
       /\ \A t \in Threads : held[t][l.item] = "r" => l.lockr
       /\ l.lockr => Readers(l.item) # {}
       /\ ~(l.lockr /\ l.lockw)

(* A pending request names an item and a mode, and the locker of the item. *)
ReqInv ==
  \A t \in Threads :
    pc[t] # "out" => /\ req[t].mode \in {"r", "w"}
                     /\ req[t].item \in Items
                     /\ held[t][req[t].item] = "none"

(* Unless the mutex leaked, every granted lock is backed by a locker.      *)
Backed ==
  ~leaked => \A t \in Threads, i \in Items :
               held[t][i] # "none" => LockersOf(i) # {}

(* The inductive invariant.                                                *)
IInv ==
  /\ TypeOK
  /\ ReqInv
  /\ Backed
  /\ WaiterKeepsLocker
  /\ NoLostWakeup
  /\ Exclusion
  /\ \A k \in DOMAIN lockers : LockerInv(lockers[k])

(* What the clients must do for lockany_try_lock_write to be a lock.       *)
TriesAlone == "try_lock_write" \in Ops => TryAlone

-----------------------------------------------------------------------------
(* A non-empty set of positions of the list has a first element in the     *)
(* order of the C list: First returns it.                                  *)
LEMMA FirstIsMember ==
  ASSUME NEW n \in Nat, NEW K \in SUBSET (1 .. n), K # {}
  PROVE  First(K) \in K
<1> DEFINE T == {n - k : k \in K}
<1>1. T \subseteq Nat /\ T # {}
  <2>1. \A k \in K : k \in Nat /\ k <= n
    OBVIOUS
  <2>2. \A k \in K : n - k \in Nat
    BY <2>1
  <2> QED
    BY <2>2
<1>2. PICK x \in T : \A y \in T : ~(<<y, x>> \in OpToRel(<, Nat))
  BY <1>1, NatLessThanWellFounded, WFMin
<1>3. \A y \in T : x <= y
  <2> SUFFICES ASSUME NEW y \in T, y < x PROVE FALSE
    BY <1>1
  <2>1. <<y, x>> \in OpToRel(<, Nat)
    <3>1. x \in Nat /\ y \in Nat
      BY <1>1
    <3> HIDE DEF T
    <3> QED
      BY <3>1 DEF OpToRel
  <2> QED
    BY <1>2, <2>1
<1>4. PICK k \in K : x = n - k
  BY <1>2
<1>5. \A j \in K : j <= k
  <2> SUFFICES ASSUME NEW j \in K PROVE j <= k
    OBVIOUS
  <2>1. x <= n - j
    BY <1>3
  <2>2. j \in Nat /\ k \in Nat
    OBVIOUS
  <2> QED
    BY <1>4, <2>1, <2>2
<1> QED
  BY <1>5 DEF First

(* An unused locker given to an item is like a new one.                    *)
LEMMA BlankLocker ==
  ASSUME NEW l \in Locker, LockerInv(l), l.item = NULL, NEW i
  PROVE  [l EXCEPT !.item = i] = NewLocker(i)
<1>1. l.cntr = 0 /\ l.cntw = 0 /\ ~l.lockr /\ ~l.lockw
  BY DEF LockerInv
<1>2. l.lockr \in BOOLEAN /\ l.lockw \in BOOLEAN
  BY DEF Locker
<1>3. l.lockr = FALSE /\ l.lockw = FALSE
  BY <1>1, <1>2
<1>4. [l EXCEPT !.item = i] = [item |-> i, lockw |-> l.lockw, lockr |-> l.lockr,
                               cntw |-> l.cntw, cntr |-> l.cntr]
  BY DEF Locker
<1> QED
  BY <1>1, <1>3, <1>4 DEF NewLocker

(* What locker_get gives back: position k of the list ls holds a locker of *)
(* item i, the one the item already had or a blank one, and no other       *)
(* locker of the list changes or serves the item.                          *)
GetSpec(i, k, ls) ==
  /\ ls \in Seq(Locker) /\ k \in 1 .. Len(ls) /\ Len(lockers) <= Len(ls)
  /\ \A j \in 1 .. Len(ls) : j # k => /\ j \in 1 .. Len(lockers)
                                     /\ ls[j] = lockers[j]
                                     /\ ls[j].item # i
  /\ LockersOf(i) # {} => ls = lockers /\ lockers[k].item = i
  /\ LockersOf(i) = {} => /\ ls[k] = NewLocker(i)
                          /\ k \in 1 .. Len(lockers) => lockers[k].item = NULL

LEMMA LockerGet ==
  ASSUME TypeOK, WaiterKeepsLocker, NEW i \in Items,
         \A k \in DOMAIN lockers : LockerInv(lockers[k])
  PROVE  GetSpec(i, locker_get(i), Claimed(i))
<1> DEFINE n == Len(lockers)
           k == locker_get(i)
           ls == Claimed(i)
<1>0. /\ lockers \in Seq(Locker) /\ n \in Nat /\ DOMAIN lockers = 1 .. n
      /\ \A j \in 1 .. n : lockers[j] \in Locker
      /\ i # NULL
  BY NullAssumption DEF TypeOK
<1>1. LockersOf(i) \in SUBSET (1 .. n) /\ LockersOf(NULL) \in SUBSET (1 .. n)
  BY <1>0 DEF LockersOf
<1>2. CASE LockersOf(i) # {}
  <2>1. k = First(LockersOf(i))
    BY <1>2 DEF locker_get
  <2>2. k \in LockersOf(i)
    BY <1>0, <1>1, <1>2, <2>1, FirstIsMember
  <2>3. k \in 1 .. n /\ lockers[k].item = i
    BY <2>2, <1>0 DEF LockersOf
  <2>4. ls = [lockers EXCEPT ![k].item = i]
    <3>1. ~MustAlloc(i)
      BY <2>3, <1>0 DEF MustAlloc
    <3> QED
      BY <3>1 DEF Claimed
  <2>5. [lockers[k] EXCEPT !.item = i] = lockers[k]
    BY <2>3, <1>0 DEF Locker
  <2>6. ls = lockers
    BY <2>3, <2>4, <2>5, <1>0
  <2>7. \A j \in 1 .. n : j # k => lockers[j].item # i
    BY <2>3, <1>0 DEF WaiterKeepsLocker
  <2> HIDE DEF k, ls
  <2> QED
    BY <1>0, <1>2, <2>3, <2>6, <2>7 DEF GetSpec, k, ls
<1>3. CASE LockersOf(i) = {} /\ LockersOf(NULL) # {}
  <2>1. k = First(LockersOf(NULL))
    BY <1>3 DEF locker_get
  <2>2. k \in LockersOf(NULL)
    BY <1>0, <1>1, <1>3, <2>1, FirstIsMember
  <2>3. k \in 1 .. n /\ lockers[k].item = NULL
    BY <2>2, <1>0 DEF LockersOf
  <2>4. ls = [lockers EXCEPT ![k].item = i]
    <3>1. ~MustAlloc(i)
      BY <2>3, <1>0 DEF MustAlloc
    <3> QED
      BY <3>1 DEF Claimed
  <2>5. [lockers[k] EXCEPT !.item = i] = NewLocker(i)
    <3>1. lockers[k] \in Locker /\ LockerInv(lockers[k]) /\ lockers[k].item = NULL
      BY <2>3, <1>0
    <3> QED
      BY <3>1, BlankLocker
  <2>6. NewLocker(i) \in Locker
    BY <1>0, CntAssumption, ThreadsAssumption, FS_CardinalityType DEF NewLocker, Locker
  <2>7. ls = [lockers EXCEPT ![k] = NewLocker(i)]
    BY <2>3, <2>4, <2>5, <1>0
  <2>8. ls \in Seq(Locker) /\ Len(ls) = n /\ ls[k] = NewLocker(i)
        /\ \A j \in 1 .. n : j # k => ls[j] = lockers[j]
    <3> HIDE DEF k, ls
    <3> QED BY <2>3, <2>6, <2>7, <1>0
  <2>9. \A j \in 1 .. n : lockers[j].item # i
    BY <1>3, <1>0 DEF LockersOf
  <2> HIDE DEF k, ls
  <2> QED
    BY <1>0, <1>3, <2>3, <2>8, <2>9 DEF GetSpec, k, ls
<1>4. CASE LockersOf(i) = {} /\ LockersOf(NULL) = {}
  <2>1. k = n + 1
    BY <1>4 DEF locker_get
  <2>2. ls = Append(lockers, NewLocker(i))
    BY <2>1 DEF Claimed, MustAlloc
  <2>3. NewLocker(i) \in Locker
    BY <1>0, CntAssumption, ThreadsAssumption, FS_CardinalityType DEF NewLocker, Locker
  <2>4. \A j \in 1 .. n : lockers[j].item # i
    BY <1>4, <1>0 DEF LockersOf
  <2>5. ls \in Seq(Locker) /\ Len(ls) = n + 1 /\ ls[n + 1] = NewLocker(i)
        /\ \A j \in 1 .. n : ls[j] = lockers[j]
    <3> HIDE DEF ls
    <3> QED BY <2>2, <2>3, <1>0
  <2> HIDE DEF k, ls
  <2> QED
    BY <1>0, <1>4, <2>1, <2>4, <2>5 DEF GetSpec, k, ls
<1> QED
  BY <1>2, <1>3, <1>4

-----------------------------------------------------------------------------
(* Counting threads: the counters cannot wrap, as there are fewer threads  *)
(* than values of a counter.                                               *)
LEMMA Counting ==
  ASSUME NEW S \in SUBSET Threads
  PROVE  /\ Cardinality(S) \in 0 .. CntMod - 1
         /\ Cardinality(S) = 0 <=> S = {}
         /\ \A t \in Threads \ S : /\ Cardinality(S \cup {t}) = Cardinality(S) + 1
                                  /\ Inc(Cardinality(S)) = Cardinality(S) + 1
         /\ \A t \in S : /\ Cardinality(S \ {t}) = Cardinality(S) - 1
                        /\ Dec(Cardinality(S)) = Cardinality(S) - 1
<1>1. IsFiniteSet(S) /\ Cardinality(S) <= Cardinality(Threads)
  BY ThreadsAssumption, FS_Subset
<1>2. Cardinality(S) \in Nat /\ Cardinality(Threads) \in Nat
  BY <1>1, ThreadsAssumption, FS_CardinalityType
<1>3. Cardinality(S) = 0 <=> S = {}
  BY <1>1, FS_EmptySet
<1>4. ASSUME NEW t \in Threads \ S
      PROVE  /\ Cardinality(S \cup {t}) = Cardinality(S) + 1
             /\ Inc(Cardinality(S)) = Cardinality(S) + 1
  <2>1. Cardinality(S \cup {t}) = Cardinality(S) + 1
    BY <1>1, <1>4, FS_AddElement
  <2>2. Cardinality(S \cup {t}) <= Cardinality(Threads)
    BY <1>4, ThreadsAssumption, FS_Subset
  <2> QED
    BY <1>2, <2>1, <2>2, CntAssumption DEF Inc
<1>5. ASSUME NEW t \in S
      PROVE  /\ Cardinality(S \ {t}) = Cardinality(S) - 1
             /\ Dec(Cardinality(S)) = Cardinality(S) - 1
  <2>1. Cardinality(S \ {t}) = Cardinality(S) - 1
    BY <1>1, <1>5, FS_RemoveElement
  <2>2. Cardinality(S) # 0
    BY <1>3, <1>5
  <2> QED
    BY <2>1, <2>2 DEF Dec
<1>6. Cardinality(S) \in 0 .. CntMod - 1
  BY <1>1, <1>2, CntAssumption
<1> QED
  BY <1>3, <1>4, <1>5, <1>6

(* The locker an entry point works on describes the threads concerned by   *)
(* its item, be it the locker of the item or a blank one.                  *)
Describes(l, i) ==
  /\ l \in Locker
  /\ l.item = i
  /\ l.cntr = Cardinality(Readers(i))
  /\ l.cntw = Cardinality(Writers(i))
  /\ l.lockw <=> \E t \in Threads : held[t][i] = "w"
  /\ \A t \in Threads : held[t][i] = "r" => l.lockr
  /\ l.lockr => Readers(i) # {}
  /\ ~(l.lockr /\ l.lockw)

LEMMA ClaimedDescribes ==
  ASSUME IInv, ~leaked, NEW i \in Items, NEW k, NEW ls, GetSpec(i, k, ls)
  PROVE  Describes(ls[k], i)
<1>0. /\ i # NULL /\ lockers \in Seq(Locker) /\ DOMAIN lockers = 1 .. Len(lockers)
      /\ k \in 1 .. Len(ls) /\ ls[k] \in Locker
  BY NullAssumption DEF IInv, TypeOK, GetSpec
<1>1. CASE LockersOf(i) # {}
  <2>1. ls = lockers /\ lockers[k].item = i /\ k \in DOMAIN lockers
    BY <1>0, <1>1 DEF GetSpec
  <2>2. LockerInv(lockers[k])
    BY <2>1 DEF IInv
  <2> QED
    BY <1>0, <2>1, <2>2 DEF LockerInv, Describes
<1>2. CASE LockersOf(i) = {}
  <2>1. ls[k] = NewLocker(i)
    BY <1>2 DEF GetSpec
  <2>2. \A t \in Threads : held[t][i] = "none"
    BY <1>2 DEF IInv, Backed
  <2>3. \A t \in Threads : pc[t] # "out" => req[t].item # i
    BY <1>2 DEF IInv, WaiterKeepsLocker, LockersOf
  <2>4. Readers(i) = {} /\ Writers(i) = {}
    BY <2>2, <2>3 DEF Readers, Writers, Reads, Writes
  <2>5. Cardinality({}) = 0
    BY FS_EmptySet
  <2> QED
    BY <1>0, <2>1, <2>2, <2>4, <2>5 DEF NewLocker, Describes
<1> QED
  BY <1>1, <1>2

(* Only item i changes hands.                                              *)
OthersSame(i) ==
  \A c \in Items \ {i} : /\ Readers(c)' = Readers(c)
                         /\ Writers(c)' = Writers(c)
                         /\ \A u \in Threads : held'[u][c] = held[u][c]

(* The variables of the clients keep their types.                          *)
ClientTypes ==
  /\ pc \in [Threads -> {"out", "sleep", "woken"}]
  /\ req \in [Threads -> [mode : {"none", "r", "w"}, item : Items \cup {NULL}, slot : Nat]]
  /\ held \in [Threads -> [Items -> {"none", "r", "w"}]]

(* The step that all entry points share: locker k of the list ls, which    *)
(* serves item i, becomes nl.  The invariant is kept if nl describes the   *)
(* new situation of the item, nothing changes for the other items, and     *)
(* whoever sleeps on the locker after the step has a reason to.            *)
Consistent(i, nl) ==
  /\ nl \in Locker /\ nl.item \in {i, NULL}
  /\ LockerInv(nl)'
  /\ nl.item = NULL => Readers(i)' = {} /\ Writers(i)' = {}
  /\ \A t, u \in Threads : t # u /\ held'[t][i] = "w" => held'[u][i] = "none"

Waiting(i, k, nl) ==
  /\ \A u \in Threads : pc'[u] # "out" =>
        \/ pc[u] # "out" /\ req'[u] = req[u]
        \/ req'[u].item = i /\ req'[u].slot = k
  /\ \A u \in Threads : pc'[u] = "sleep" =>
        \/ pc[u] = "sleep" /\ req'[u] = req[u] /\ req[u].slot # k
        \/ /\ req'[u].slot = k
           /\ nl.lockw \/ (req'[u].mode = "w" /\ nl.lockr)

LEMMA ListStep ==
  ASSUME IInv, NEW i \in Items, NEW k, NEW ls, GetSpec(i, k, ls), NEW nl,
         lockers' = [ls EXCEPT ![k] = nl], leaked' = leaked,
         ClientTypes', ReqInv', OthersSame(i), Consistent(i, nl), Waiting(i, k, nl)
  PROVE  IInv'
<1> DEFINE n == Len(lockers)
<1> USE DEF ClientTypes, OthersSame, Consistent, Waiting
<1>0. /\ i # NULL /\ lockers \in Seq(Locker) /\ n \in Nat /\ DOMAIN lockers = 1 .. n
      /\ ls \in Seq(Locker) /\ Len(ls) \in Nat /\ DOMAIN ls = 1 .. Len(ls)
      /\ k \in 1 .. Len(ls) /\ n <= Len(ls)
      /\ \A j \in 1 .. Len(ls) : j # k => /\ j \in 1 .. n /\ ls[j] = lockers[j]
                                         /\ ls[j].item # i
  BY NullAssumption DEF IInv, TypeOK, GetSpec
<1>1. /\ lockers' \in Seq(Locker) /\ DOMAIN lockers' = 1 .. Len(ls)
      /\ lockers'[k] = nl
      /\ \A j \in 1 .. Len(ls) : j # k => lockers'[j] = lockers[j]
  BY <1>0
<1>2. k \in 1 .. n => lockers[k].item \in {i, NULL}
  BY <1>0 DEF GetSpec
<1>3. TypeOK'
  BY <1>1 DEF IInv, TypeOK
<1>4. ASSUME NEW j \in DOMAIN lockers' PROVE LockerInv(lockers[j])'
  <2>1. CASE j = k
    BY <1>1, <2>1 DEF LockerInv
  <2>2. CASE j # k
    <3>1. /\ j \in 1 .. n /\ lockers'[j] = lockers[j] /\ lockers[j].item # i
          /\ lockers[j] \in Locker
      BY <1>0, <1>1, <1>4, <2>2
    <3>2. LockerInv(lockers[j])
      BY <1>0, <3>1 DEF IInv
    <3>3. CASE lockers[j].item = NULL
      BY <3>1, <3>2, <3>3 DEF LockerInv
    <3>4. CASE lockers[j].item # NULL
      <4>1. PICK c \in Items \ {i} : c = lockers[j].item
        BY <3>1, <3>4 DEF Locker
      <4>2. /\ Readers(c)' = Readers(c) /\ Writers(c)' = Writers(c)
            /\ \A t \in Threads : held'[t][c] = held[t][c]
        OBVIOUS
      <4>3. lockers'[j].item = c
        BY <3>1, <4>1
      <4>4. /\ Readers(lockers[j].item)' = Readers(lockers[j].item)
            /\ Writers(lockers[j].item)' = Writers(lockers[j].item)
        BY <4>1, <4>2, <4>3 DEF Readers, Writers, Reads, Writes
      <4>5. /\ lockers[j].cntr = Cardinality(Readers(lockers[j].item))
            /\ lockers[j].cntw = Cardinality(Writers(lockers[j].item))
            /\ Readers(lockers[j].item) \cup Writers(lockers[j].item) # {}
            /\ lockers[j].lockw <=> \E t \in Threads : held[t][c] = "w"
            /\ \A t \in Threads : held[t][c] = "r" => lockers[j].lockr
            /\ lockers[j].lockr => Readers(lockers[j].item) # {}
            /\ ~(lockers[j].lockr /\ lockers[j].lockw)
        BY <3>2, <3>4, <4>1 DEF LockerInv
      <4>6. lockers'[j].lockw <=> \E t \in Threads : held'[t][c] = "w"
        BY <3>1, <4>2, <4>5
      <4>7. \A t \in Threads : held'[t][c] = "r" => lockers'[j].lockr
        <5>1. lockers'[j].lockr = lockers[j].lockr
          BY <3>1
        <5>2. \A t \in Threads : held[t][c] = "r" => lockers[j].lockr
          BY <4>5
        <5>3. \A t \in Threads : held'[t][c] = held[t][c]
          BY <4>2
        <5> QED
          BY <5>1, <5>2, <5>3
      <4>8. /\ lockers[j].cntr = Cardinality(Readers(lockers[j].item)')
            /\ lockers[j].cntw = Cardinality(Writers(lockers[j].item)')
            /\ Readers(lockers[j].item)' \cup Writers(lockers[j].item)' # {}
            /\ lockers[j].lockr => Readers(lockers[j].item)' # {}
        BY <4>4, <4>5
      <4> QED
        BY <3>1, <3>4, <4>1, <4>3, <4>5, <4>6, <4>7, <4>8 DEF LockerInv
    <3> QED
      BY <3>3, <3>4
  <2> QED
    BY <2>1, <2>2
<1>5. ASSUME NEW u \in Threads, pc'[u] # "out"
      PROVE  /\ req'[u].slot \in DOMAIN lockers'
             /\ lockers'[req'[u].slot].item = req'[u].item
  <2>0. req'[u].item = i => /\ u \in Readers(i)' \cup Writers(i)'
                            /\ nl.item = i
    BY <1>5 DEF ReqInv, Readers, Writers, Reads, Writes
  <2>1. CASE req'[u].item = i /\ req'[u].slot = k
    BY <1>0, <1>1, <2>0, <2>1
  <2>2. CASE pc[u] # "out" /\ req'[u] = req[u]
    <3>1. req[u].slot \in 1 .. n /\ lockers[req[u].slot].item = req[u].item
      BY <1>0, <2>2 DEF IInv, WaiterKeepsLocker
    <3>2. req[u].item \in Items
      BY <2>2 DEF IInv, ReqInv
    <3>3. CASE req[u].slot # k
      BY <1>0, <1>1, <2>2, <3>1, <3>3
    <3>4. CASE req[u].slot = k
      <4>1. req[u].item = i
        BY <1>2, <3>1, <3>2, <3>4, NullAssumption
      <4> QED
        BY <1>0, <1>1, <2>0, <2>2, <3>4, <4>1
    <3> QED
      BY <3>3, <3>4
  <2> QED
    BY <1>5, <2>1, <2>2
<1>6. ASSUME NEW j \in DOMAIN lockers', NEW m \in DOMAIN lockers',
             lockers'[j].item = lockers'[m].item, lockers'[j].item # NULL
      PROVE  j = m
  <2>1. CASE j # k /\ m # k
    BY <1>0, <1>1, <1>6, <2>1 DEF IInv, WaiterKeepsLocker
  <2>2. CASE j = k \/ m = k
    BY <1>0, <1>1, <1>6, <2>2
  <2> QED
    BY <2>1, <2>2
<1>7. WaiterKeepsLocker'
  BY <1>5, <1>6 DEF WaiterKeepsLocker
<1>8. NoLostWakeup'
  <2> SUFFICES ASSUME NEW u \in Threads, pc'[u] = "sleep"
               PROVE  \/ lockers'[req'[u].slot].lockw
                      \/ req'[u].mode = "w" /\ lockers'[req'[u].slot].lockr
    BY DEF NoLostWakeup
  <2>1. CASE req'[u].slot = k /\ (nl.lockw \/ (req'[u].mode = "w" /\ nl.lockr))
    BY <1>1, <2>1
  <2>2. CASE pc[u] = "sleep" /\ req'[u] = req[u] /\ req[u].slot # k
    <3>1. req[u].slot \in 1 .. n
      BY <1>0, <2>2 DEF IInv, WaiterKeepsLocker
    <3>2. lockers'[req[u].slot] = lockers[req[u].slot]
      BY <1>0, <1>1, <2>2, <3>1
    <3> QED
      BY <2>2, <3>2 DEF IInv, NoLostWakeup
  <2> QED
    BY <2>1, <2>2
<1>9. Exclusion'
  <2> SUFFICES ASSUME NEW t \in Threads, NEW u \in Threads, NEW c \in Items,
                      t # u, held'[t][c] = "w"
               PROVE  held'[u][c] = "none"
    BY DEF Exclusion
  <2>1. CASE c = i
    BY <2>1
  <2>2. CASE c # i
    <3>1. held'[t][c] = held[t][c] /\ held'[u][c] = held[u][c]
      BY <2>2
    <3> QED
      BY <3>1 DEF IInv, Exclusion
  <2> QED
    BY <2>1, <2>2
<1>10. Backed'
  <2> SUFFICES ASSUME ~leaked', NEW t \in Threads, NEW c \in Items, held'[t][c] # "none"
               PROVE  \E j \in DOMAIN lockers' : lockers'[j].item = c
    BY DEF Backed, LockersOf
  <2>1. CASE c = i
    <3>1. held'[t][c] \in {"r", "w"}
      OBVIOUS
    <3>2. t \in Readers(i)' \cup Writers(i)'
      BY <2>1, <3>1 DEF Readers, Writers, Reads, Writes
    <3> QED
      BY <1>0, <1>1, <2>1, <3>2
  <2>2. CASE c # i
    <3>1. held[t][c] # "none"
      BY <2>2
    <3>2. PICK j \in 1 .. n : lockers[j].item = c
      <4>1. LockersOf(c) # {}
        BY <3>1 DEF IInv, Backed
      <4> QED
        BY <1>0, <4>1 DEF LockersOf
    <3>3. j # k
      BY <1>2, <2>2, <3>2, NullAssumption
    <3>4. j \in DOMAIN lockers' /\ lockers'[j] = lockers[j]
      BY <1>0, <1>1, <3>2, <3>3
    <3> QED
      BY <3>2, <3>4
  <2> QED
    BY <2>1, <2>2
<1> QED
  BY <1>3, <1>4, <1>7, <1>8, <1>9, <1>10 DEF IInv

-----------------------------------------------------------------------------
(* How the sets of threads that hold or wait for an item evolve.           *)

(* A lock granted at once and a lock the thread has to wait for.           *)
Granted(t, i, m)    == Grant(t, i, m) /\ UNCHANGED <<pc, req>>
Blocked(t, i, m, k) == Block(t, i, m, k) /\ UNCHANGED held

LEMMA Joins ==
  ASSUME IInv, NEW t \in Threads, NEW i \in Items, NEW m \in {"r", "w"}, NEW k \in Nat,
         pc[t] = "out", held[t][i] = "none",
         Granted(t, i, m) \/ Blocked(t, i, m, k)
  PROVE  /\ OthersSame(i) /\ ReqInv' /\ ClientTypes'
         /\ t \notin Readers(i) /\ t \notin Writers(i)
         /\ m = "r" => Readers(i)' = Readers(i) \cup {t} /\ Writers(i)' = Writers(i)
         /\ m = "w" => Writers(i)' = Writers(i) \cup {t} /\ Readers(i)' = Readers(i)
<1>0. ClientTypes /\ ReqInv
  BY DEF IInv, TypeOK, ClientTypes
<1>1. t \notin Readers(i) /\ t \notin Writers(i)
  BY DEF Readers, Writers, Reads, Writes
<1>2. CASE Granted(t, i, m)
  <2>0. /\ pc' = pc /\ req' = req
        /\ held' = [held EXCEPT ![t][i] = m]
    BY <1>2 DEF Granted, Grant
  <2>1. ClientTypes'
    BY <1>0, <2>0 DEF ClientTypes
  <2>2. held'[t][i] = m /\ \A u \in Threads, c \in Items :
                              u # t \/ c # i => held'[u][c] = held[u][c]
    BY <1>0, <2>0 DEF ClientTypes
  <2>3. ReqInv'
    BY <1>0, <2>0, <2>2 DEF ReqInv
  <2>4. OthersSame(i)
    BY <2>0, <2>2 DEF OthersSame, Readers, Writers, Reads, Writes
  <2>5. m = "r" => Readers(i)' = Readers(i) \cup {t} /\ Writers(i)' = Writers(i)
    BY <2>0, <2>2 DEF Readers, Writers, Reads, Writes
  <2>6. m = "w" => Writers(i)' = Writers(i) \cup {t} /\ Readers(i)' = Readers(i)
    BY <2>0, <2>2 DEF Readers, Writers, Reads, Writes
  <2> QED
    BY <1>1, <2>1, <2>3, <2>4, <2>5, <2>6
<1>3. CASE Blocked(t, i, m, k)
  <2>0. /\ pc' = [pc EXCEPT ![t] = "sleep"]
        /\ req' = [req EXCEPT ![t] = [mode |-> m, item |-> i, slot |-> k]]
        /\ held' = held
    BY <1>3 DEF Blocked, Block
  <2>1. ClientTypes'
    BY <1>0, <2>0 DEF ClientTypes
  <2>2. /\ pc'[t] = "sleep" /\ req'[t].mode = m /\ req'[t].item = i
        /\ \A u \in Threads \ {t} : pc'[u] = pc[u] /\ req'[u] = req[u]
    BY <1>0, <2>0 DEF ClientTypes
  <2>3. ReqInv'
    BY <1>0, <2>0, <2>2 DEF ReqInv
  <2>4. OthersSame(i)
    BY <2>0, <2>2 DEF OthersSame, Readers, Writers, Reads, Writes
  <2>5. m = "r" => Readers(i)' = Readers(i) \cup {t} /\ Writers(i)' = Writers(i)
    BY <2>0, <2>2 DEF Readers, Writers, Reads, Writes
  <2>6. m = "w" => Writers(i)' = Writers(i) \cup {t} /\ Readers(i)' = Readers(i)
    BY <2>0, <2>2 DEF Readers, Writers, Reads, Writes
  <2> QED
    BY <1>1, <2>1, <2>3, <2>4, <2>5, <2>6
<1> QED
  BY <1>2, <1>3

(* A thread in a blocking call keeps the locker of its item busy.          *)
LEMMA WaiterOn ==
  ASSUME IInv, NEW i \in Items, NEW k, NEW ls, GetSpec(i, k, ls),
         NEW u \in Threads, pc[u] # "out", req[u].slot = k
  PROVE  ls = lockers /\ k \in 1 .. Len(lockers) /\ req[u].item = i
<1>1. /\ k \in 1 .. Len(lockers) /\ lockers[k].item = req[u].item
      /\ req[u].item \in Items
  BY DEF IInv, TypeOK, WaiterKeepsLocker, ReqInv
<1>2. LockersOf(i) # {}
  BY <1>1, NullAssumption DEF GetSpec
<1> QED
  BY <1>1, <1>2 DEF GetSpec

-----------------------------------------------------------------------------
(* A lock is granted: the flag of its mode is set, its counter counts one  *)
(* more thread.                                                            *)
GrantedLocker(l, m) ==
  IF m = "r"
    THEN [item |-> l.item, lockw |-> l.lockw, lockr |-> TRUE,
          cntw |-> l.cntw, cntr |-> Inc(l.cntr)]
    ELSE [item |-> l.item, lockw |-> TRUE, lockr |-> l.lockr,
          cntw |-> Inc(l.cntw), cntr |-> l.cntr]

Compatible(l, m) == ~l.lockw /\ (m = "w" => ~l.lockr)

LEMMA GrantStep ==
  ASSUME IInv, ~leaked, NEW t \in Threads, NEW i \in Items, NEW m \in {"r", "w"},
         NEW k, NEW ls, GetSpec(i, k, ls),
         pc[t] = "out", held[t][i] = "none",
         Compatible(ls[k], m),
         NEW nl, nl = GrantedLocker(ls[k], m),
         lockers' = [ls EXCEPT ![k] = nl],
         Granted(t, i, m), leaked' = leaked
  PROVE  IInv'
<1> DEFINE l == ls[k]
<1>0. Describes(l, i)
  BY ClaimedDescribes
<1>1. /\ OthersSame(i) /\ ReqInv' /\ ClientTypes'
      /\ t \notin Readers(i) /\ t \notin Writers(i)
      /\ m = "r" => Readers(i)' = Readers(i) \cup {t} /\ Writers(i)' = Writers(i)
      /\ m = "w" => Writers(i)' = Writers(i) \cup {t} /\ Readers(i)' = Readers(i)
  BY Joins DEF GetSpec
<1>2. Readers(i) \in SUBSET Threads /\ Writers(i) \in SUBSET Threads
      /\ Readers(i)' \in SUBSET Threads /\ Writers(i)' \in SUBSET Threads
  BY DEF Readers, Writers
<1>3. m = "r" => /\ Inc(l.cntr) = Cardinality(Readers(i)')
                 /\ l.cntw = Cardinality(Writers(i)')
  BY <1>0, <1>1, <1>2, Counting DEF Describes
<1>4. m = "w" => /\ Inc(l.cntw) = Cardinality(Writers(i)')
                 /\ l.cntr = Cardinality(Readers(i)')
  BY <1>0, <1>1, <1>2, Counting DEF Describes
<1>5. /\ Cardinality(Readers(i)') \in 0 .. CntMod - 1
      /\ Cardinality(Writers(i)') \in 0 .. CntMod - 1
  BY <1>2, Counting
<1>6. /\ nl \in Locker /\ nl.item = i
      /\ nl.cntr = Cardinality(Readers(i)') /\ nl.cntw = Cardinality(Writers(i)')
  BY <1>0, <1>3, <1>4, <1>5 DEF Describes, Locker, GrantedLocker
<1>7. held'[t][i] = m /\ \A u \in Threads \ {t} : held'[u][i] = held[u][i]
  BY DEF Granted, Grant, IInv, TypeOK
<1>8. /\ nl.lockw <=> \E u \in Threads : held'[u][i] = "w"
      /\ \A u \in Threads : held'[u][i] = "r" => nl.lockr
      /\ nl.lockr => Readers(i)' # {}
      /\ ~(nl.lockr /\ nl.lockw)
      /\ Readers(i)' \cup Writers(i)' # {}
  BY <1>0, <1>1, <1>7 DEF Describes, Compatible, GrantedLocker
<1>9. LockerInv(nl)'
  BY <1>6, <1>8, NullAssumption DEF LockerInv
<1>10. \A u, v \in Threads : u # v /\ held'[u][i] = "w" => held'[v][i] = "none"
  BY <1>0, <1>7, SMTT(60) DEF Describes, Compatible, IInv, TypeOK
<1>11. pc' = pc /\ req' = req
  BY DEF Granted
<1>12. ASSUME NEW u \in Threads, pc[u] = "sleep", req[u].slot = k
       PROVE  nl.lockw \/ (req[u].mode = "w" /\ nl.lockr)
  <2>1. ls = lockers
    BY <1>12, WaiterOn
  <2>2. l.lockw \/ (req[u].mode = "w" /\ l.lockr)
    BY <1>12, <2>1 DEF IInv, NoLostWakeup
  <2> QED
    BY <2>2 DEF GrantedLocker
<1>13. Consistent(i, nl)
  BY <1>6, <1>9, <1>10, NullAssumption DEF Consistent
<1>14. Waiting(i, k, nl)
  BY <1>11, <1>12 DEF Waiting
<1> QED
  BY <1>1, <1>13, <1>14, ListStep

(* A lock has to wait: its counter counts one more thread, the flags do    *)
(* not change and forbid the lock.                                         *)
BlockedLocker(l, m) ==
  IF m = "r"
    THEN [item |-> l.item, lockw |-> l.lockw, lockr |-> l.lockr,
          cntw |-> l.cntw, cntr |-> Inc(l.cntr)]
    ELSE [item |-> l.item, lockw |-> l.lockw, lockr |-> l.lockr,
          cntw |-> Inc(l.cntw), cntr |-> l.cntr]

LEMMA BlockStep ==
  ASSUME IInv, ~leaked, NEW t \in Threads, NEW i \in Items, NEW m \in {"r", "w"},
         NEW k, NEW ls, GetSpec(i, k, ls),
         pc[t] = "out", held[t][i] = "none",
         ~Compatible(ls[k], m),
         NEW nl, nl = BlockedLocker(ls[k], m),
         lockers' = [ls EXCEPT ![k] = nl],
         Blocked(t, i, m, k), leaked' = leaked
  PROVE  IInv'
<1> DEFINE l == ls[k]
<1>0. Describes(l, i) /\ k \in Nat
  BY ClaimedDescribes DEF GetSpec
<1>1. /\ OthersSame(i) /\ ReqInv' /\ ClientTypes'
      /\ t \notin Readers(i) /\ t \notin Writers(i)
      /\ m = "r" => Readers(i)' = Readers(i) \cup {t} /\ Writers(i)' = Writers(i)
      /\ m = "w" => Writers(i)' = Writers(i) \cup {t} /\ Readers(i)' = Readers(i)
  BY <1>0, Joins
<1>2. Readers(i) \in SUBSET Threads /\ Writers(i) \in SUBSET Threads
      /\ Readers(i)' \in SUBSET Threads /\ Writers(i)' \in SUBSET Threads
  BY DEF Readers, Writers
<1>3. m = "r" => /\ Inc(l.cntr) = Cardinality(Readers(i)')
                 /\ l.cntw = Cardinality(Writers(i)')
  BY <1>0, <1>1, <1>2, Counting DEF Describes
<1>4. m = "w" => /\ Inc(l.cntw) = Cardinality(Writers(i)')
                 /\ l.cntr = Cardinality(Readers(i)')
  BY <1>0, <1>1, <1>2, Counting DEF Describes
<1>5. /\ Cardinality(Readers(i)') \in 0 .. CntMod - 1
      /\ Cardinality(Writers(i)') \in 0 .. CntMod - 1
  BY <1>2, Counting
<1>6. /\ nl \in Locker /\ nl.item = i
      /\ nl.cntr = Cardinality(Readers(i)') /\ nl.cntw = Cardinality(Writers(i)')
  BY <1>0, <1>3, <1>4, <1>5 DEF Describes, Locker, BlockedLocker
<1>7. held' = held
  BY DEF Blocked
<1>8. /\ nl.lockw <=> \E u \in Threads : held'[u][i] = "w"
      /\ \A u \in Threads : held'[u][i] = "r" => nl.lockr
      /\ nl.lockr => Readers(i)' # {}
      /\ ~(nl.lockr /\ nl.lockw)
      /\ Readers(i)' \cup Writers(i)' # {}
  BY <1>0, <1>1, <1>7 DEF Describes, BlockedLocker
<1>9. LockerInv(nl)'
  BY <1>6, <1>8, NullAssumption DEF LockerInv
<1>10. \A u, v \in Threads : u # v /\ held'[u][i] = "w" => held'[v][i] = "none"
  BY <1>7 DEF IInv, Exclusion
<1>11. Consistent(i, nl)
  BY <1>6, <1>9, <1>10, NullAssumption DEF Consistent
<1>12. /\ \A u \in Threads \ {t} : pc'[u] = pc[u] /\ req'[u] = req[u]
       /\ pc'[t] = "sleep" /\ req'[t] = [mode |-> m, item |-> i, slot |-> k]
  BY DEF Blocked, Block, IInv, TypeOK
<1>13. ASSUME NEW u \in Threads \ {t}, pc[u] = "sleep", req[u].slot = k
       PROVE  nl.lockw \/ (req[u].mode = "w" /\ nl.lockr)
  <2>1. ls = lockers
    BY <1>13, WaiterOn
  <2>2. l.lockw \/ (req[u].mode = "w" /\ l.lockr)
    BY <1>13, <2>1 DEF IInv, NoLostWakeup
  <2> QED
    BY <2>2 DEF BlockedLocker
<1>14. nl.lockw \/ (m = "w" /\ nl.lockr)
  BY DEF Compatible, BlockedLocker
<1>15. Waiting(i, k, nl)
  BY <1>12, <1>13, <1>14 DEF Waiting
<1> QED
  BY <1>1, <1>11, <1>15, ListStep

-----------------------------------------------------------------------------
(* The entry points.                                                       *)

(* What is counted is used, hence not recycled.                            *)
LEMMA Kept ==
  ASSUME NEW l \in Locker, l.cntr # 0 \/ l.cntw # 0
  PROVE  locker_release(l) = l
BY DEF locker_release, locker_used

(* A locker counts whoever it blocks.                                      *)
LEMMA IncNotZero ==
  ASSUME NEW i, NEW l, Describes(l, i), NEW t \in Threads
  PROVE  /\ t \notin Readers(i) => Inc(l.cntr) # 0 /\ Inc(l.cntr) \in 0 .. CntMod - 1
         /\ t \notin Writers(i) => Inc(l.cntw) # 0 /\ Inc(l.cntw) \in 0 .. CntMod - 1
<1>1. Readers(i) \in SUBSET Threads /\ Writers(i) \in SUBSET Threads
  BY DEF Readers, Writers
<1>2. /\ l.cntr = Cardinality(Readers(i)) /\ l.cntw = Cardinality(Writers(i))
      /\ l.cntr \in 0 .. CntMod - 1 /\ l.cntw \in 0 .. CntMod - 1
  BY DEF Describes, Locker
<1>3. CntMod \in Nat
  BY CntAssumption
<1>4. ASSUME t \notin Readers(i)
      PROVE  Inc(l.cntr) # 0 /\ Inc(l.cntr) \in 0 .. CntMod - 1
  <2>1. Inc(l.cntr) = l.cntr + 1
    BY <1>1, <1>2, <1>4, Counting
  <2> QED
    BY <1>2, <1>3, <2>1 DEF Inc
<1>5. ASSUME t \notin Writers(i)
      PROVE  Inc(l.cntw) # 0 /\ Inc(l.cntw) \in 0 .. CntMod - 1
  <2>1. Inc(l.cntw) = l.cntw + 1
    BY <1>1, <1>2, <1>5, Counting
  <2> QED
    BY <1>2, <1>3, <2>1 DEF Inc
<1> QED
  BY <1>4, <1>5

(* The record a locker is after its flag was assigned.                     *)
LEMMA FlagSet ==
  ASSUME NEW l \in Locker, NEW b
  PROVE  /\ [l EXCEPT !.lockr = b] = [item |-> l.item, lockw |-> l.lockw, lockr |-> b,
                                      cntw |-> l.cntw, cntr |-> l.cntr]
         /\ [l EXCEPT !.lockw = b] = [item |-> l.item, lockw |-> b, lockr |-> l.lockr,
                                      cntw |-> l.cntw, cntr |-> l.cntr]
<1>1. [l EXCEPT !.lockr = b] = [item |-> l.item, lockw |-> l.lockw, lockr |-> b,
                                cntw |-> l.cntw, cntr |-> l.cntr]
  BY DEF Locker
<1>2. [l EXCEPT !.lockw = b] = [item |-> l.item, lockw |-> b, lockr |-> l.lockr,
                                cntw |-> l.cntw, cntr |-> l.cntr]
  BY DEF Locker
<1> QED
  BY <1>1, <1>2

(* The same after its counter and its flag were assigned.                  *)
LEMMA CounterAndFlagSet ==
  ASSUME NEW l \in Locker, NEW b, NEW c \in 0 .. CntMod - 1
  PROVE  /\ [l EXCEPT !.cntr = c, !.lockr = b] =
              [item |-> l.item, lockw |-> l.lockw, lockr |-> b, cntw |-> l.cntw, cntr |-> c]
         /\ [l EXCEPT !.lockw = b, !.cntw = c] =
              [item |-> l.item, lockw |-> b, lockr |-> l.lockr, cntw |-> c, cntr |-> l.cntr]
<1>1. [l EXCEPT !.cntr = c] \in Locker /\ [l EXCEPT !.cntw = c] \in Locker
  BY DEF Locker
<1>2. [l EXCEPT !.cntr = c] = [item |-> l.item, lockw |-> l.lockw, lockr |-> l.lockr,
                               cntw |-> l.cntw, cntr |-> c]
  BY DEF Locker
<1>3. [l EXCEPT !.cntw = c] = [item |-> l.item, lockw |-> l.lockw, lockr |-> l.lockr,
                               cntw |-> c, cntr |-> l.cntr]
  BY DEF Locker
<1>4. [l EXCEPT !.cntr = c, !.lockr = b] = [[l EXCEPT !.cntr = c] EXCEPT !.lockr = b]
  OBVIOUS
<1>5. [l EXCEPT !.lockw = b, !.cntw = c] = [[l EXCEPT !.cntw = c] EXCEPT !.lockw = b]
  BY DEF Locker
<1>6. [[l EXCEPT !.cntr = c] EXCEPT !.lockr = b] =
              [item |-> l.item, lockw |-> l.lockw, lockr |-> b, cntw |-> l.cntw, cntr |-> c]
  BY <1>1, <1>2, FlagSet, ZenonT(60)
<1>7. [[l EXCEPT !.cntw = c] EXCEPT !.lockw = b] =
              [item |-> l.item, lockw |-> b, lockr |-> l.lockr, cntw |-> c, cntr |-> l.cntr]
  BY <1>1, <1>3, FlagSet
<1> QED
  BY <1>4, <1>5, <1>6, <1>7

LEMMA LockReadStep ==
  ASSUME IInv, NEW t \in Threads, NEW i \in Items, lockany_lock_read(t, i)
  PROVE  IInv'
<1>1. PICK k, ls : k = locker_get(i) /\ ls = Claimed(i)
  OBVIOUS
<1>2. GetSpec(i, k, ls)
  BY <1>1, LockerGet DEF IInv
<1>3. pc[t] = "out" /\ held[t][i] = "none" /\ ~leaked /\ leaked' = leaked
  BY DEF lockany_lock_read, Call
<1>4. Describes(ls[k], i)
  BY <1>2, <1>3, ClaimedDescribes
<1>5. Inc(ls[k].cntr) # 0 /\ Inc(ls[k].cntr) \in 0 .. CntMod - 1
  <2>1. t \notin Readers(i)
    BY <1>3 DEF Readers, Reads
  <2> QED
    BY <1>4, <2>1, IncNotZero
<1>6. [ls[k] EXCEPT !.cntr = Inc(@)] = BlockedLocker(ls[k], "r")
  BY <1>4 DEF Describes, Locker, BlockedLocker
<1>7. locker_release([[ls[k] EXCEPT !.cntr = Inc(@)] EXCEPT !.lockr = TRUE])
        = GrantedLocker(ls[k], "r")
  <2>0. BlockedLocker(ls[k], "r") \in Locker
    BY <1>4, <1>5 DEF Describes, Locker, BlockedLocker
  <2>1. [BlockedLocker(ls[k], "r") EXCEPT !.lockr = TRUE] = GrantedLocker(ls[k], "r")
    BY <2>0, FlagSet DEF BlockedLocker, GrantedLocker
  <2>2. GrantedLocker(ls[k], "r") \in Locker /\ GrantedLocker(ls[k], "r").cntr # 0
    BY <1>4, <1>5 DEF Describes, Locker, GrantedLocker
  <2> QED
    BY <1>6, <2>1, <2>2, Kept
<1>8. CASE ~ls[k].lockw
  <2>1. /\ lockers' = [ls EXCEPT ![k] = GrantedLocker(ls[k], "r")]
        /\ Granted(t, i, "r")
    BY <1>1, <1>4, <1>6, <1>7, <1>8 DEF lockany_lock_read, Granted, BlockedLocker
  <2> QED
    BY <1>2, <1>3, <1>8, <2>1, GrantStep DEF Compatible
<1>9. CASE ls[k].lockw
  <2>1. /\ lockers' = [ls EXCEPT ![k] = BlockedLocker(ls[k], "r")]
        /\ Blocked(t, i, "r", k)
    BY <1>1, <1>4, <1>6, <1>9 DEF lockany_lock_read, Blocked, BlockedLocker
  <2> QED
    BY <1>2, <1>3, <1>9, <2>1, BlockStep DEF Compatible
<1> QED
  BY <1>8, <1>9

LEMMA LockWriteStep ==
  ASSUME IInv, NEW t \in Threads, NEW i \in Items, lockany_lock_write(t, i)
  PROVE  IInv'
<1>1. PICK k, ls : k = locker_get(i) /\ ls = Claimed(i)
  OBVIOUS
<1>2. GetSpec(i, k, ls)
  BY <1>1, LockerGet DEF IInv
<1>3. pc[t] = "out" /\ held[t][i] = "none" /\ ~leaked /\ leaked' = leaked
  BY DEF lockany_lock_write, Call
<1>4. Describes(ls[k], i)
  BY <1>2, <1>3, ClaimedDescribes
<1>5. Inc(ls[k].cntw) # 0 /\ Inc(ls[k].cntw) \in 0 .. CntMod - 1
  <2>1. t \notin Writers(i)
    BY <1>3 DEF Writers, Writes
  <2> QED
    BY <1>4, <2>1, IncNotZero
<1>6. [ls[k] EXCEPT !.cntw = Inc(@)] = BlockedLocker(ls[k], "w")
  BY <1>4 DEF Describes, Locker, BlockedLocker
<1>7. locker_release([[ls[k] EXCEPT !.cntw = Inc(@)] EXCEPT !.lockw = TRUE])
        = GrantedLocker(ls[k], "w")
  <2>0. BlockedLocker(ls[k], "w") \in Locker
    BY <1>4, <1>5 DEF Describes, Locker, BlockedLocker
  <2>1. [BlockedLocker(ls[k], "w") EXCEPT !.lockw = TRUE] = GrantedLocker(ls[k], "w")
    BY <2>0, FlagSet, ZenonT(60) DEF BlockedLocker, GrantedLocker
  <2>2. GrantedLocker(ls[k], "w") \in Locker /\ GrantedLocker(ls[k], "w").cntw # 0
    BY <1>4, <1>5 DEF Describes, Locker, GrantedLocker
  <2> QED
    BY <1>6, <2>1, <2>2, Kept
<1>8. CASE ~(ls[k].lockw \/ ls[k].lockr)
  <2>1. /\ lockers' = [ls EXCEPT ![k] = GrantedLocker(ls[k], "w")]
        /\ Granted(t, i, "w")
    BY <1>1, <1>4, <1>6, <1>7, <1>8 DEF lockany_lock_write, Granted, BlockedLocker
  <2> QED
    BY <1>2, <1>3, <1>8, <2>1, GrantStep DEF Compatible
<1>9. CASE ls[k].lockw \/ ls[k].lockr
  <2>1. /\ lockers' = [ls EXCEPT ![k] = BlockedLocker(ls[k], "w")]
        /\ Blocked(t, i, "w", k)
    BY <1>1, <1>4, <1>6, <1>9 DEF lockany_lock_write, Blocked, BlockedLocker
  <2> QED
    BY <1>2, <1>3, <1>9, <2>1, BlockStep DEF Compatible
<1> QED
  BY <1>8, <1>9

(* Nothing changes when nothing changes.                                   *)
LEMMA Stutter ==
  ASSUME IInv, UNCHANGED vars
  PROVE  IInv'
<1>1. TypeOK' /\ ReqInv' /\ Backed' /\ WaiterKeepsLocker' /\ NoLostWakeup' /\ Exclusion'
  BY DEF IInv, vars, TypeOK, ReqInv, Backed, WaiterKeepsLocker, NoLostWakeup, Exclusion,
         LockersOf
<1>2. ASSUME NEW k \in DOMAIN lockers' PROVE LockerInv(lockers[k])'
  <2>1. LockerInv(lockers[k])
    BY <1>2 DEF IInv, vars
  <2>2. \A c : Readers(c)' = Readers(c) /\ Writers(c)' = Writers(c)
    BY DEF vars, Readers, Writers, Reads, Writes
  <2> QED
    BY <2>1, <2>2 DEF LockerInv, vars
<1> QED
  BY <1>1, <1>2 DEF IInv

LEMMA TryLockReadStep ==
  ASSUME IInv, NEW t \in Threads, NEW i \in Items, lockany_try_lock_read(t, i)
  PROVE  IInv'
<1>1. PICK k, ls : k = locker_get(i) /\ ls = Claimed(i)
  OBVIOUS
<1>2. GetSpec(i, k, ls)
  BY <1>1, LockerGet DEF IInv
<1>3. pc[t] = "out" /\ held[t][i] = "none" /\ ~leaked /\ leaked' = leaked
  BY DEF lockany_try_lock_read, Call
<1>4. Describes(ls[k], i)
  BY <1>2, <1>3, ClaimedDescribes
<1>5. Inc(ls[k].cntr) # 0 /\ Inc(ls[k].cntr) \in 0 .. CntMod - 1
  <2>1. t \notin Readers(i)
    BY <1>3 DEF Readers, Reads
  <2> QED
    BY <1>4, <2>1, IncNotZero
<1>6. locker_release([ls[k] EXCEPT !.cntr = Inc(@), !.lockr = TRUE])
        = GrantedLocker(ls[k], "r")
  <2>0. PICK c \in 0 .. CntMod - 1 : c = Inc(ls[k].cntr)
    BY <1>5
  <2>b. PICK b : b = TRUE
    OBVIOUS
  <2>1. [ls[k] EXCEPT !.cntr = Inc(@), !.lockr = TRUE] = GrantedLocker(ls[k], "r")
    <3>1. ls[k] \in Locker
      BY <1>4 DEF Describes
    <3>2. PICK l \in Locker : l = ls[k]
      BY <3>1
    <3>3. [l EXCEPT !.cntr = c, !.lockr = b] =
            [item |-> l.item, lockw |-> l.lockw, lockr |-> b, cntw |-> l.cntw, cntr |-> c]
      BY CounterAndFlagSet, ZenonT(60)
    <3> QED
      BY <2>0, <2>b, <3>2, <3>3 DEF GrantedLocker
  <2>2. GrantedLocker(ls[k], "r") \in Locker /\ GrantedLocker(ls[k], "r").cntr # 0
    BY <1>4, <1>5 DEF Describes, Locker, GrantedLocker
  <2> QED
    BY <2>1, <2>2, Kept
<1>7. CASE ~ls[k].lockw
  <2>1. /\ lockers' = [ls EXCEPT ![k] = GrantedLocker(ls[k], "r")]
        /\ Granted(t, i, "r")
    BY <1>1, <1>6, <1>7 DEF lockany_try_lock_read, Granted
  <2> QED
    BY <1>2, <1>3, <1>7, <2>1, GrantStep DEF Compatible
<1>8. CASE ls[k].lockw
  <2>1. LockersOf(i) # {}
    BY <1>2, <1>8 DEF GetSpec, NewLocker
  <2>2. ls = lockers /\ k \in DOMAIN lockers
    BY <1>2, <2>1 DEF GetSpec
  <2>3. ls[k].cntw # 0
    <3>1. Writers(i) # {} /\ Writers(i) \in SUBSET Threads
      BY <1>4, <1>8 DEF Describes, Writers, Writes
    <3> QED
      BY <1>4, <3>1, Counting DEF Describes
  <2>4. locker_release(ls[k]) = ls[k]
    BY <1>4, <2>3, Kept DEF Describes
  <2>5. lockers' = [lockers EXCEPT ![k] = lockers[k]] /\ UNCHANGED <<leaked, pc, req, held>>
    BY <1>1, <1>8, <2>2, <2>4 DEF lockany_try_lock_read
  <2>6. lockers' = lockers
    BY <2>2, <2>5 DEF IInv, TypeOK
  <2> QED
    BY <2>5, <2>6, Stutter DEF vars
<1> QED
  BY <1>7, <1>8

(* A thread that is alone finds a locker that is not locked.               *)
LEMMA AloneIsFree ==
  ASSUME IInv, TriesAlone, NEW t \in Threads, NEW i \in Items, lockany_try_lock_write(t, i),
         NEW l, Describes(l, i)
  PROVE  ~l.lockw /\ ~l.lockr
<1>1. Alone(t, i) /\ held[t][i] = "none" /\ pc[t] = "out"
  BY DEF lockany_try_lock_write, Call, TriesAlone
<1>2. \A u \in Threads : held[u][i] = "none" /\ (pc[u] # "out" => req[u].item # i)
  BY <1>1 DEF Alone
<1>3. Readers(i) = {}
  BY <1>2 DEF Readers, Reads
<1> QED
  BY <1>2, <1>3 DEF Describes

LEMMA TryLockWriteStep ==
  ASSUME IInv, TriesAlone, NEW t \in Threads, NEW i \in Items, lockany_try_lock_write(t, i)
  PROVE  IInv'
<1>1. PICK k, ls : k = locker_get(i) /\ ls = Claimed(i)
  OBVIOUS
<1>2. GetSpec(i, k, ls)
  BY <1>1, LockerGet DEF IInv
<1>3. pc[t] = "out" /\ held[t][i] = "none" /\ ~leaked /\ leaked' = leaked
  BY DEF lockany_try_lock_write, Call
<1>4. Describes(ls[k], i)
  BY <1>2, <1>3, ClaimedDescribes
<1>5. Inc(ls[k].cntw) # 0 /\ Inc(ls[k].cntw) \in 0 .. CntMod - 1
  <2>1. t \notin Writers(i)
    BY <1>3 DEF Writers, Writes
  <2> QED
    BY <1>4, <2>1, IncNotZero
<1>6. ~ls[k].lockw /\ ~ls[k].lockr
  BY <1>4, AloneIsFree
<1>7. locker_release([ls[k] EXCEPT !.cntw = Inc(@), !.lockw = TRUE]) = GrantedLocker(ls[k], "w")
  <2>1. [ls[k] EXCEPT !.cntw = Inc(@), !.lockw = TRUE] = GrantedLocker(ls[k], "w")
    <3>1. [ls[k] EXCEPT !.cntw = Inc(@)] = BlockedLocker(ls[k], "w")
      BY <1>4 DEF Describes, Locker, BlockedLocker
    <3>2. BlockedLocker(ls[k], "w") \in Locker
      BY <1>4, <1>5 DEF Describes, Locker, BlockedLocker
    <3>3. [BlockedLocker(ls[k], "w") EXCEPT !.lockw = TRUE] = GrantedLocker(ls[k], "w")
      BY <3>2, FlagSet, ZenonT(60) DEF BlockedLocker, GrantedLocker
    <3>4. [ls[k] EXCEPT !.cntw = Inc(@), !.lockw = TRUE]
            = [[ls[k] EXCEPT !.cntw = Inc(@)] EXCEPT !.lockw = TRUE]
      OBVIOUS
    <3> QED
      BY <3>1, <3>3, <3>4
  <2>2. GrantedLocker(ls[k], "w") \in Locker /\ GrantedLocker(ls[k], "w").cntw # 0
    BY <1>4, <1>5 DEF Describes, Locker, GrantedLocker
  <2> QED
    BY <2>1, <2>2, Kept
<1>8. /\ lockers' = [ls EXCEPT ![k] = GrantedLocker(ls[k], "w")]
      /\ Granted(t, i, "w")
  BY <1>1, <1>6, <1>7 DEF lockany_try_lock_write, Granted
<1> QED
  BY <1>2, <1>3, <1>6, <1>8, GrantStep DEF Compatible

(* Without memory nothing is locked, yet the caller is told otherwise: the *)
(* item had no locker, hence no other thread holds it, and since mutlock   *)
(* stays locked no other thread will.                                      *)
LEMMA OutOfMemoryStep ==
  ASSUME IInv, NEW t \in Threads, NEW i \in Items, NEW op \in Ops, OutOfMemory(t, i, op)
  PROVE  IInv'
<1>1. PICK m \in {"r", "w"} : Granted(t, i, m)
  BY DEF OutOfMemory, Granted
<1>2. pc[t] = "out" /\ held[t][i] = "none" /\ ~leaked /\ leaked' = TRUE /\ lockers' = lockers
  BY DEF OutOfMemory, Call
<1>3. LockersOf(i) = {}
  <2>1. GetSpec(i, locker_get(i), Claimed(i)) /\ locker_get(i) = Len(lockers) + 1
    BY LockerGet DEF IInv, OutOfMemory, MustAlloc
  <2> QED
    BY <2>1 DEF GetSpec, IInv, TypeOK
<1>4. /\ OthersSame(i) /\ ReqInv' /\ ClientTypes'
      /\ pc' = pc /\ req' = req
      /\ \A u \in Threads \ {t} : held'[u][i] = held[u][i]
  BY <1>1, <1>2, Joins, 0 \in Nat DEF Granted, Grant, IInv, TypeOK
<1>5. TypeOK' /\ Backed' /\ WaiterKeepsLocker' /\ NoLostWakeup'
  BY <1>2, <1>4 DEF IInv, TypeOK, ClientTypes, Backed, WaiterKeepsLocker, NoLostWakeup
<1>6. \A u \in Threads : held[u][i] = "none"
  BY <1>2, <1>3 DEF IInv, Backed
<1>7. Exclusion'
  <2> SUFFICES ASSUME NEW u \in Threads, NEW v \in Threads, NEW c \in Items,
                      u # v, held'[u][c] = "w"
               PROVE  held'[v][c] = "none"
    BY DEF Exclusion
  <2>1. CASE c = i
    BY <1>4, <1>6, <2>1
  <2>2. CASE c # i
    BY <1>4, <2>2 DEF OthersSame, IInv, Exclusion
  <2> QED
    BY <2>1, <2>2
<1>8. ASSUME NEW k \in DOMAIN lockers' PROVE LockerInv(lockers[k])'
  <2>1. LockerInv(lockers[k]) /\ lockers[k].item # i /\ lockers[k] \in Locker
    BY <1>2, <1>3, <1>8 DEF IInv, TypeOK, LockersOf
  <2>2. CASE lockers[k].item = NULL
    BY <1>2, <2>1, <2>2 DEF LockerInv
  <2>3. CASE lockers[k].item # NULL
    <3>1. PICK c \in Items \ {i} : c = lockers[k].item
      BY <2>1, <2>3 DEF Locker
    <3>2. /\ Readers(c)' = Readers(c) /\ Writers(c)' = Writers(c)
          /\ \A u \in Threads : held'[u][c] = held[u][c]
      BY <1>4 DEF OthersSame
    <3>3. /\ Readers(lockers[k].item)' = Readers(lockers[k].item)
          /\ Writers(lockers[k].item)' = Writers(lockers[k].item)
      BY <1>2, <3>1, <3>2 DEF Readers, Writers, Reads, Writes
    <3>4. /\ lockers[k].cntr = Cardinality(Readers(lockers[k].item))
          /\ lockers[k].cntw = Cardinality(Writers(lockers[k].item))
          /\ Readers(lockers[k].item) \cup Writers(lockers[k].item) # {}
          /\ lockers[k].lockw <=> \E u \in Threads : held[u][c] = "w"
          /\ \A u \in Threads : held[u][c] = "r" => lockers[k].lockr
          /\ lockers[k].lockr => Readers(lockers[k].item) # {}
          /\ ~(lockers[k].lockr /\ lockers[k].lockw)
      BY <2>1, <2>3, <3>1 DEF LockerInv
    <3>5. /\ lockers[k].lockw <=> \E u \in Threads : held'[u][c] = "w"
          /\ \A u \in Threads : held'[u][c] = "r" => lockers[k].lockr
      BY <3>2, <3>4
    <3> QED
      BY <1>2, <2>3, <3>1, <3>3, <3>4, <3>5 DEF LockerInv
  <2> QED
    BY <2>2, <2>3
<1> QED
  BY <1>4, <1>5, <1>7, <1>8 DEF IInv

(* A spurious wakeup changes nothing but the place of the thread.          *)
LEMMA SpuriousWakeupStep ==
  ASSUME IInv, NEW t \in Threads, SpuriousWakeup(t)
  PROVE  IInv'
<1>0. /\ lockers' = lockers /\ leaked' = leaked /\ req' = req /\ held' = held
      /\ pc' = [pc EXCEPT ![t] = "woken"] /\ pc[t] = "sleep"
  BY DEF SpuriousWakeup
<1>1. /\ pc' \in [Threads -> {"out", "sleep", "woken"}]
      /\ \A u \in Threads : pc'[u] = "out" <=> pc[u] = "out"
      /\ \A u \in Threads : pc'[u] = "sleep" => pc[u] = "sleep"
  BY <1>0 DEF IInv, TypeOK
<1>2. TypeOK' /\ ReqInv' /\ Backed' /\ WaiterKeepsLocker' /\ Exclusion' /\ NoLostWakeup'
  BY <1>0, <1>1 DEF IInv, TypeOK, ReqInv, Backed, WaiterKeepsLocker, NoLostWakeup,
                    Exclusion, LockersOf
<1>3. ASSUME NEW k \in DOMAIN lockers' PROVE LockerInv(lockers[k])'
  <2>1. LockerInv(lockers[k])
    BY <1>0, <1>3 DEF IInv
  <2>2. \A c : Readers(c)' = Readers(c) /\ Writers(c)' = Writers(c)
    BY <1>0, <1>1 DEF Readers, Writers, Reads, Writes
  <2> QED
    BY <1>0, <2>1, <2>2 DEF LockerInv
<1> QED
  BY <1>2, <1>3 DEF IInv

(* The locker a pending request works on is the one locker_get would find. *)
LEMMA SlotIsLocker ==
  ASSUME IInv, NEW t \in Threads, pc[t] # "out"
  PROVE  /\ req[t].item \in Items /\ req[t].mode \in {"r", "w"}
         /\ held[t][req[t].item] = "none"
         /\ GetSpec(req[t].item, req[t].slot, lockers)
<1>1. /\ req[t].item \in Items /\ req[t].mode \in {"r", "w"}
      /\ held[t][req[t].item] = "none"
  BY DEF IInv, ReqInv
<1>2. /\ lockers \in Seq(Locker) /\ DOMAIN lockers = 1 .. Len(lockers)
      /\ req[t].slot \in 1 .. Len(lockers)
      /\ lockers[req[t].slot].item = req[t].item
  BY DEF IInv, TypeOK, WaiterKeepsLocker
<1>3. \A j \in 1 .. Len(lockers) : j # req[t].slot => lockers[j].item # req[t].item
  BY <1>1, <1>2, NullAssumption DEF IInv, WaiterKeepsLocker
<1>4. LockersOf(req[t].item) # {}
  BY <1>2 DEF LockersOf
<1> QED
  BY <1>1, <1>2, <1>3, <1>4 DEF GetSpec

LEMMA ResumeStep ==
  ASSUME IInv, NEW t \in Threads, Resume(t)
  PROVE  IInv'
<1>1. PICK i, k, m : i = req[t].item /\ k = req[t].slot /\ m = req[t].mode
  OBVIOUS
<1>2. pc[t] = "woken" /\ ~leaked /\ leaked' = leaked
  BY DEF Resume
<1>3. i \in Items /\ m \in {"r", "w"} /\ held[t][i] = "none" /\ GetSpec(i, k, lockers)
  BY <1>1, <1>2, SlotIsLocker
<1> DEFINE l == lockers[k]
<1>4. Describes(l, i) /\ l \in Locker /\ k \in DOMAIN lockers
  BY <1>2, <1>3, ClaimedDescribes DEF Describes, GetSpec
<1>5. ClientTypes /\ ReqInv
  BY DEF IInv, TypeOK, ClientTypes
<1>6. CASE l.lockw \/ (m = "w" /\ l.lockr)
  <2>1. /\ pc' = [pc EXCEPT ![t] = "sleep"]
        /\ lockers' = lockers /\ req' = req /\ held' = held
    BY <1>1, <1>6 DEF Resume
  <2>2. /\ pc' \in [Threads -> {"out", "sleep", "woken"}]
        /\ \A u \in Threads : pc'[u] = "out" <=> pc[u] = "out"
        /\ \A u \in Threads \ {t} : pc'[u] = pc[u]
    BY <1>2, <1>5, <2>1 DEF ClientTypes
  <2>3. TypeOK' /\ ReqInv' /\ Backed' /\ WaiterKeepsLocker' /\ Exclusion'
    BY <1>2, <2>1, <2>2 DEF IInv, TypeOK, ReqInv, Backed, WaiterKeepsLocker,
                            Exclusion, LockersOf
  <2>4. NoLostWakeup'
    BY <1>1, <1>6, <2>1, <2>2 DEF IInv, NoLostWakeup
  <2>5. ASSUME NEW j \in DOMAIN lockers' PROVE LockerInv(lockers[j])'
    <3>1. LockerInv(lockers[j])
      BY <2>1, <2>5 DEF IInv
    <3>2. \A c : Readers(c)' = Readers(c) /\ Writers(c)' = Writers(c)
      BY <2>1, <2>2 DEF Readers, Writers, Reads, Writes
    <3> QED
      BY <2>1, <3>1, <3>2 DEF LockerInv
  <2> QED
    BY <2>3, <2>4, <2>5 DEF IInv
<1>7. CASE ~(l.lockw \/ (m = "w" /\ l.lockr))
  <2>1. PICK nl : nl = IF m = "r"
                         THEN [item |-> i, lockw |-> l.lockw, lockr |-> TRUE,
                               cntw |-> l.cntw, cntr |-> l.cntr]
                         ELSE [item |-> i, lockw |-> TRUE, lockr |-> l.lockr,
                               cntw |-> l.cntw, cntr |-> l.cntr]
    OBVIOUS
  <2>2. /\ nl \in Locker /\ nl.item = i /\ nl.cntr = l.cntr /\ nl.cntw = l.cntw
        /\ m = "r" => nl.lockr /\ (nl.lockw <=> l.lockw)
        /\ m = "w" => nl.lockw /\ (nl.lockr <=> l.lockr)
    BY <1>3, <1>4, <2>1 DEF Describes, Locker
  <2>3. nl.cntr # 0 \/ nl.cntw # 0
    <3>1. /\ t \in Readers(i) \cup Writers(i)
          /\ Readers(i) \in SUBSET Threads /\ Writers(i) \in SUBSET Threads
      BY <1>1, <1>2, <1>3 DEF Readers, Writers, Reads, Writes
    <3> QED
      BY <1>4, <2>2, <3>1, Counting DEF Describes
  <2>4. /\ m = "r" => [l EXCEPT !.lockr = TRUE] = nl
        /\ m = "w" => [l EXCEPT !.lockw = TRUE] = nl
    <3>1. PICK b : b = TRUE
      OBVIOUS
    <3> QED
      BY <1>3, <1>4, <2>1, <3>1, FlagSet DEF Describes
  <2>5. /\ lockers' = [lockers EXCEPT ![k] = nl]
        /\ held' = [held EXCEPT ![t][i] = m]
        /\ pc' = [pc EXCEPT ![t] = "out"]
        /\ req' = [req EXCEPT ![t] = NoReq]
    <3>1. locker_release(nl) = nl
      BY <2>2, <2>3, Kept
    <3> QED
      BY <1>1, <1>3, <1>7, <2>4, <3>1, ZenonT(60) DEF Resume, Grant
  <2>6. ClientTypes'
    BY <1>3, <1>5, <2>5 DEF ClientTypes, NoReq
  <2>7. /\ held'[t][i] = m /\ pc'[t] = "out"
        /\ \A u \in Threads, c \in Items : u # t \/ c # i => held'[u][c] = held[u][c]
        /\ \A u \in Threads \ {t} : pc'[u] = pc[u] /\ req'[u] = req[u]
    BY <1>3, <1>5, <2>5 DEF ClientTypes
  <2>8. ReqInv'
    BY <1>5, <2>7 DEF ReqInv
  <2>9. \A c \in Items : Readers(c)' = Readers(c) /\ Writers(c)' = Writers(c)
    BY <1>1, <1>2, <1>3, <2>7 DEF Readers, Writers, Reads, Writes
  <2>10. OthersSame(i)
    BY <2>7, <2>9 DEF OthersSame
  <2>11. /\ nl.lockw <=> \E u \in Threads : held'[u][i] = "w"
         /\ \A u \in Threads : held'[u][i] = "r" => nl.lockr
         /\ nl.lockr => Readers(i)' # {}
         /\ ~(nl.lockr /\ nl.lockw)
         /\ Readers(i)' \cup Writers(i)' # {}
    <3>1. m = "r" => t \in Readers(i)
      BY <1>1, <1>2 DEF Readers, Reads
    <3>2. m = "w" => t \in Writers(i)
      BY <1>1, <1>2 DEF Writers, Writes
    <3> QED
      BY <1>3, <1>4, <1>7, <2>2, <2>7, <2>9, <3>1, <3>2 DEF Describes
  <2>12. LockerInv(nl)'
    BY <1>3, <1>4, <2>2, <2>9, <2>11, NullAssumption DEF LockerInv, Describes
  <2>13. \A u, v \in Threads : u # v /\ held'[u][i] = "w" => held'[v][i] = "none"
    BY <1>3, <1>4, <1>5, <1>7, <2>7 DEF Describes, ClientTypes
  <2>14. Consistent(i, nl)
    BY <1>3, <2>2, <2>12, <2>13, NullAssumption DEF Consistent
  <2>15. Waiting(i, k, nl)
    <3>1. ASSUME NEW u \in Threads \ {t}, pc[u] = "sleep", req[u].slot = k
          PROVE  nl.lockw \/ (req[u].mode = "w" /\ nl.lockr)
      <4>1. l.lockw \/ (req[u].mode = "w" /\ l.lockr)
        BY <3>1 DEF IInv, NoLostWakeup
      <4> QED
        BY <1>3, <2>2, <4>1
    <3> QED
      BY <2>7, <3>1 DEF Waiting
  <2> QED
    BY <1>2, <1>3, <2>5, <2>6, <2>8, <2>10, <2>14, <2>15, ListStep
<1> QED
  BY <1>6, <1>7

(* What an unlock makes of the locker: nu before it is perhaps recycled.   *)
LEMMA UnlockStep ==
  ASSUME IInv, NEW t \in Threads, NEW i \in Items, lockany_unlock(t, i)
  PROVE  IInv'
<1>1. PICK k, ls, l, nu : /\ k = locker_get(i) /\ ls = Claimed(i)
                          /\ l = ls[k] /\ nu = Unlocked(l)
  OBVIOUS
<1>2. PICK nl : nl = locker_release(nu)
  OBVIOUS
<1>3. /\ pc[t] = "out" /\ held[t][i] # "none" /\ ~leaked
      /\ leaked' = leaked /\ req' = req
      /\ lockers' = [ls EXCEPT ![k] = nl]
      /\ pc' = IF Signals(l) /\ locker_used(nu) THEN locker_signal(k) ELSE pc
      /\ held' = [held EXCEPT ![t][i] = "none"]
  BY <1>1, <1>2 DEF lockany_unlock, Grant
<1>4. GetSpec(i, k, ls)
  BY <1>1, LockerGet DEF IInv
<1>5. Describes(l, i) /\ l \in Locker
  BY <1>1, <1>3, <1>4, ClaimedDescribes DEF Describes
<1>6. ls = lockers
  BY <1>3, <1>4 DEF IInv, Backed, GetSpec
<1>7. ClientTypes /\ ReqInv
  BY DEF IInv, TypeOK, ClientTypes
<1>8. /\ held'[t][i] = "none" /\ held' \in [Threads -> [Items -> {"none", "r", "w"}]]
      /\ \A u \in Threads, c \in Items : u # t \/ c # i => held'[u][c] = held[u][c]
  BY <1>3, <1>7 DEF ClientTypes
<1>9. /\ pc' \in [Threads -> {"out", "sleep", "woken"}]
      /\ \A u \in Threads : pc'[u] = "out" <=> pc[u] = "out"
      /\ \A u \in Threads : pc'[u] = "sleep" => pc[u] = "sleep"
  BY <1>3, <1>7 DEF ClientTypes, locker_signal
<1>10. ClientTypes'
  BY <1>3, <1>7, <1>8, <1>9 DEF ClientTypes
<1>11. ReqInv'
  BY <1>3, <1>7, <1>8, <1>9 DEF ReqInv
<1>12. OthersSame(i)
  BY <1>3, <1>8, <1>9 DEF OthersSame, Readers, Writers, Reads, Writes
<1>13. Readers(i)' = Readers(i) \ {t} /\ Writers(i)' = Writers(i) \ {t}
  BY <1>3, <1>8, <1>9 DEF Readers, Writers, Reads, Writes
<1>14. /\ Readers(i) \in SUBSET Threads /\ Writers(i) \in SUBSET Threads
       /\ Readers(i)' \in SUBSET Threads /\ Writers(i)' \in SUBSET Threads
  BY DEF Readers, Writers
<1>15. held[t][i] = "r" \/ held[t][i] = "w"
  BY <1>3, <1>7 DEF ClientTypes
<1>16. /\ held[t][i] = "w" => t \in Writers(i) /\ t \notin Readers(i)
       /\ held[t][i] = "r" => t \in Readers(i) /\ t \notin Writers(i)
  BY <1>3 DEF Readers, Writers, Reads, Writes
<1>17. /\ nu \in Locker /\ nu.item = i
       /\ nu.cntr = Cardinality(Readers(i)')
       /\ nu.cntw = Cardinality(Writers(i)')
       /\ held[t][i] = "w" => ~nu.lockw /\ ~nu.lockr
       /\ held[t][i] = "r" => ~nu.lockw /\ (nu.lockr <=> Readers(i)' # {})
       /\ held[t][i] = "w" => Signals(l)
       /\ held[t][i] = "r" => l.lockr /\ ~l.lockw /\ (Signals(l) <=> Readers(i)' = {})
  <2>0. /\ Cardinality(Readers(i)') \in 0 .. CntMod - 1
        /\ Cardinality(Writers(i)') \in 0 .. CntMod - 1
        /\ Cardinality(Readers(i)') = 0 <=> Readers(i)' = {}
    BY <1>14, Counting
  <2>1. CASE held[t][i] = "w"
    <3>1. /\ Dec(l.cntw) = Cardinality(Writers(i)')
          /\ l.cntr = Cardinality(Readers(i)')
      <4>1. Readers(i)' = Readers(i)
        BY <1>13, <1>16, <2>1
      <4>2. Cardinality(Writers(i) \ {t}) = Dec(Cardinality(Writers(i)))
        BY <1>14, <1>16, <2>1, Counting
      <4>3. l.cntr = Cardinality(Readers(i)) /\ l.cntw = Cardinality(Writers(i))
        BY <1>5 DEF Describes
      <4> QED
        BY <1>13, <4>1, <4>2, <4>3
    <3>2. l.lockw /\ ~l.lockr
      BY <1>5, <2>1 DEF Describes
    <3>3. nu = [l EXCEPT !.lockw = FALSE, !.cntw = Dec(@)]
      BY <1>1, <3>2 DEF Unlocked
    <3>4. PICK b \in BOOLEAN, c \in 0 .. CntMod - 1 : b = FALSE /\ c = Dec(l.cntw)
      BY <2>0, <3>1
    <3>5. [l EXCEPT !.lockw = b, !.cntw = c] =
            [item |-> l.item, lockw |-> b, lockr |-> l.lockr, cntw |-> c, cntr |-> l.cntr]
      BY <1>5, CounterAndFlagSet
    <3>6. nu = [item |-> l.item, lockw |-> FALSE, lockr |-> l.lockr,
                cntw |-> Dec(l.cntw), cntr |-> l.cntr]
      BY <3>3, <3>4, <3>5
    <3>7. Signals(l)
      BY <3>2 DEF Signals
    <3> QED
      BY <1>5, <2>0, <2>1, <3>1, <3>2, <3>6, <3>7 DEF Describes, Locker
  <2>2. CASE held[t][i] = "r"
    <3>1. /\ Dec(l.cntr) = Cardinality(Readers(i)')
          /\ l.cntw = Cardinality(Writers(i)')
      <4>1. Writers(i)' = Writers(i)
        BY <1>13, <1>16, <2>2
      <4>2. Cardinality(Readers(i) \ {t}) = Dec(Cardinality(Readers(i)))
        BY <1>14, <1>16, <2>2, Counting
      <4>3. l.cntr = Cardinality(Readers(i)) /\ l.cntw = Cardinality(Writers(i))
        BY <1>5 DEF Describes
      <4> QED
        BY <1>13, <4>1, <4>2, <4>3
    <3>2. l.lockr /\ ~l.lockw
      BY <1>5, <2>2 DEF Describes
    <3>3. nu = [l EXCEPT !.cntr = Dec(@), !.lockr = Dec(l.cntr) # 0]
      BY <1>1, <3>2 DEF Unlocked
    <3>4. PICK b, c : b \in BOOLEAN /\ b = (Dec(l.cntr) # 0) /\ c = Dec(l.cntr)
      OBVIOUS
    <3>0. c \in 0 .. CntMod - 1
      BY <2>0, <3>1, <3>4
    <3>5. [l EXCEPT !.cntr = c, !.lockr = b] =
            [item |-> l.item, lockw |-> l.lockw, lockr |-> b, cntw |-> l.cntw, cntr |-> c]
      BY <1>5, <3>0, CounterAndFlagSet, ZenonT(60)
    <3>6. nu = [item |-> l.item, lockw |-> l.lockw, lockr |-> b, cntw |-> l.cntw, cntr |-> c]
      BY <3>3, <3>4, <3>5
    <3>7. Signals(l) <=> Readers(i)' = {}
      BY <2>0, <3>1, <3>2 DEF Signals
    <3>8. b <=> Readers(i)' # {}
      BY <2>0, <3>1, <3>4
    <3>9. l.lockw \in BOOLEAN /\ c \in 0 .. CntMod - 1
      BY <1>5, <2>0, <3>1, <3>4 DEF Locker
    <3> QED
      BY <1>5, <2>0, <2>2, <3>1, <3>2, <3>4, <3>6, <3>7, <3>8, <3>9 DEF Describes, Locker
  <2> QED
    BY <1>15, <2>1, <2>2
<1>18. /\ \A u \in Threads : held'[u][i] # "w"
       /\ \A u \in Threads : held'[u][i] = "r" => nu.lockr
       /\ nu.lockr => Readers(i)' # {}
       /\ ~nu.lockw
  <2>1. CASE held[t][i] = "w"
    <3>1. \A u \in Threads : held'[u][i] = "none"
      BY <1>8, <2>1 DEF IInv, Exclusion
    <3> QED
      BY <1>17, <2>1, <3>1
  <2>2. CASE held[t][i] = "r"
    <3>1. \A u \in Threads : held'[u][i] = "r" => u \in Readers(i)'
      BY DEF Readers, Reads
    <3>2. \A u \in Threads : held'[u][i] # "w"
      BY <1>5, <1>8, <1>17, <2>2 DEF Describes
    <3> QED
      BY <1>17, <2>2, <3>1, <3>2
  <2> QED
    BY <1>15, <2>1, <2>2
<1>19. locker_used(nu) <=> Readers(i)' \cup Writers(i)' # {}
  <2>1. /\ Cardinality(Readers(i)') = 0 <=> Readers(i)' = {}
        /\ Cardinality(Writers(i)') = 0 <=> Writers(i)' = {}
    BY <1>14, Counting
  <2> QED
    BY <1>17, <2>1 DEF locker_used
<1>20. \A u, v \in Threads : u # v /\ held'[u][i] = "w" => held'[v][i] = "none"
  BY <1>18
<1>21. CASE locker_used(nu)
  <2>1. nl = nu
    BY <1>2, <1>21 DEF locker_release
  <2>2. LockerInv(nl)'
    BY <1>17, <1>18, <1>19, <1>21, <2>1, NullAssumption DEF LockerInv
  <2>3. Consistent(i, nl)
    BY <1>17, <1>20, <2>1, <2>2, NullAssumption DEF Consistent
  <2>4. ASSUME NEW u \in Threads, pc'[u] = "sleep", req[u].slot = k
        PROVE  nl.lockw \/ (req[u].mode = "w" /\ nl.lockr)
    <3>1. ~Signals(l) /\ pc[u] = "sleep"
      BY <1>3, <1>9, <1>21, <2>4 DEF locker_signal
    <3>2. l.lockw \/ (req[u].mode = "w" /\ l.lockr)
      BY <1>1, <1>6, <2>4, <3>1 DEF IInv, NoLostWakeup
    <3> QED
      BY <1>15, <1>17, <2>1, <3>1, <3>2
  <2>5. Waiting(i, k, nl)
    BY <1>3, <1>9, <2>4 DEF Waiting
  <2> QED
    BY <1>3, <1>4, <1>10, <1>11, <1>12, <2>3, <2>5, ListStep
<1>22. CASE ~locker_used(nu)
  <2>1. nl = [nu EXCEPT !.item = NULL]
    BY <1>2, <1>22 DEF locker_release
  <2>2. /\ nl \in Locker /\ nl.item = NULL
        /\ nl.cntr = nu.cntr /\ nl.cntw = nu.cntw
        /\ (nl.lockr <=> nu.lockr) /\ (nl.lockw <=> nu.lockw)
    BY <1>17, <2>1 DEF Locker
  <2>3. nl.cntr = 0 /\ nl.cntw = 0 /\ Readers(i)' = {} /\ Writers(i)' = {}
    BY <1>19, <1>22, <2>2 DEF locker_used
  <2>4. LockerInv(nl)'
    BY <1>18, <2>2, <2>3 DEF LockerInv
  <2>5. Consistent(i, nl)
    BY <1>20, <2>2, <2>3, <2>4 DEF Consistent
  <2>6. \A u \in Threads : pc'[u] = "sleep" => pc[u] = "sleep" /\ req[u].slot # k
    <3> SUFFICES ASSUME NEW u \in Threads, pc'[u] = "sleep", req[u].slot = k PROVE FALSE
      BY <1>9
    <3>1. pc[u] = "sleep" /\ req[u].item = i /\ req[u].mode \in {"r", "w"}
      BY <1>4, <1>7, <1>9, WaiterOn DEF ReqInv
    <3>2. u \in Readers(i)' \cup Writers(i)'
      BY <1>3, <1>9, <3>1 DEF Readers, Writers, Reads, Writes
    <3> QED
      BY <2>3, <3>2
  <2>7. Waiting(i, k, nl)
    BY <1>3, <1>9, <2>6 DEF Waiting
  <2> QED
    BY <1>3, <1>4, <1>10, <1>11, <1>12, <2>5, <2>7, ListStep
<1> QED
  BY <1>21, <1>22

-----------------------------------------------------------------------------
(* The invariant.  It is not kept by lockany_try_lock_write, which grants  *)
(* a write lock on an item that others hold: the theorems are about        *)
(* clients that call it only where they are alone.                         *)

LEMMA InitInv == Init => IInv
<1> SUFFICES ASSUME Init PROVE IInv
  OBVIOUS
<1>1. TypeOK
  <2>1. lockers \in Seq(Locker)
    BY DEF Init
  <2>5. leaked \in BOOLEAN
    BY DEF Init
  <2>2. NoReq \in [mode : {"none", "r", "w"}, item : Items \cup {NULL}, slot : Nat]
    BY DEF NoReq
  <2>3. /\ pc \in [Threads -> {"out", "sleep", "woken"}]
        /\ held \in [Threads -> [Items -> {"none", "r", "w"}]]
    BY DEF Init
  <2>4. req \in [Threads -> [mode : {"none", "r", "w"}, item : Items \cup {NULL}, slot : Nat]]
    BY <2>2 DEF Init
  <2> QED
    BY <2>1, <2>3, <2>4, <2>5 DEF TypeOK
<1>2. DOMAIN lockers = {}
  BY DEF Init
<1>3. ReqInv /\ Backed /\ WaiterKeepsLocker /\ NoLostWakeup /\ Exclusion
  BY <1>2 DEF Init, ReqInv, Backed, WaiterKeepsLocker, NoLostWakeup, Exclusion
<1> QED
  BY <1>1, <1>2, <1>3 DEF IInv

LEMMA NextInv ==
  ASSUME IInv, [Next]_vars, TriesAlone
  PROVE  IInv'
<1>1. CASE UNCHANGED vars
  BY <1>1, Stutter
<1>2. CASE Next
  <2>1. PICK t \in Threads : \/ Request(t) \/ Resume(t) \/ SpuriousWakeup(t)
                             \/ \E i \in Items : lockany_unlock(t, i)
    BY <1>2 DEF Next
  <2>2. CASE Resume(t)
    BY <2>2, ResumeStep
  <2>3. CASE SpuriousWakeup(t)
    BY <2>3, SpuriousWakeupStep
  <2>4. CASE \E i \in Items : lockany_unlock(t, i)
    BY <2>4, UnlockStep
  <2>5. CASE Request(t)
    <3>1. PICK i \in Items : \/ lockany_lock_read(t, i) \/ lockany_try_lock_read(t, i)
                             \/ lockany_lock_write(t, i) \/ lockany_try_lock_write(t, i)
                             \/ \E op \in Ops : OutOfMemory(t, i, op)
      BY <2>5 DEF Request
    <3> QED
      BY <3>1, LockReadStep, TryLockReadStep, LockWriteStep, TryLockWriteStep, OutOfMemoryStep
  <2> QED
    BY <2>1, <2>2, <2>3, <2>4, <2>5
<1> QED
  BY <1>1, <1>2

(* The inductive invariant holds in every state of lockany.                *)
THEOREM Invariance ==
  ASSUME TriesAlone
  PROVE  Spec => []IInv
BY InitInv, NextInv, PTL DEF Spec

(* lockany_lock_write grants a lock only to one thread at a time and never *)
(* beside a reader, whatever the interleaving, the wakeups and the         *)
(* allocation failures.                                                    *)
THEOREM ExclusionHolds ==
  ASSUME TriesAlone
  PROVE  Spec => []Exclusion
<1>1. IInv => Exclusion
  BY DEF IInv
<1> QED
  BY <1>1, Invariance, PTL

(* The locker a thread waits on is not recycled by locker_release before   *)
(* the thread leaves lockany_lock_read or lockany_lock_write.              *)
THEOREM LockersAreKept ==
  ASSUME TriesAlone
  PROVE  Spec => []WaiterKeepsLocker
<1>1. IInv => WaiterKeepsLocker
  BY DEF IInv
<1> QED
  BY <1>1, Invariance, PTL

(* No x_cond_wait misses the broadcast of lockany_unlock.                  *)
THEOREM NoWakeupIsLost ==
  ASSUME TriesAlone
  PROVE  Spec => []NoLostWakeup
<1>1. IInv => NoLostWakeup
  BY DEF IInv
<1> QED
  BY <1>1, Invariance, PTL

(* The counters of a locker are exact and an idle locker is recycled.      *)
THEOREM CountersAreExact ==
  ASSUME TriesAlone
  PROVE  Spec => []CountsExact
<1>1. IInv => CountsExact
  <2> SUFFICES ASSUME IInv, NEW k \in DOMAIN lockers
               PROVE  LET l == lockers[k]
                      IN  IF l.item = NULL
                            THEN l.cntr = 0 /\ l.cntw = 0
                            ELSE /\ l.cntr = Cardinality(Readers(l.item))
                                 /\ l.cntw = Cardinality(Writers(l.item))
                                 /\ locker_used(l)
    BY DEF CountsExact, Readers, Writers
  <2>1. LockerInv(lockers[k])
    BY DEF IInv
  <2>2. CASE lockers[k].item = NULL
    BY <2>1, <2>2 DEF LockerInv
  <2>3. CASE lockers[k].item # NULL
    <3>1. /\ lockers[k].cntr = Cardinality(Readers(lockers[k].item))
          /\ lockers[k].cntw = Cardinality(Writers(lockers[k].item))
          /\ Readers(lockers[k].item) \cup Writers(lockers[k].item) # {}
      BY <2>1, <2>3 DEF LockerInv
    <3>2. /\ Readers(lockers[k].item) \in SUBSET Threads
          /\ Writers(lockers[k].item) \in SUBSET Threads
      BY DEF Readers, Writers
    <3>3. lockers[k].cntr # 0 \/ lockers[k].cntw # 0
      BY <3>1, <3>2, Counting
    <3> QED
      BY <2>3, <3>1, <3>3 DEF locker_used
  <2> QED
    BY <2>2, <2>3
<1> QED
  BY <1>1, Invariance, PTL

-----------------------------------------------------------------------------
(* lockany implements RWLock: every step grants a lock that is compatible  *)
(* with those granted, releases one, or does not show.                     *)

LEMMA GrantRefines ==
  ASSUME IInv, ~leaked, NEW t \in Threads, NEW i \in Items, NEW m \in {"r", "w"},
         NEW k, NEW ls, GetSpec(i, k, ls), Compatible(ls[k], m),
         held[t][i] = "none", Grant(t, i, m)
  PROVE  RW!Next
<1>1. Describes(ls[k], i)
  BY ClaimedDescribes
<1>2. \A u \in Threads : held[u][i] # "w"
  BY <1>1 DEF Describes, Compatible
<1>3. m = "w" => \A u \in Threads : held[u][i] = "none"
  BY <1>1, <1>2 DEF Describes, Compatible, IInv, TypeOK
<1>4. CASE m = "r"
  BY <1>2, <1>4 DEF Grant, RW!Next, RW!AcquireRead, RW!Grant
<1>5. CASE m = "w"
  BY <1>3, <1>5 DEF Grant, RW!Next, RW!AcquireWrite, RW!Grant
<1> QED
  BY <1>4, <1>5

LEMMA StepRefines ==
  ASSUME IInv, [Next]_vars, TriesAlone
  PROVE  [RW!Next]_held
<1>1. CASE UNCHANGED vars
  BY <1>1 DEF vars
<1>2. CASE Next
  <2>1. PICK t \in Threads : \/ Request(t) \/ Resume(t) \/ SpuriousWakeup(t)
                             \/ \E i \in Items : lockany_unlock(t, i)
    BY <1>2 DEF Next
  <2>2. CASE Resume(t)
    <3>1. PICK i, k, m : i = req[t].item /\ k = req[t].slot /\ m = req[t].mode
      OBVIOUS
    <3>2. pc[t] = "woken" /\ ~leaked
      BY <2>2 DEF Resume
    <3>3. i \in Items /\ m \in {"r", "w"} /\ held[t][i] = "none" /\ GetSpec(i, k, lockers)
      BY <3>1, <3>2, SlotIsLocker
    <3>4. held' = held \/ (Compatible(lockers[k], m) /\ Grant(t, i, m))
      BY <2>2, <3>1 DEF Resume, Compatible
    <3> QED
      BY <3>2, <3>3, <3>4, GrantRefines
  <2>3. CASE SpuriousWakeup(t)
    BY <2>3 DEF SpuriousWakeup
  <2>4. CASE \E i \in Items : lockany_unlock(t, i)
    BY <2>4 DEF lockany_unlock, Grant, RW!Next, RW!Release, RW!Grant
  <2>5. CASE Request(t)
    <3>1. PICK i \in Items : \/ lockany_lock_read(t, i) \/ lockany_try_lock_read(t, i)
                             \/ lockany_lock_write(t, i) \/ lockany_try_lock_write(t, i)
                             \/ \E op \in Ops : OutOfMemory(t, i, op)
      BY <2>5 DEF Request
    <3>3. PICK k, ls : k = locker_get(i) /\ ls = Claimed(i)
      OBVIOUS
    <3>4. GetSpec(i, k, ls)
      BY <3>3, LockerGet DEF IInv
    <3>5. held[t][i] = "none" /\ ~leaked
      BY <3>1 DEF lockany_lock_read, lockany_try_lock_read, lockany_lock_write,
                  lockany_try_lock_write, OutOfMemory, Call
    <3>6. ls[k] \in Locker
      BY <3>4 DEF GetSpec
    <3>7. CASE lockany_lock_read(t, i)
      <4>1. [ls[k] EXCEPT !.cntr = Inc(@)].lockw = ls[k].lockw
        BY <3>6 DEF Locker
      <4>2. held' = held \/ (Compatible(ls[k], "r") /\ Grant(t, i, "r"))
        BY <3>3, <3>7, <4>1 DEF lockany_lock_read, Compatible
      <4> QED
        BY <3>4, <3>5, <4>2, GrantRefines
    <3>8. CASE lockany_try_lock_read(t, i)
      <4>1. held' = held \/ (Compatible(ls[k], "r") /\ Grant(t, i, "r"))
        BY <3>3, <3>8 DEF lockany_try_lock_read, Compatible
      <4> QED
        BY <3>4, <3>5, <4>1, GrantRefines
    <3>9. CASE lockany_lock_write(t, i)
      <4>1. /\ [ls[k] EXCEPT !.cntw = Inc(@)].lockw = ls[k].lockw
            /\ [ls[k] EXCEPT !.cntw = Inc(@)].lockr = ls[k].lockr
        BY <3>6 DEF Locker
      <4>2. held' = held \/ (Compatible(ls[k], "w") /\ Grant(t, i, "w"))
        BY <3>3, <3>9, <4>1 DEF lockany_lock_write, Compatible
      <4> QED
        BY <3>4, <3>5, <4>2, GrantRefines
    <3>10. CASE \E op \in Ops : OutOfMemory(t, i, op)
      <4>1. /\ LockersOf(i) = {}
            /\ Grant(t, i, "r") \/ Grant(t, i, "w")
        <5>1. MustAlloc(i) /\ (Grant(t, i, "r") \/ Grant(t, i, "w"))
          BY <3>10 DEF OutOfMemory
        <5>2. k = Len(lockers) + 1
          BY <3>3, <5>1 DEF MustAlloc
        <5> QED
          BY <3>4, <5>1, <5>2 DEF GetSpec, IInv, TypeOK
      <4>2. \A u \in Threads : held[u][i] = "none"
        BY <3>5, <4>1 DEF IInv, Backed
      <4>3. \E m \in {"r", "w"} : Grant(t, i, m)
        BY <4>1
      <4> QED
        BY <4>1, <4>2 DEF Grant, RW!Next, RW!AcquireRead, RW!AcquireWrite, RW!Grant
    <3>11. CASE lockany_try_lock_write(t, i)
      <4>1. Describes(ls[k], i)
        BY <3>4, <3>5, ClaimedDescribes
      <4>2. Compatible(ls[k], "w") /\ Grant(t, i, "w")
        BY <3>3, <3>11, <4>1, AloneIsFree DEF lockany_try_lock_write, Compatible
      <4> QED
        BY <3>4, <3>5, <4>2, GrantRefines
    <3> QED
      BY <3>1, <3>7, <3>8, <3>9, <3>10, <3>11
  <2> QED
    BY <2>1, <2>2, <2>3, <2>4, <2>5
<1> QED
  BY <1>1, <1>2

(* Whatever lockany does, its callers see read/write locks.                *)
THEOREM Refinement ==
  ASSUME TriesAlone
  PROVE  Spec => ImplementsRWLock
<1>1. Init => RW!Init
  BY DEF Init, RW!Init
<1>2. IInv /\ [Next]_vars => [RW!Next]_held
  BY StepRefines
<1> QED
  BY <1>1, <1>2, Invariance, PTL DEF Spec, ImplementsRWLock, RW!Spec
=============================================================================
