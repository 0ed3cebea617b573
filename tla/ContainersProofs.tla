-------------------------- MODULE ContainersProofs --------------------------
(***************************************************************************)
(* Theorems about the maps of U16Id: the block of memory, cell by cell,    *)
(* implements a map of ids to pointers and a set of ids.                   *)
(***************************************************************************)
EXTENDS U16Id, Lists, FiniteSetTheorems

-----------------------------------------------------------------------------
(* The addresses in a block.                                               *)

(* The grain and the sizes.                                                *)
LEMMA GrainIs ==
  /\ N \in {2, 4, 8, 16} /\ PtrCells \in {1, 2, 4, 8, 16}
  /\ IdMod \in Nat /\ IdMod >= 2
<1>1. N \in {2, 4, 8, 16} /\ PtrCells \in 1 .. N /\ N % PtrCells = 0
      /\ IdMod \in Nat \ {0} /\ IdMod % N = 0
  BY GrainAssumption
<1>2. IdMod >= 2
  BY <1>1
<1>3. CASE N = 2
  BY <1>1, <1>2, <1>3
<1>4. CASE N = 4
  BY <1>1, <1>2, <1>4
<1>5. CASE N = 8
  BY <1>1, <1>2, <1>5
<1>6. CASE N = 16
  <2>1. PtrCells \in 1 .. 16 /\ 16 % PtrCells = 0
    BY <1>1, <1>6
  <2>2. PtrCells \in {1, 2, 4, 8, 16}
    BY <2>1
  <2> QED
    BY <1>1, <1>2, <2>2
<1> QED
  BY <1>1, <1>3, <1>4, <1>5, <1>6

(* The capacity is the smallest multiple of N less one that will do.       *)
LEMMA CapacityIs ==
  ASSUME NEW u \in Nat
  PROVE  /\ get_capacity(u) \in Nat /\ u <= get_capacity(u)
         /\ \A v \in Nat : v <= get_capacity(u) => get_capacity(v) <= get_capacity(u)
         /\ u + 1 <= get_capacity(u) => get_capacity(u + 1) = get_capacity(u)
<1>1. N \in {2, 4, 8, 16}
  BY GrainIs
<1>2. CASE N = 2
  BY <1>2 DEF get_capacity
<1>3. CASE N = 4
  BY <1>3 DEF get_capacity
<1>4. CASE N = 8
  BY <1>4 DEF get_capacity
<1>5. CASE N = 16
  BY <1>5 DEF get_capacity
<1> QED
  BY <1>1, <1>2, <1>3, <1>4, <1>5

(* Pointers follow each other after the ids, and the block has room for    *)
(* as many as its capacity.                                                *)
LEMMA AddressesAre ==
  ASSUME NEW u \in Nat, NEW i \in Nat, i > 0
  PROVE  /\ PtrAddr(u, i) \in Nat /\ get_capacity(u) < PtrAddr(u, i)
         /\ \A j \in Nat : i < j => PtrAddr(u, i) + PtrCells <= PtrAddr(u, j)
         /\ \A v \in Nat : get_capacity(u) <= get_capacity(v) => PtrAddr(u, i) <= PtrAddr(v, i)
         /\ size(get_capacity(u)) \in Nat /\ get_capacity(u) + 1 <= size(get_capacity(u))
         /\ i <= get_capacity(u) => PtrAddr(u, i) + PtrCells <= size(get_capacity(u))
<1>1. PtrCells \in {1, 2, 4, 8, 16} /\ get_capacity(u) \in Nat /\ \A v \in Nat : get_capacity(v) \in Nat
  BY GrainIs, CapacityIs
<1>2. CASE PtrCells = 1
  BY <1>1, <1>2 DEF PtrAddr, size
<1>3. CASE PtrCells = 2
  BY <1>1, <1>3 DEF PtrAddr, size
<1>4. CASE PtrCells = 4
  BY <1>1, <1>4 DEF PtrAddr, size
<1>5. CASE PtrCells = 8
  BY <1>1, <1>5 DEF PtrAddr, size
<1>6. CASE PtrCells = 16
  BY <1>1, <1>6 DEF PtrAddr, size
<1> QED
  BY <1>1, <1>2, <1>3, <1>4, <1>5, <1>6

-----------------------------------------------------------------------------
(* Reading and writing.                                                    *)

(* The cells of a block of pointers of V.                                  *)
Cells(V) ==
  {IdCell(n) : n \in 0 .. IdMod} \cup {NoCell}
    \cup {PtrCell(p, k) : p \in V \cup {NoPtr}, k \in 1 .. PtrCells}

(* The pointer p is at an address.                                         *)
Points(m, a, p) == \A k \in 1 .. PtrCells : m[a + k] = PtrCell(p, k)

(* An id is read as it was written.                                        *)
LEMMA IdIsRead ==
  ASSUME NEW m, NEW a, NEW n, m[a + 1] = IdCell(n)
  PROVE  ReadId(m, a) = n
BY DEF ReadId, IdCell

(* A pointer is read as it was written.                                    *)
LEMMA PtrIsRead ==
  ASSUME NEW m, NEW a \in Nat, NEW p, Points(m, a, p)
  PROVE  ReadPtr(m, a) = p
<1>1. 1 \in 1 .. PtrCells
  BY GrainIs
<1>2. m[a + 1] = PtrCell(p, 1)
  BY <1>1 DEF Points
<1>3. m[a + 1][1] = "ptr" /\ m[a + 1][2] = p
  BY <1>2 DEF PtrCell
<1> QED
  BY <1>3 DEF ReadPtr, Points

(* What is read is a pointer or NoPtr.                                     *)
LEMMA ReadIsPtr ==
  ASSUME NEW V, NEW m \in Seq(Cells(V)), NEW a \in Nat, a + PtrCells <= Len(m)
  PROVE  ReadPtr(m, a) \in V \cup {NoPtr}
<1>1. a + 1 \in 1 .. Len(m)
  BY GrainIs
<1>2. m[a + 1] \in Cells(V)
  BY <1>1
<1>3. CASE \E n \in 0 .. IdMod : m[a + 1] = IdCell(n)
  BY <1>3 DEF ReadPtr, IdCell
<1>4. CASE m[a + 1] = NoCell
  BY <1>4 DEF ReadPtr, NoCell
<1>5. CASE \E p \in V \cup {NoPtr}, k \in 1 .. PtrCells : m[a + 1] = PtrCell(p, k)
  BY <1>5 DEF ReadPtr, PtrCell
<1>6. \/ \E n \in 0 .. IdMod : m[a + 1] = IdCell(n)
      \/ m[a + 1] = NoCell
      \/ \E p \in V \cup {NoPtr}, k \in 1 .. PtrCells : m[a + 1] = PtrCell(p, k)
  <2> DEFINE x == m[a + 1]
  <2>1. x \in Cells(V)
    BY <1>2
  <2> HIDE DEF x
  <2>2. \/ \E n \in 0 .. IdMod : x = IdCell(n)
        \/ x = NoCell
        \/ \E p \in V \cup {NoPtr}, k \in 1 .. PtrCells : x = PtrCell(p, k)
    BY <2>1, SMTT(60) DEF Cells
  <2> QED
    BY <2>2 DEF x
<1> QED
  BY <1>3, <1>4, <1>5, <1>6

(* Writing an id changes one cell.                                         *)
LEMMA IdIsWritten ==
  ASSUME NEW V, NEW m \in Seq(Cells(V)), NEW a \in Nat, a + 1 <= Len(m), NEW n \in 0 .. IdMod
  PROVE  LET w == WriteId(m, a, n)
         IN /\ w \in Seq(Cells(V)) /\ Len(w) = Len(m)
            /\ w[a + 1] = IdCell(n)
            /\ \A j \in 1 .. Len(m) : j # a + 1 => w[j] = m[j]
<1>1. IdCell(n) \in Cells(V)
  BY DEF Cells
<1>2. a + 1 \in 1 .. Len(m)
  OBVIOUS
<1> QED
  BY <1>1, <1>2 DEF WriteId, ReplaceAt

(* Writing a pointer changes its cells.                                    *)
LEMMA PtrIsWritten ==
  ASSUME NEW V, NEW m \in Seq(Cells(V)), NEW a \in Nat, a + PtrCells <= Len(m),
         NEW p \in V \cup {NoPtr}
  PROVE  LET w == WritePtr(m, a, p)
         IN /\ w \in Seq(Cells(V)) /\ Len(w) = Len(m)
            /\ Points(w, a, p)
            /\ \A j \in 1 .. Len(m) : j <= a \/ j > a + PtrCells => w[j] = m[j]
<1> DEFINE q == [k \in 1 .. PtrCells |-> PtrCell(p, k)]
           s == SubSeq(m, 1, a)
           t == SubSeq(m, a + PtrCells + 1, Len(m))
<1>1. PtrCells \in Nat /\ Len(m) \in Nat
  BY GrainIs
<1>2. q \in Seq(Cells(V)) /\ Len(q) = PtrCells
  <2>1. \A k \in 1 .. PtrCells : PtrCell(p, k) \in Cells(V)
    BY DEF Cells
  <2> HIDE DEF PtrCell
  <2> QED
    BY <1>1, <2>1
<1>3. s \in Seq(Cells(V)) /\ Len(s) = a /\ \A j \in 1 .. a : s[j] = m[j]
  BY <1>1
<1>4. /\ t \in Seq(Cells(V)) /\ Len(t) = Len(m) - (a + PtrCells)
      /\ \A j \in 1 .. Len(t) : t[j] = m[a + PtrCells + j]
  BY <1>1
<1>5. \A k \in 1 .. PtrCells : q[k] = PtrCell(p, k)
  OBVIOUS
<1> HIDE DEF q, s, t
<1> DEFINE w == (s \o q) \o t
<1>6. /\ s \o q \in Seq(Cells(V)) /\ Len(s \o q) = a + PtrCells
      /\ \A j \in 1 .. a : (s \o q)[j] = s[j]
      /\ \A k \in 1 .. PtrCells : (s \o q)[a + k] = q[k]
  <2>1. /\ s \o q \in Seq(Cells(V)) /\ Len(s \o q) = a + PtrCells
        /\ \A j \in 1 .. a : (s \o q)[j] = s[j]
        /\ \A j \in (a + 1) .. (a + PtrCells) : (s \o q)[j] = q[j - a]
    BY <1>2, <1>3, ConcatIs, ZenonT(60)
  <2>2. \A k \in 1 .. PtrCells : a + k \in (a + 1) .. (a + PtrCells) /\ (a + k) - a = k
    BY <1>1
  <2> QED
    BY <2>1, <2>2
<1>7. /\ w \in Seq(Cells(V)) /\ Len(w) = Len(m)
      /\ \A j \in 1 .. (a + PtrCells) : w[j] = (s \o q)[j]
      /\ \A j \in 1 .. Len(t) : w[a + PtrCells + j] = t[j]
  <2> DEFINE r == s \o q
  <2>1. r \in Seq(Cells(V)) /\ Len(r) = a + PtrCells
    BY <1>6
  <2> HIDE DEF r
  <2>2. /\ r \o t \in Seq(Cells(V)) /\ Len(r \o t) = Len(r) + Len(t)
        /\ \A j \in 1 .. Len(r) : (r \o t)[j] = r[j]
        /\ \A j \in (Len(r) + 1) .. (Len(r) + Len(t)) : (r \o t)[j] = t[j - Len(r)]
    BY <1>4, <2>1, ConcatIs
  <2>3. \A j \in 1 .. Len(t) : /\ a + PtrCells + j \in (Len(r) + 1) .. (Len(r) + Len(t))
                               /\ (a + PtrCells + j) - Len(r) = j
    BY <1>1, <1>4, <2>1
  <2>4. Len(r) + Len(t) = Len(m)
    BY <1>1, <1>4, <2>1
  <2> QED
    BY <2>1, <2>2, <2>3, <2>4 DEF r
<1> HIDE DEF w
<1>8. \A k \in 1 .. PtrCells : w[a + k] = PtrCell(p, k)
  <2> SUFFICES ASSUME NEW k \in 1 .. PtrCells PROVE w[a + k] = PtrCell(p, k)
    OBVIOUS
  <2>1. a + k \in 1 .. (a + PtrCells)
    BY <1>1
  <2> QED
    BY <1>5, <1>6, <1>7, <2>1, Zenon
<1>9. ASSUME NEW j \in 1 .. Len(m), j <= a \/ j > a + PtrCells PROVE w[j] = m[j]
  <2>1. CASE j <= a
    <3>1. j \in 1 .. a /\ j \in 1 .. (a + PtrCells)
      BY <1>1, <2>1
    <3> QED
      BY <1>3, <1>6, <1>7, <3>1, Zenon
  <2>2. CASE j > a + PtrCells
    <3> DEFINE i == j - (a + PtrCells)
    <3>1. i \in 1 .. Len(t) /\ j = a + PtrCells + i
      BY <1>1, <1>4, <2>2
    <3> HIDE DEF i
    <3> QED
      BY <1>4, <1>7, <3>1, Zenon
  <2> QED
    BY <1>9, <2>1, <2>2
<1>10. w = WritePtr(m, a, p)
  BY DEF w, s, q, t, WritePtr
<1> QED
  BY <1>7, <1>8, <1>9, <1>10 DEF Points

(* A block that grows keeps its cells; one that shrinks the first ones.    *)
LEMMA CellsAreKept ==
  ASSUME NEW V, NEW m \in Seq(Cells(V)), NEW n \in Nat
  PROVE  LET r == realloc(m, n)
         IN /\ r \in Seq(Cells(V)) /\ Len(r) = n
            /\ \A j \in 1 .. Len(m) : j <= n => r[j] = m[j]
<1>1. CASE n <= Len(m)
  BY <1>1 DEF realloc
<1>2. CASE ~ (n <= Len(m))
  <2> DEFINE e == [k \in 1 .. n - Len(m) |-> NoCell]
  <2>1. n - Len(m) \in Nat /\ Len(m) \in Nat
    BY <1>2
  <2>2. NoCell \in Cells(V)
    BY DEF Cells
  <2>3. e \in Seq(Cells(V)) /\ Len(e) = n - Len(m)
    <3> HIDE DEF NoCell
    <3> QED
      BY <2>1, <2>2
  <2> HIDE DEF e
  <2>4. realloc(m, n) = m \o e
    BY <1>2 DEF realloc, e
  <2> QED
    BY <2>1, <2>3, <2>4
<1> QED
  BY <1>1, <1>2

-----------------------------------------------------------------------------
(* Moving the pointers.                                                    *)

(* The block after each move of MovePtrs.                                  *)
Moving(b, m, order, old, new) ==
  /\ b[0] = m
  /\ \A k \in 1 .. Len(order) :
       b[k] = WritePtr(b[k - 1], PtrAddr(new, order[k]), ReadPtr(b[k - 1], PtrAddr(old, order[k])))

(* The blocks of the length of m.                                          *)
SameLength(V, m) == {b \in Seq(Cells(V)) : Len(b) = Len(m)}

(* The pointers of index order[k] are in the block, in both layouts.       *)
Inside(m, order, old, new) ==
  \A k \in 1 .. Len(order) :
    /\ PtrAddr(old, order[k]) \in Nat /\ PtrAddr(old, order[k]) + PtrCells <= Len(m)
    /\ PtrAddr(new, order[k]) \in Nat /\ PtrAddr(new, order[k]) + PtrCells <= Len(m)

(* MovePtrs is what its recursive function says.                           *)
LEMMA MovePtrsIs ==
  ASSUME NEW V, NEW m \in Seq(Cells(V)), NEW order \in Seq(Nat), NEW old \in Nat, NEW new \in Nat,
         Inside(m, order, old, new)
  PROVE  \E b \in [0 .. Len(order) -> SameLength(V, m)] :
           Moving(b, m, order, old, new) /\ MovePtrs(m, order, old, new) = b[Len(order)]
<1> DEFINE n == Len(order)
           W == SameLength(V, m)
           Moved(b, k) ==
             WritePtr(b, PtrAddr(new, order[k]), ReadPtr(b, PtrAddr(old, order[k])))
           b == CHOOSE f : f = [k \in 0 .. n |-> IF k = 0 THEN m ELSE Moved(f[k - 1], k)]
           Step == [x \in (1 .. n) \X W |-> Moved(x[2], x[1])]
<1>1. n \in Nat /\ m \in W
  BY DEF SameLength
<1>2. ASSUME NEW k \in 1 .. n, NEW c \in W PROVE Moved(c, k) \in W
  <2>1. c \in Seq(Cells(V)) /\ Len(c) = Len(m)
    BY <1>2 DEF SameLength
  <2>2. /\ PtrAddr(old, order[k]) \in Nat /\ PtrAddr(old, order[k]) + PtrCells <= Len(c)
        /\ PtrAddr(new, order[k]) \in Nat /\ PtrAddr(new, order[k]) + PtrCells <= Len(c)
    BY <2>1 DEF Inside
  <2>3. ReadPtr(c, PtrAddr(old, order[k])) \in V \cup {NoPtr}
    BY <2>1, <2>2, ReadIsPtr
  <2>4. Moved(c, k) \in Seq(Cells(V)) /\ Len(Moved(c, k)) = Len(c)
    BY <2>1, <2>2, <2>3, PtrIsWritten
  <2> QED
    BY <2>1, <2>4 DEF SameLength
<1>3. Step \in [(1 .. n) \X W -> W]
  <2> HIDE DEF Moved, W
  <2>1. \A x \in (1 .. n) \X W : Moved(x[2], x[1]) \in W
    BY <1>2
  <2> QED
    BY <2>1, Zenon
<1>4. \A k \in 1 .. n, c \in W : Step[<<k, c>>] = Moved(c, k)
  <2> HIDE DEF Moved, W
  <2> QED
    OBVIOUS
<1> HIDE DEF Step, W, n
<1>5. PICK f \in [0 .. n -> W] : Recursive(f, n, m, Step)
  BY <1>1, <1>3, Recursion
<1>6. f = [k \in 0 .. n |-> IF k = 0 THEN m ELSE Moved(f[k - 1], k)]
  <2> HIDE DEF Moved
  <2>1. \A k \in 0 .. n : k # 0 => k \in 1 .. n /\ k - 1 \in 0 .. n
    BY <1>1
  <2>2. \A k \in 1 .. n : f[k - 1] \in W
    <3> SUFFICES ASSUME NEW k \in 1 .. n PROVE f[k - 1] \in W
      OBVIOUS
    <3>1. k - 1 \in 0 .. n
      BY <1>1
    <3> QED
      BY <3>1
  <2>3. \A k \in 1 .. n : f[k] = Moved(f[k - 1], k)
    BY <1>4, <1>5, <2>2, Zenon DEF Recursive
  <2>4. f = [k \in 0 .. n |-> f[k]]
    BY Zenon
  <2> QED
    BY <1>5, <2>1, <2>3, <2>4, Zenon DEF Recursive
<1>7. b = [k \in 0 .. n |-> IF k = 0 THEN m ELSE Moved(b[k - 1], k)]
  <2> HIDE DEF Moved
  <2> QED
    BY <1>6, Zenon
<1>8. MovePtrs(m, order, old, new) = b[n]
  BY DEF MovePtrs, n
<1> HIDE DEF b, Moved
<1>9. b[0] = m /\ \A k \in 1 .. n : b[k] = Moved(b[k - 1], k)
  <2>1. 0 \in 0 .. n /\ \A k \in 1 .. n : k \in 0 .. n /\ k # 0
    BY <1>1
  <2> QED
    BY <1>7, <2>1, Zenon
<1> DEFINE S == {k \in 0 .. n : b[k] \in W}
<1>10. 0 .. n \subseteq S
  <2>1. 0 \in S
    BY <1>1, <1>9
  <2>2. ASSUME NEW k \in 1 .. n, k - 1 \in S PROVE k \in S
    <3>1. b[k - 1] \in W /\ k \in 0 .. n
      BY <1>1, <2>2
    <3>2. Moved(b[k - 1], k) \in W
      BY <1>2, <3>1
    <3> QED
      BY <1>9, <3>1, <3>2
  <2> HIDE DEF S
  <2> QED
    BY <1>1, <2>1, <2>2, UpTo
<1>11. b \in [0 .. n -> W]
  <2>1. b = [k \in 0 .. n |-> b[k]]
    BY <1>7, Zenon
  <2>2. \A k \in 0 .. n : b[k] \in W
    BY <1>10
  <2> QED
    BY <2>1, <2>2, Zenon
<1> QED
  BY <1>8, <1>9, <1>11, Zenon DEF Moving, Moved, n, W

(* A pointer that is not overwritten stays.                                *)
LEMMA PointsStay ==
  ASSUME NEW m, NEW w, NEW l \in Nat, NEW a \in Nat, NEW c \in Nat, NEW p, c + PtrCells <= l,
         \A j \in 1 .. l : j <= a \/ j > a + PtrCells => w[j] = m[j],
         c + PtrCells <= a \/ a + PtrCells <= c, Points(m, c, p)
  PROVE  Points(w, c, p)
<1> SUFFICES ASSUME NEW k \in 1 .. PtrCells PROVE w[c + k] = PtrCell(p, k)
  BY DEF Points
<1>1. c + k \in 1 .. l /\ (c + k <= a \/ c + k > a + PtrCells)
  BY GrainIs
<1>2. m[c + k] = PtrCell(p, k)
  BY DEF Points
<1> QED
  BY <1>1, <1>2, Zenon

(* An order in which the pointers can be moved: each one once, never over  *)
(* one that has still to be.                                               *)
Ordered(order, n, old, new) ==
  /\ order \in Seq(1 .. n) /\ Len(order) = n
  /\ \A i \in 1 .. n : \E k \in 1 .. n : order[k] = i
  /\ \A j, k \in 1 .. n : j < k =>
       /\ order[j] # order[k]
       /\ \/ PtrAddr(old, order[k]) + PtrCells <= PtrAddr(new, order[j])
          \/ PtrAddr(new, order[j]) + PtrCells <= PtrAddr(old, order[k])

(* Growing moves them from the last one, shrinking from the first one.     *)
LEMMA MovesAreOrdered ==
  ASSUME NEW n \in Nat, NEW old \in Nat, NEW new \in Nat
  PROVE  /\ get_capacity(old) <= get_capacity(new) => Ordered(Downwards(n), n, old, new)
         /\ get_capacity(new) <= get_capacity(old) => Ordered(Upwards(n), n, old, new)
<1>1. PtrCells \in Nat
  BY GrainIs
<1>2. \A i \in 1 .. n : PtrAddr(old, i) \in Nat /\ PtrAddr(new, i) \in Nat
  BY AddressesAre
<1>3. ASSUME get_capacity(old) <= get_capacity(new) PROVE Ordered(Downwards(n), n, old, new)
  <2> DEFINE o == Downwards(n)
  <2>1. o \in Seq(1 .. n) /\ Len(o) = n /\ \A k \in 1 .. n : o[k] = n + 1 - k
    BY DEF Downwards
  <2>2. \A i \in 1 .. n : n + 1 - i \in 1 .. n /\ o[n + 1 - i] = i
    BY <2>1
  <2>3. ASSUME NEW j \in 1 .. n, NEW k \in 1 .. n, j < k
        PROVE  o[j] # o[k] /\ PtrAddr(old, o[k]) + PtrCells <= PtrAddr(new, o[j])
    <3>1. o[k] \in 1 .. n /\ o[j] \in 1 .. n /\ o[k] < o[j]
      BY <2>1, <2>3
    <3> HIDE DEF o
    <3>2. PtrAddr(old, o[k]) + PtrCells <= PtrAddr(old, o[j])
      BY <3>1, AddressesAre, SMTT(60)
    <3>3. PtrAddr(old, o[j]) <= PtrAddr(new, o[j])
      BY <1>3, <3>1, AddressesAre, SMTT(60)
    <3>4. PtrAddr(old, o[j]) \in Nat /\ PtrAddr(new, o[j]) \in Nat /\ PtrAddr(old, o[k]) \in Nat
      BY <1>2, <3>1
    <3>5. PtrAddr(old, o[k]) + PtrCells <= PtrAddr(new, o[j])
      BY <1>1, <3>2, <3>3, <3>4
    <3> QED
      BY <3>1, <3>5
  <2> HIDE DEF o
  <2> QED
    BY <2>1, <2>2, <2>3 DEF Ordered, o
<1>4. ASSUME get_capacity(new) <= get_capacity(old) PROVE Ordered(Upwards(n), n, old, new)
  <2> DEFINE o == Upwards(n)
  <2>1. o \in Seq(1 .. n) /\ Len(o) = n /\ \A k \in 1 .. n : o[k] = k
    BY DEF Upwards
  <2>2. ASSUME NEW j \in 1 .. n, NEW k \in 1 .. n, j < k
        PROVE  o[j] # o[k] /\ PtrAddr(new, o[j]) + PtrCells <= PtrAddr(old, o[k])
    <3>1. o[j] = j /\ o[k] = k
      BY <2>1
    <3>2. PtrAddr(new, j) + PtrCells <= PtrAddr(new, k)
      BY <2>2, AddressesAre
    <3>3. PtrAddr(new, k) <= PtrAddr(old, k)
      BY <1>4, AddressesAre
    <3>4. PtrAddr(new, j) \in Nat /\ PtrAddr(new, k) \in Nat /\ PtrAddr(old, k) \in Nat
      BY <1>2
    <3>5. PtrAddr(new, j) + PtrCells <= PtrAddr(old, k)
      BY <1>1, <3>2, <3>3, <3>4
    <3> QED
      BY <2>2, <3>1, <3>5
  <2> HIDE DEF o
  <2> QED
    BY <2>1, <2>2 DEF Ordered, o
<1> QED
  BY <1>3, <1>4

(* The pointers of ptrs are in the layout of the upper index u.            *)
Pointers(m, u, n, ptrs) == \A i \in 1 .. n : Points(m, PtrAddr(u, i), ptrs[i])

(* MovePtrs changes the layout of the pointers, and none of the cells that *)
(* are ids in both.                                                        *)
LEMMA PtrsAreMoved ==
  ASSUME NEW V, NEW m \in Seq(Cells(V)), NEW n \in Nat, NEW old \in Nat, NEW new \in Nat,
         NEW order, Ordered(order, n, old, new), NEW ptrs \in [1 .. n -> V],
         n <= get_capacity(old), n <= get_capacity(new),
         size(get_capacity(old)) <= Len(m), size(get_capacity(new)) <= Len(m),
         Pointers(m, old, n, ptrs)
  PROVE  LET w == MovePtrs(m, order, old, new)
         IN /\ w \in Seq(Cells(V)) /\ Len(w) = Len(m)
            /\ Pointers(w, new, n, ptrs)
            /\ \A j \in 1 .. Len(m) :
                 j <= get_capacity(old) + 1 /\ j <= get_capacity(new) + 1 => w[j] = m[j]
<1> DEFINE O(i) == PtrAddr(old, i)
           T(i) == PtrAddr(new, i)
           Low(j) == j <= get_capacity(old) + 1 /\ j <= get_capacity(new) + 1
<1>1. PtrCells \in Nat /\ Len(m) \in Nat
      /\ get_capacity(old) \in Nat /\ get_capacity(new) \in Nat
  BY GrainIs, CapacityIs, SMTT(60)
<1>2. /\ order \in Seq(1 .. n) /\ Len(order) = n
      /\ \A k \in 1 .. n : order[k] \in 1 .. n
      /\ \A i \in 1 .. n : \E k \in 1 .. n : order[k] = i
  <2>1. order \in Seq(1 .. n) /\ Len(order) = n
    BY DEF Ordered
  <2>2. \A k \in 1 .. n : order[k] \in 1 .. n
    BY <2>1
  <2> QED
    BY <2>1, <2>2, Zenon DEF Ordered
<1>3. ASSUME NEW i \in 1 .. n
      PROVE  /\ O(i) \in Nat /\ O(i) + PtrCells <= Len(m) /\ get_capacity(old) < O(i)
             /\ T(i) \in Nat /\ T(i) + PtrCells <= Len(m) /\ get_capacity(new) < T(i)
  <2>1. i \in Nat /\ i > 0 /\ i <= get_capacity(old) /\ i <= get_capacity(new)
    BY <1>1
  <2>2. /\ O(i) \in Nat /\ O(i) + PtrCells <= size(get_capacity(old)) /\ get_capacity(old) < O(i)
        /\ size(get_capacity(old)) \in Nat
    BY <2>1, AddressesAre
  <2>3. /\ T(i) \in Nat /\ T(i) + PtrCells <= size(get_capacity(new)) /\ get_capacity(new) < T(i)
        /\ size(get_capacity(new)) \in Nat
    BY <2>1, AddressesAre
  <2> HIDE DEF O, T
  <2> QED
    BY <1>1, <2>2, <2>3
<1>4. ASSUME NEW i \in 1 .. n, NEW j \in 1 .. n, i # j
      PROVE  T(i) + PtrCells <= T(j) \/ T(j) + PtrCells <= T(i)
  <2>1. i \in Nat /\ j \in Nat /\ i > 0 /\ j > 0 /\ (i < j \/ j < i)
    BY <1>4
  <2> QED
    BY <2>1, AddressesAre
<1>5. Inside(m, order, old, new)
  BY <1>2, <1>3 DEF Inside
<1>6. order \in Seq(Nat)
  BY <1>2
<1>7. PICK b \in [0 .. n -> SameLength(V, m)] :
        Moving(b, m, order, old, new) /\ MovePtrs(m, order, old, new) = b[n]
  <2>1. \E b \in [0 .. Len(order) -> SameLength(V, m)] :
          Moving(b, m, order, old, new) /\ MovePtrs(m, order, old, new) = b[Len(order)]
    BY <1>5, <1>6, MovePtrsIs
  <2> QED
    BY <1>2, <2>1
<1>8. \A k \in 0 .. n : b[k] \in Seq(Cells(V)) /\ Len(b[k]) = Len(m)
  BY DEF SameLength
<1> HIDE DEF O, T
<1> DEFINE Done(k) ==
             /\ \A j \in 1 .. n : j <= k => Points(b[k], T(order[j]), ptrs[order[j]])
             /\ \A j \in 1 .. n : j > k => Points(b[k], O(order[j]), ptrs[order[j]])
             /\ \A j \in 1 .. Len(m) : Low(j) => b[k][j] = m[j]
           S == {k \in 0 .. n : Done(k)}
<1>9. 0 \in S
  <2>1. b[0] = m /\ 0 \in 0 .. n
    BY <1>7 DEF Moving
  <2>2. \A j \in 1 .. n : ~ (j <= 0) /\ j > 0
    OBVIOUS
  <2>3. \A j \in 1 .. n : Points(m, O(order[j]), ptrs[order[j]])
    BY <1>2 DEF Pointers, O
  <2>4. Done(0)
    BY <2>1, <2>2, <2>3, Zenon
  <2> HIDE DEF Done
  <2> QED
    BY <2>1, <2>4
<1>10. ASSUME NEW k \in 1 .. n, k - 1 \in S PROVE k \in S
  <2> DEFINE i == order[k]
             c == b[k - 1]
             d == b[k]
  <2>1. k - 1 \in 0 .. n /\ k \in 0 .. n /\ i \in 1 .. n /\ ptrs[i] \in V
    <3>1. i \in 1 .. n
      BY <1>2
    <3> HIDE DEF i
    <3> QED
      BY <3>1
  <2>2. c \in Seq(Cells(V)) /\ Len(c) = Len(m) /\ d \in Seq(Cells(V)) /\ Len(d) = Len(m)
    BY <1>8, <2>1
  <2>3. Done(k - 1)
    BY <1>10
  <2>4. k > k - 1
    OBVIOUS
  <2>5. Points(c, O(i), ptrs[i])
    BY <2>3, <2>4
  <2>6. O(i) \in Nat /\ T(i) \in Nat /\ T(i) + PtrCells <= Len(c)
    BY <1>3, <2>1, <2>2
  <2>7. ReadPtr(c, O(i)) = ptrs[i]
    BY <2>5, <2>6, PtrIsRead
  <2>8. d = WritePtr(c, T(i), ptrs[i])
    <3>1. d = WritePtr(c, T(i), ReadPtr(c, O(i)))
      BY <1>2, <1>7 DEF Moving, O, T
    <3> QED
      BY <2>7, <3>1
  <2> HIDE DEF d, c, i
  <2>9. /\ Points(d, T(i), ptrs[i])
        /\ \A j \in 1 .. Len(m) : j <= T(i) \/ j > T(i) + PtrCells => d[j] = c[j]
    BY <2>1, <2>2, <2>6, <2>8, PtrIsWritten
  <2>10. ASSUME NEW j \in 1 .. n, j <= k PROVE Points(d, T(order[j]), ptrs[order[j]])
    <3>1. CASE j = k
      BY <2>9, <3>1 DEF i
    <3>2. CASE j # k
      <4>1. j < k /\ j <= k - 1
        BY <2>10, <3>2
      <4>2. order[j] \in 1 .. n /\ order[j] # i
        BY <1>2, <4>1 DEF Ordered, i
      <4>3. Points(c, T(order[j]), ptrs[order[j]])
        BY <2>3, <4>1 DEF c
      <4>4. T(order[j]) + PtrCells <= T(i) \/ T(i) + PtrCells <= T(order[j])
        BY <1>4, <2>1, <4>2
      <4>5. T(order[j]) \in Nat /\ T(order[j]) + PtrCells <= Len(m)
        BY <1>3, <4>2
      <4> DEFINE x == T(order[j])
                 q == ptrs[order[j]]
      <4> HIDE DEF x, q
      <4>6. Points(d, x, q)
        <5>1. Points(c, x, q) /\ x \in Nat /\ x + PtrCells <= Len(m)
              /\ (x + PtrCells <= T(i) \/ T(i) + PtrCells <= x)
          BY <4>3, <4>4, <4>5 DEF x, q
        <5> QED
          BY <1>1, <2>6, <2>9, <5>1, PointsStay
      <4> QED
        BY <4>6 DEF x, q
    <3> QED
      BY <3>1, <3>2
  <2>11. ASSUME NEW j \in 1 .. n, j > k PROVE Points(d, O(order[j]), ptrs[order[j]])
    <3>1. j > k - 1 /\ k < j
      BY <2>11
    <3>2. Points(c, O(order[j]), ptrs[order[j]])
      BY <2>3, <3>1 DEF c
    <3>3. O(order[j]) + PtrCells <= T(i) \/ T(i) + PtrCells <= O(order[j])
      BY <3>1 DEF Ordered, O, T, i
    <3>4. O(order[j]) \in Nat /\ O(order[j]) + PtrCells <= Len(m)
      BY <1>2, <1>3
    <3> DEFINE x == O(order[j])
               q == ptrs[order[j]]
    <3> HIDE DEF x, q
    <3>5. Points(d, x, q)
      <4>1. Points(c, x, q) /\ x \in Nat /\ x + PtrCells <= Len(m)
            /\ (x + PtrCells <= T(i) \/ T(i) + PtrCells <= x)
        BY <3>2, <3>3, <3>4 DEF x, q
      <4> QED
        BY <1>1, <2>6, <2>9, <4>1, PointsStay
    <3> QED
      BY <3>5 DEF x, q
  <2>12. ASSUME NEW j \in 1 .. Len(m), Low(j) PROVE d[j] = m[j]
    <3>1. c[j] = m[j]
      BY <2>3, <2>12 DEF c
    <3>2. j <= T(i)
      BY <1>1, <1>3, <2>1, <2>12
    <3> QED
      BY <2>9, <3>1, <3>2
  <2>13. Done(k)
    BY <2>10, <2>11, <2>12 DEF d
  <2> HIDE DEF Done
  <2> QED
    BY <2>1, <2>13
<1>11. n \in S
  <2> HIDE DEF S
  <2>1. 0 .. n \subseteq S
    BY <1>9, <1>10, UpTo
  <2> QED
    BY <2>1
<1>12. Done(n) /\ b[n] \in Seq(Cells(V)) /\ Len(b[n]) = Len(m)
  BY <1>8, <1>11
<1>13. ASSUME NEW i \in 1 .. n PROVE Points(b[n], T(i), ptrs[i])
  <2>1. PICK j \in 1 .. n : order[j] = i
    BY <1>2
  <2>2. j <= n
    OBVIOUS
  <2> QED
    BY <1>12, <2>1, <2>2
<1> QED
  BY <1>7, <1>12, <1>13 DEF Pointers, T

-----------------------------------------------------------------------------
(* The blocks that hold ids of K and pointers of V.                        *)

Block(K, V, m) ==
  /\ upper(m) \in 0 .. IdMod - 1 /\ m \in Seq(Cells(V))
  /\ m # NoBlock => m[1] = IdCell(upper(m)) /\ size(get_capacity(upper(m))) <= Len(m)
  /\ \A i \in 1 .. upper(m) :
       /\ m[i + 1] = IdCell(id_at(m, i)) /\ id_at(m, i) \in K
       /\ Points(m, PtrAddr(upper(m), i), ptr_at(m, i)) /\ ptr_at(m, i) \in V
  /\ \A i, j \in 1 .. upper(m) : id_at(m, i) = id_at(m, j) => i = j

(* The same of cells and not of what is read; u is the upper index of the  *)
(* layout, and n the number of elements.                                   *)
Elements(V, m, u, n, ids, ptrs) ==
  /\ m \in Seq(Cells(V)) /\ size(get_capacity(u)) <= Len(m)
  /\ \A i \in 1 .. n : m[i + 1] = IdCell(ids[i])
  /\ Pointers(m, u, n, ptrs)

(* Capacities and sizes grow together.                                     *)
LEMMA SizesAre ==
  ASSUME NEW u \in Nat, NEW v \in Nat, u <= v
  PROVE  /\ get_capacity(u) \in Nat /\ get_capacity(v) \in Nat
         /\ u <= get_capacity(u) /\ get_capacity(u) <= get_capacity(v)
         /\ size(get_capacity(u)) \in Nat /\ size(get_capacity(v)) \in Nat
         /\ size(get_capacity(u)) <= size(get_capacity(v))
         /\ get_capacity(u) + 1 <= size(get_capacity(u))
<1>1. /\ get_capacity(u) \in Nat /\ get_capacity(v) \in Nat
      /\ u <= get_capacity(u) /\ v <= get_capacity(v)
  BY CapacityIs
<1>2. get_capacity(u) <= get_capacity(v)
  BY <1>1, CapacityIs
<1>3. PtrCells \in {1, 2, 4, 8, 16}
  BY GrainIs
<1>4. \A c, d \in Nat : c <= d => size(c) \in Nat /\ size(d) \in Nat /\ size(c) <= size(d) /\ c + 1 <= size(c)
  BY <1>3 DEF size
<1> QED
  BY <1>1, <1>2, <1>4

(* A block is known by its cells.                                          *)
Holds(K, V, m, u, ids, ptrs) ==
  /\ u \in 0 .. IdMod - 1 /\ ids \in [1 .. u -> K] /\ ptrs \in [1 .. u -> V]
  /\ \A i, j \in 1 .. u : ids[i] = ids[j] => i = j
  /\ Elements(V, m, u, u, ids, ptrs) /\ m[1] = IdCell(u)

LEMMA BlockIs ==
  ASSUME NEW K, NEW V, NEW m, NEW u, NEW ids, NEW ptrs, Holds(K, V, m, u, ids, ptrs)
  PROVE  /\ Block(K, V, m) /\ upper(m) = u
         /\ \A i \in 1 .. u : id_at(m, i) = ids[i] /\ ptr_at(m, i) = ptrs[i]
<1>0. /\ u \in 0 .. IdMod - 1 /\ ids \in [1 .. u -> K] /\ ptrs \in [1 .. u -> V]
      /\ \A i, j \in 1 .. u : ids[i] = ids[j] => i = j
      /\ Elements(V, m, u, u, ids, ptrs) /\ m[1] = IdCell(u)
  BY DEF Holds
<1>1. u \in Nat /\ m \in Seq(Cells(V)) /\ size(get_capacity(u)) <= Len(m)
  BY <1>0, GrainIs DEF Elements
<1>2. size(get_capacity(u)) \in Nat /\ 1 <= size(get_capacity(u))
  BY <1>1, SizesAre
<1>3. m # NoBlock
  BY <1>1, <1>2 DEF NoBlock
<1>4. upper(m) = u
  <2>1. ReadId(m, 0) = u
    BY <1>0, IdIsRead
  <2> QED
    BY <1>3, <2>1 DEF upper
<1>5. ASSUME NEW i \in 1 .. u
      PROVE  /\ m[i + 1] = IdCell(ids[i]) /\ id_at(m, i) = ids[i]
             /\ Points(m, PtrAddr(u, i), ptrs[i]) /\ ptr_at(m, i) = ptrs[i]
  <2>1. m[i + 1] = IdCell(ids[i]) /\ Points(m, PtrAddr(u, i), ptrs[i])
    BY <1>0 DEF Elements, Pointers
  <2>2. ReadId(m, i) = ids[i]
    BY <2>1, IdIsRead
  <2>3. PtrAddr(u, i) \in Nat
    <3>1. i \in Nat /\ i > 0
      BY <1>1
    <3> QED
      BY <1>1, <3>1, AddressesAre
  <2>4. ReadPtr(m, PtrAddr(u, i)) = ptrs[i]
    BY <2>1, <2>3, PtrIsRead
  <2> QED
    BY <1>4, <2>1, <2>2, <2>4 DEF id_at, ptr_at
<1>6. \A i \in 1 .. u : ids[i] \in K /\ ptrs[i] \in V
  BY <1>0
<1>7. \A i \in 1 .. u :
        /\ m[i + 1] = IdCell(id_at(m, i)) /\ id_at(m, i) \in K
        /\ Points(m, PtrAddr(u, i), ptr_at(m, i)) /\ ptr_at(m, i) \in V
  BY <1>5, <1>6
<1>8. \A i, j \in 1 .. u : id_at(m, i) = id_at(m, j) => i = j
  BY <1>0, <1>5
<1> QED
  BY <1>0, <1>1, <1>4, <1>5, <1>7, <1>8 DEF Block

(* The cells of a block.                                                   *)
LEMMA BlockHas ==
  ASSUME NEW K, NEW V, NEW m, Block(K, V, m), K \subseteq 0 .. IdMod - 1
  PROVE  \E ids \in [1 .. upper(m) -> K], ptrs \in [1 .. upper(m) -> V] :
           /\ \A i \in 1 .. upper(m) : id_at(m, i) = ids[i] /\ ptr_at(m, i) = ptrs[i]
           /\ \A i, j \in 1 .. upper(m) : ids[i] = ids[j] => i = j
           /\ m # NoBlock => Elements(V, m, upper(m), upper(m), ids, ptrs)
           /\ m = NoBlock => upper(m) = 0
<1> DEFINE u == upper(m)
           ids == [i \in 1 .. u |-> id_at(m, i)]
           ptrs == [i \in 1 .. u |-> ptr_at(m, i)]
<1>1. ids \in [1 .. u -> K] /\ ptrs \in [1 .. u -> V]
  BY DEF Block
<1>2. \A i \in 1 .. u : id_at(m, i) = ids[i] /\ ptr_at(m, i) = ptrs[i]
  OBVIOUS
<1>3. m = NoBlock => u = 0
  BY DEF upper
<1>4. u = upper(m)
  OBVIOUS
<1> HIDE DEF u, ids, ptrs
<1>5. \A i, j \in 1 .. u : ids[i] = ids[j] => i = j
  BY <1>2, <1>4 DEF Block
<1>6. m # NoBlock => Elements(V, m, u, u, ids, ptrs)
  BY <1>2, <1>4 DEF Block, Elements, Pointers
<1> QED
  BY <1>1, <1>2, <1>3, <1>4, <1>5, <1>6, Zenon

(* A block has room for one id more than it has.                           *)
LEMMA RoomIsLeft ==
  ASSUME NEW K, NEW V, NEW m, Block(K, V, m), K \subseteq 0 .. IdMod - 1, K # 0 .. IdMod - 1,
         NEW id \in K, \A i \in 1 .. upper(m) : id_at(m, i) # id
  PROVE  upper(m) + 1 \in 1 .. IdMod - 1 /\ (upper(m) + 1) % IdMod = upper(m) + 1
<1> DEFINE u == upper(m)
           f == [i \in 1 .. u + 1 |-> IF i = u + 1 THEN id ELSE id_at(m, i)]
<1>1. u \in Nat /\ u < IdMod /\ IdMod \in Nat
  BY GrainIs DEF Block
<1>2. \A i \in 1 .. u : id_at(m, i) \in K
  BY DEF Block
<1>3. \A i, j \in 1 .. u : id_at(m, i) = id_at(m, j) => i = j
  BY DEF Block
<1> HIDE DEF u
<1>4. \A i \in 1 .. u + 1 : i = u + 1 \/ i \in 1 .. u
  BY <1>1
<1>5. f \in [1 .. u + 1 -> K]
  BY <1>2, <1>4
<1>6. \A i, j \in 1 .. u + 1 : i # j => f[i] # f[j]
  BY <1>3, <1>4 DEF u
<1>7. IsFiniteSet(0 .. IdMod - 1) /\ Cardinality(0 .. IdMod - 1) = IdMod
  BY <1>1, FS_Interval
<1>8. IsFiniteSet(K) /\ Cardinality(K) \in Nat /\ Cardinality(K) < IdMod
  <2>1. K \in SUBSET (0 .. IdMod - 1)
    OBVIOUS
  <2>2. IsFiniteSet(K) /\ Cardinality(K) <= IdMod /\ (IdMod = Cardinality(K) => 0 .. IdMod - 1 = K)
    BY <1>7, <2>1, FS_Subset
  <2>3. Cardinality(K) \in Nat
    BY <2>2, FS_CardinalityType
  <2> QED
    BY <1>1, <2>2, <2>3
<1>9. IsFiniteSet(1 .. u + 1) /\ Cardinality(1 .. u + 1) = u + 1
  <2>1. 1 \in Int /\ u + 1 \in Int /\ ~ (1 > u + 1) /\ (u + 1) - 1 + 1 = u + 1
    BY <1>1
  <2> QED
    BY <2>1, FS_Interval
<1>10. ~ (Cardinality(K) < u + 1)
  <2> HIDE DEF f
  <2> SUFFICES ASSUME Cardinality(K) < u + 1 PROVE FALSE
    OBVIOUS
  <2>1. \E i, j \in 1 .. u + 1 : i # j /\ f[i] = f[j]
    BY <1>5, <1>8, <1>9, FS_PigeonHole, ZenonT(60)
  <2> QED
    BY <1>6, <2>1
<1>11. u + 1 < IdMod
  BY <1>1, <1>8, <1>10
<1> QED
  BY <1>1, <1>11 DEF u

-----------------------------------------------------------------------------
(* What the functions do to a block.                                       *)

(* Cells below the pointers do not matter to them.                         *)
LEMMA PointersStay ==
  ASSUME NEW m, NEW w, NEW u \in Nat, NEW n \in Nat, NEW ptrs, n <= get_capacity(u),
         size(get_capacity(u)) <= Len(m), Len(m) \in Nat, Pointers(m, u, n, ptrs),
         \A j \in 1 .. Len(m) : j > get_capacity(u) + 1 => w[j] = m[j]
  PROVE  Pointers(w, u, n, ptrs)
<1> SUFFICES ASSUME NEW i \in 1 .. n, NEW k \in 1 .. PtrCells
             PROVE  w[PtrAddr(u, i) + k] = PtrCell(ptrs[i], k)
  BY DEF Pointers, Points
<1>1. i \in Nat /\ i > 0 /\ get_capacity(u) \in Nat /\ i <= get_capacity(u) /\ PtrCells \in Nat
  BY CapacityIs, GrainIs
<1>2. /\ PtrAddr(u, i) \in Nat /\ get_capacity(u) < PtrAddr(u, i)
      /\ PtrAddr(u, i) + PtrCells <= size(get_capacity(u)) /\ size(get_capacity(u)) \in Nat
  BY <1>1, AddressesAre
<1>3. PtrAddr(u, i) + k \in 1 .. Len(m) /\ PtrAddr(u, i) + k > get_capacity(u) + 1
  <2> DEFINE a == PtrAddr(u, i)
             c == get_capacity(u)
             l == size(c)
  <2>1. a \in Nat /\ c \in Nat /\ l \in Nat /\ c < a /\ a + PtrCells <= l /\ l <= Len(m)
    BY <1>1, <1>2
  <2> HIDE DEF a, c, l
  <2>2. a + k \in 1 .. Len(m) /\ a + k > c + 1
    BY <1>1, <2>1
  <2> QED
    BY <2>2 DEF a, c
<1>4. m[PtrAddr(u, i) + k] = PtrCell(ptrs[i], k)
  BY DEF Pointers, Points
<1> QED
  BY <1>3, <1>4, Zenon

(* Writing an id leaves the pointers.                                      *)
IdFits(V, m, u, n, ids, ptrs, i, x, more) ==
  /\ u \in Nat /\ n \in Nat /\ n <= get_capacity(u) /\ Elements(V, m, u, n, ids, ptrs)
  /\ i \in 0 .. get_capacity(u) /\ x \in 0 .. IdMod
  /\ \A j \in 1 .. n : more[j] = IF j = i THEN x ELSE ids[j]

LEMMA IdsAreWritten ==
  ASSUME NEW V, NEW m, NEW u, NEW n, NEW ids, NEW ptrs, NEW i, NEW x, NEW more,
         IdFits(V, m, u, n, ids, ptrs, i, x, more)
  PROVE  LET w == WriteId(m, i, x)
         IN /\ Elements(V, w, u, n, more, ptrs)
            /\ Len(w) = Len(m) /\ w[i + 1] = IdCell(x)
            /\ \A j \in 1 .. Len(m) : j # i + 1 => w[j] = m[j]
<1>0. /\ u \in Nat /\ n \in Nat /\ n <= get_capacity(u) /\ Elements(V, m, u, n, ids, ptrs)
      /\ i \in 0 .. get_capacity(u) /\ x \in 0 .. IdMod
      /\ \A j \in 1 .. n : more[j] = IF j = i THEN x ELSE ids[j]
  BY DEF IdFits
<1> DEFINE w == WriteId(m, i, x)
           c == get_capacity(u)
<1>1. /\ m \in Seq(Cells(V)) /\ size(c) <= Len(m) /\ Pointers(m, u, n, ptrs)
      /\ Len(m) \in Nat
  BY <1>0 DEF Elements
<1>2. c \in Nat /\ c + 1 <= size(c) /\ size(c) \in Nat
  BY <1>0, SizesAre
<1>3. i \in Nat /\ i <= c /\ i + 1 <= Len(m)
  <2> HIDE DEF c
  <2> QED
    BY <1>0, <1>1, <1>2 DEF c
<1>4. /\ w \in Seq(Cells(V)) /\ Len(w) = Len(m) /\ w[i + 1] = IdCell(x)
      /\ \A j \in 1 .. Len(m) : j # i + 1 => w[j] = m[j]
  BY <1>0, <1>1, <1>3, IdIsWritten
<1> HIDE DEF w, c
<1>5. \A j \in 1 .. Len(m) : j > c + 1 => w[j] = m[j]
  BY <1>2, <1>3, <1>4
<1>6. Pointers(w, u, n, ptrs)
  BY <1>0, <1>1, <1>5, PointersStay DEF c
<1>7. ASSUME NEW j \in 1 .. n PROVE w[j + 1] = IdCell(more[j])
  <2>1. j + 1 \in 1 .. Len(m)
    BY <1>0, <1>1, <1>2 DEF c
  <2>2. m[j + 1] = IdCell(ids[j])
    BY <1>0 DEF Elements
  <2>3. CASE j = i
    BY <1>0, <1>4, <2>3
  <2>4. CASE j # i
    <3>1. j + 1 # i + 1
      BY <1>3, <2>4
    <3> QED
      BY <1>0, <1>4, <2>1, <2>2, <2>4, <3>1
  <2> QED
    BY <2>3, <2>4
<1>8. Elements(V, w, u, n, more, ptrs)
  BY <1>1, <1>4, <1>6, <1>7 DEF Elements, c
<1> QED
  BY <1>4, <1>8 DEF w

(* Writing a pointer leaves the ids, and the other pointers.               *)
PtrFits(V, m, u, n, ids, ptrs, i, p, more) ==
  /\ u \in Nat /\ n \in Nat /\ n <= get_capacity(u) /\ Elements(V, m, u, n, ids, ptrs)
  /\ i \in 1 .. get_capacity(u) /\ p \in V
  /\ \A j \in 1 .. n : more[j] = IF j = i THEN p ELSE ptrs[j]

LEMMA PtrsAreWritten ==
  ASSUME NEW V, NEW m, NEW u, NEW n, NEW ids, NEW ptrs, NEW i, NEW p, NEW more,
         PtrFits(V, m, u, n, ids, ptrs, i, p, more)
  PROVE  LET w == WritePtr(m, PtrAddr(u, i), p)
         IN /\ Elements(V, w, u, n, ids, more)
            /\ Len(w) = Len(m) /\ Points(w, PtrAddr(u, i), p)
            /\ \A j \in 1 .. Len(m) : j <= get_capacity(u) + 1 => w[j] = m[j]
<1>0. /\ u \in Nat /\ n \in Nat /\ n <= get_capacity(u) /\ Elements(V, m, u, n, ids, ptrs)
      /\ i \in 1 .. get_capacity(u) /\ p \in V
      /\ \A j \in 1 .. n : more[j] = IF j = i THEN p ELSE ptrs[j]
  BY DEF PtrFits
<1> DEFINE a == PtrAddr(u, i)
           w == WritePtr(m, a, p)
           c == get_capacity(u)
           l == size(c)
<1>1. /\ m \in Seq(Cells(V)) /\ l <= Len(m) /\ Pointers(m, u, n, ptrs)
      /\ Len(m) \in Nat
  BY <1>0 DEF Elements
<1>2. c \in Nat /\ c + 1 <= l /\ l \in Nat /\ PtrCells \in Nat
  BY <1>0, SizesAre, GrainIs
<1>3. i \in Nat /\ i > 0 /\ i <= c
  <2> HIDE DEF c
  <2> QED
    BY <1>0, <1>2 DEF c
<1>4. a \in Nat /\ c < a /\ a + PtrCells <= l
  BY <1>0, <1>3, AddressesAre
<1>5. a + PtrCells <= Len(m)
  <2> HIDE DEF a, l
  <2> QED
    BY <1>0, <1>1, <1>2, <1>4
<1> HIDE DEF a, l
<1>6. /\ w \in Seq(Cells(V)) /\ Len(w) = Len(m) /\ Points(w, a, p)
      /\ \A j \in 1 .. Len(m) : j <= a \/ j > a + PtrCells => w[j] = m[j]
  BY <1>0, <1>1, <1>4, <1>5, PtrIsWritten
<1> HIDE DEF w, c
<1>7. \A j \in 1 .. Len(m) : j <= c + 1 => w[j] = m[j]
  BY <1>0, <1>2, <1>4, <1>6
<1>8. ASSUME NEW j \in 1 .. n PROVE Points(w, PtrAddr(u, j), more[j])
  <2>1. CASE j = i
    BY <1>0, <1>6, <2>1 DEF a
  <2>2. CASE j # i
    <3> DEFINE b == PtrAddr(u, j)
               q == ptrs[j]
    <3>1. j \in Nat /\ j > 0 /\ j <= c
      BY <1>0, <1>2 DEF c
    <3>2. b \in Nat /\ b + PtrCells <= l
      BY <1>0, <3>1, AddressesAre DEF c, l
    <3>3. b + PtrCells <= a \/ a + PtrCells <= b
      <4>1. i < j \/ j < i
        BY <1>0, <1>3, <2>2, <3>1
      <4> QED
        BY <1>0, <1>3, <3>1, <4>1, AddressesAre DEF a
    <3>4. Points(m, b, q)
      BY <1>0, <1>1 DEF Pointers
    <3> HIDE DEF b, q
    <3>5. b + PtrCells <= Len(m)
      BY <1>0, <1>1, <1>2, <3>2
    <3>6. Points(w, b, q)
      BY <1>0, <1>1, <1>4, <1>6, <3>2, <3>3, <3>4, <3>5, PointsStay
    <3>7. more[j] = ptrs[j]
      BY <1>0, <2>2
    <3> QED
      BY <1>0, <3>6, <3>7 DEF b, q
  <2> QED
    BY <2>1, <2>2
<1>9. ASSUME NEW j \in 1 .. n PROVE w[j + 1] = IdCell(ids[j])
  <2>1. j + 1 \in 1 .. Len(m) /\ j + 1 <= c + 1
    BY <1>0, <1>1, <1>2 DEF c
  <2>2. m[j + 1] = IdCell(ids[j])
    BY <1>0 DEF Elements
  <2> QED
    BY <1>0, <1>7, <2>1, <2>2
<1>10. Elements(V, w, u, n, ids, more)
  BY <1>0, <1>1, <1>6, <1>8, <1>9 DEF Elements, Pointers, c, l
<1> QED
  BY <1>0, <1>6, <1>7, <1>10 DEF w, a, c

(* A block has grown for one element more if it has to, which its layout   *)
(* then allows.                                                            *)
LEMMA GrownIs ==
  ASSUME NEW K, NEW V, NEW m, Block(K, V, m), K \subseteq 0 .. IdMod - 1,
         NEW ids, NEW ptrs \in [1 .. upper(m) -> V],
         m # NoBlock => Elements(V, m, upper(m), upper(m), ids, ptrs),
         m = NoBlock => upper(m) = 0
  PROVE  Elements(V, Grown(m, upper(m), upper(m) + 1), upper(m) + 1, upper(m), ids, ptrs)
<1> DEFINE u == upper(m)
           c == get_capacity(u)
           d == get_capacity(u + 1)
           g == realloc(m, size(d))
           w == MovePtrs(g, Downwards(u), u, u + 1)
<1>1. u \in Nat /\ m \in Seq(Cells(V)) /\ Len(m) \in Nat
  BY GrainIs DEF Block
<1>2. /\ c \in Nat /\ d \in Nat /\ u <= c /\ c <= d /\ size(c) \in Nat /\ size(d) \in Nat
      /\ size(c) <= size(d) /\ c + 1 <= size(c)
  <2> HIDE DEF u
  <2>1. u + 1 \in Nat /\ u <= u + 1
    BY <1>1
  <2> QED
    BY <1>1, <2>1, SizesAre
<1> HIDE DEF c, d
<1>3. /\ g \in Seq(Cells(V)) /\ Len(g) = size(d)
      /\ \A j \in 1 .. Len(m) : j <= size(d) => g[j] = m[j]
  BY <1>1, <1>2, CellsAreKept
<1> HIDE DEF g
<1>4. m # NoBlock => size(c) <= Len(m)
  BY DEF Elements, c, u
<1> HIDE DEF u
<1>5. \A i \in 1 .. u : m # NoBlock
  BY DEF u
<1>6. ASSUME NEW i \in 1 .. u PROVE g[i + 1] = IdCell(ids[i])
  <2>1. i + 1 \in 1 .. Len(m) /\ i + 1 <= size(d)
    BY <1>1, <1>2, <1>4, <1>5
  <2>2. m[i + 1] = IdCell(ids[i])
    BY <1>5 DEF Elements, u
  <2> QED
    BY <1>3, <2>1, <2>2
<1>7. Pointers(g, u, u, ptrs)
  <2>1. CASE u = 0
    BY <2>1 DEF Pointers
  <2>2. CASE u # 0
    <3>1. m # NoBlock
      BY <1>1, <1>5, <2>2
    <3> SUFFICES ASSUME NEW i \in 1 .. u, NEW k \in 1 .. PtrCells
                 PROVE  g[PtrAddr(u, i) + k] = PtrCell(ptrs[i], k)
      BY DEF Pointers, Points
    <3>2. m[PtrAddr(u, i) + k] = PtrCell(ptrs[i], k)
      BY <3>1 DEF Elements, Pointers, Points, u
    <3>3. i \in Nat /\ i > 0 /\ i <= c /\ PtrCells \in Nat
      BY <1>1, <1>2, GrainIs
    <3> DEFINE a == PtrAddr(u, i)
    <3>4. a \in Nat /\ a + PtrCells <= size(c)
      BY <1>1, <3>3, AddressesAre DEF c
    <3> HIDE DEF a
    <3>5. a + k \in 1 .. Len(m) /\ a + k <= size(d)
      BY <1>1, <1>2, <1>4, <3>1, <3>3, <3>4
    <3> QED
      BY <1>3, <3>2, <3>5, Zenon DEF a
  <2> QED
    BY <2>1, <2>2
<1>8. Ordered(Downwards(u), u, u, u + 1)
  BY <1>1, <1>2, MovesAreOrdered DEF c, d
<1>9. u <= d /\ u + 1 \in Nat /\ size(c) <= Len(g) /\ size(d) <= Len(g)
  BY <1>1, <1>2, <1>3
<1>10. /\ w \in Seq(Cells(V)) /\ Len(w) = Len(g) /\ Pointers(w, u + 1, u, ptrs)
       /\ \A j \in 1 .. Len(g) : j <= c + 1 /\ j <= d + 1 => w[j] = g[j]
  <2>1. u <= get_capacity(u) /\ u <= get_capacity(u + 1)
        /\ size(get_capacity(u)) <= Len(g) /\ size(get_capacity(u + 1)) <= Len(g)
    BY <1>2, <1>9 DEF c, d
  <2>2. ptrs \in [1 .. u -> V]
    BY DEF u
  <2>3. /\ w \in Seq(Cells(V)) /\ Len(w) = Len(g) /\ Pointers(w, u + 1, u, ptrs)
        /\ \A j \in 1 .. Len(g) :
             j <= get_capacity(u) + 1 /\ j <= get_capacity(u + 1) + 1 => w[j] = g[j]
    BY <1>1, <1>3, <1>7, <1>8, <1>9, <2>1, <2>2, PtrsAreMoved
  <2> QED
    BY <2>3 DEF c, d
<1> HIDE DEF w
<1>11. ASSUME NEW i \in 1 .. u PROVE w[i + 1] = IdCell(ids[i])
  <2>1. i + 1 \in 1 .. Len(g) /\ i + 1 <= c + 1 /\ i + 1 <= d + 1
    BY <1>1, <1>2, <1>3
  <2> QED
    BY <1>6, <1>10, <2>1
<1>12. w = Grown(m, u, u + 1)
  BY DEF w, g, d, Grown
<1> QED
  BY <1>3, <1>10, <1>11, <1>12, <1>9 DEF Elements, u, d

(* add adds its id and its pointer after the others.                       *)
CanAdd(K, V, m, id, p) ==
  /\ Block(K, V, m) /\ K \subseteq 0 .. IdMod - 1 /\ K # 0 .. IdMod - 1
  /\ id \in K /\ (\A i \in 1 .. upper(m) : id_at(m, i) # id) /\ p \in V

LEMMA AddIs ==
  ASSUME NEW K, NEW V, NEW m, NEW id, NEW p, CanAdd(K, V, m, id, p)
  PROVE  LET w == add(m, id, p)
             u == upper(m)
         IN /\ Block(K, V, w) /\ upper(w) = u + 1 /\ u \in Nat
            /\ id_at(w, u + 1) = id /\ ptr_at(w, u + 1) = p
            /\ \A i \in 1 .. u : id_at(w, i) = id_at(m, i) /\ ptr_at(w, i) = ptr_at(m, i)
<1> DEFINE u == upper(m)
           n == u + 1
           g == IF MustGrow(m) THEN Grown(m, u, n) ELSE m
           h == WriteId(g, 0, n)
           k == WriteId(h, n, id)
           w == WritePtr(k, PtrAddr(n, n), p)
<1>0. /\ Block(K, V, m) /\ K \subseteq 0 .. IdMod - 1 /\ K # 0 .. IdMod - 1
      /\ id \in K /\ (\A i \in 1 .. upper(m) : id_at(m, i) # id) /\ p \in V
  BY DEF CanAdd
<1>1. n \in 1 .. IdMod - 1 /\ n % IdMod = n
  BY <1>0, RoomIsLeft
<1>2. u \in Nat /\ IdMod \in Nat /\ n \in Nat /\ n \in 0 .. IdMod /\ 0 \in 0 .. get_capacity(n)
      /\ n \in 1 .. get_capacity(n) /\ n \in 0 .. get_capacity(n) /\ u <= get_capacity(n)
      /\ id \in 0 .. IdMod /\ n = u + 1
  <2>1. u \in Nat /\ IdMod \in Nat
    BY <1>0, GrainIs DEF Block
  <2>2. n \in Nat /\ get_capacity(n) \in Nat /\ n <= get_capacity(n)
    BY <2>1, CapacityIs
  <2> HIDE DEF u
  <2> QED
    BY <1>0, <1>1, <2>1, <2>2
<1> HIDE DEF u, n
<1>3. PICK ids \in [1 .. u -> K], ptrs \in [1 .. u -> V] :
        /\ \A i \in 1 .. u : id_at(m, i) = ids[i] /\ ptr_at(m, i) = ptrs[i]
        /\ \A i, j \in 1 .. u : ids[i] = ids[j] => i = j
        /\ m # NoBlock => Elements(V, m, u, u, ids, ptrs)
        /\ m = NoBlock => u = 0
  BY <1>0, BlockHas DEF u
<1> DEFINE mids == [i \in 1 .. n |-> IF i = n THEN id ELSE ids[i]]
           mptrs == [i \in 1 .. n |-> IF i = n THEN p ELSE ptrs[i]]
<1>4. \A i \in 1 .. n : i = n \/ i \in 1 .. u
  BY <1>2
<1>5. \A i \in 1 .. u : i # n /\ i \in 1 .. n /\ i # 0
  BY <1>2
<1>6. mids \in [1 .. n -> K] /\ mptrs \in [1 .. n -> V]
  BY <1>0, <1>4
<1>7. /\ mids[n] = id /\ mptrs[n] = p
      /\ \A i \in 1 .. u : mids[i] = ids[i] /\ mptrs[i] = ptrs[i]
  BY <1>2, <1>5
<1> HIDE DEF mids, mptrs
<1>8. \A i, j \in 1 .. n : mids[i] = mids[j] => i = j
  <2>1. \A i \in 1 .. u : mids[i] # mids[n]
    BY <1>0, <1>3, <1>7 DEF u
  <2>2. \A i, j \in 1 .. u : mids[i] = mids[j] => i = j
    BY <1>3, <1>7
  <2> QED
    BY <1>4, <2>1, <2>2
<1>9. add(m, id, p) = w
  <2>1. add(m, id, p) = WritePtr(k, IF MustGrow(m) THEN PtrAddr(n, n) ELSE PtrAddr(u, n), p)
    BY <1>1, <1>2 DEF add, u
  <2>2. ~ MustGrow(m) => PtrAddr(u, n) = PtrAddr(n, n)
    <3>1. ~ MustGrow(m) => n <= get_capacity(u)
      <4>1. MustGrow(m) <=> n > (IF m = NoBlock THEN 0 ELSE get_capacity(u))
        BY <1>1, <1>2 DEF MustGrow, u
      <4>2. get_capacity(u) \in Nat
        BY <1>2, CapacityIs
      <4>3. m = NoBlock => n > 0
        BY <1>2
      <4> QED
        BY <1>2, <4>1, <4>2, <4>3
    <3>2. n <= get_capacity(u) => get_capacity(n) = get_capacity(u)
      BY <1>2, CapacityIs
    <3> QED
      BY <3>1, <3>2 DEF PtrAddr
  <2> QED
    BY <2>1, <2>2
<1>10. Elements(V, g, n, u, ids, ptrs)
  <2>1. CASE MustGrow(m)
    <3>1. Elements(V, Grown(m, u, u + 1), u + 1, u, ids, ptrs)
      BY <1>0, <1>3, GrownIs DEF u
    <3> QED
      BY <1>2, <2>1, <3>1
  <2>2. CASE ~ MustGrow(m)
    <3>1. MustGrow(m) <=> n > (IF m = NoBlock THEN 0 ELSE get_capacity(u))
      BY <1>1, <1>2 DEF MustGrow, u
    <3>2. m # NoBlock
      BY <1>2, <2>2, <3>1
    <3>3. get_capacity(u) \in Nat
      BY <1>2, CapacityIs
    <3>4. n <= get_capacity(u)
      BY <1>2, <2>2, <3>1, <3>2, <3>3
    <3>5. get_capacity(n) = get_capacity(u)
      BY <1>2, <3>4, CapacityIs
    <3>6. \A i : PtrAddr(n, i) = PtrAddr(u, i)
      BY <3>5 DEF PtrAddr
    <3>7. Elements(V, m, n, u, ids, ptrs)
      BY <1>3, <3>2, <3>5, <3>6 DEF Elements, Pointers
    <3> QED
      BY <2>2, <3>7
  <2> QED
    BY <2>1, <2>2
<1> HIDE DEF g
<1>11. /\ Elements(V, h, n, u, ids, ptrs) /\ h[1] = IdCell(n) /\ Len(h) = Len(g)
  <2>1. \A i \in 1 .. u : ids[i] = IF i = 0 THEN n ELSE ids[i]
    BY <1>5
  <2>2. n \in 0 .. IdMod
    BY <1>2
  <2>3. /\ Elements(V, h, n, u, ids, ptrs) /\ Len(h) = Len(g) /\ h[0 + 1] = IdCell(n)
        /\ \A j \in 1 .. Len(g) : j # 0 + 1 => h[j] = g[j]
    <3>1. IdFits(V, g, n, u, ids, ptrs, 0, n, ids)
      BY <1>2, <1>10, <2>1 DEF IdFits
    <3> QED
      BY <3>1, IdsAreWritten
  <2> HIDE DEF h
  <2> QED
    BY <2>3
<1>12. 1 \in 1 .. Len(h) /\ n + 1 \in 1 .. Len(h) /\ Len(h) \in Nat
  <2>1. size(get_capacity(n)) <= Len(h) /\ Len(h) \in Nat
    BY <1>11 DEF Elements
  <2>2. /\ size(get_capacity(n)) \in Nat /\ get_capacity(n) \in Nat
        /\ get_capacity(n) + 1 <= size(get_capacity(n)) /\ n <= get_capacity(n)
    BY <1>2, SizesAre
  <2> DEFINE c == get_capacity(n)
             l == size(c)
  <2>3. l <= Len(h) /\ l \in Nat /\ c \in Nat /\ c + 1 <= l /\ n <= c
    BY <2>1, <2>2
  <2> HIDE DEF c, l
  <2> QED
    BY <1>2, <2>1, <2>3
<1> HIDE DEF h
<1>13. /\ Elements(V, k, n, u, ids, ptrs) /\ k[n + 1] = IdCell(id) /\ Len(k) = Len(h)
       /\ k[1] = IdCell(n)
  <2>1. \A i \in 1 .. u : ids[i] = IF i = n THEN id ELSE ids[i]
    BY <1>5
  <2>2. 1 # n + 1
    BY <1>2
  <2>3. /\ Elements(V, k, n, u, ids, ptrs) /\ Len(k) = Len(h) /\ k[n + 1] = IdCell(id)
        /\ \A j \in 1 .. Len(h) : j # n + 1 => k[j] = h[j]
    <3>1. IdFits(V, h, n, u, ids, ptrs, n, id, ids)
      BY <1>2, <1>11, <2>1 DEF IdFits
    <3> QED
      BY <3>1, IdsAreWritten
  <2> QED
    BY <1>11, <1>12, <2>2, <2>3
<1> HIDE DEF k
<1>14. /\ Elements(V, w, n, u, ids, ptrs) /\ Len(w) = Len(k) /\ Points(w, PtrAddr(n, n), p)
       /\ \A j \in 1 .. Len(k) : j <= get_capacity(n) + 1 => w[j] = k[j]
  <2>1. \A i \in 1 .. u : ptrs[i] = IF i = n THEN p ELSE ptrs[i]
    BY <1>5
  <2>2. PtrFits(V, k, n, u, ids, ptrs, n, p, ptrs)
    BY <1>0, <1>2, <1>13, <2>1 DEF PtrFits
  <2> QED
    BY <2>2, PtrsAreWritten
<1> HIDE DEF w
<1>15. w[1] = IdCell(n) /\ w[n + 1] = IdCell(id)
  <2>1. 1 <= get_capacity(n) + 1 /\ n + 1 <= get_capacity(n) + 1
    <3> DEFINE c == get_capacity(n)
    <3>1. n \in 1 .. c /\ c \in Nat
      BY <1>2, CapacityIs
    <3> HIDE DEF c
    <3> QED
      BY <1>2, <3>1 DEF c
  <2> QED
    BY <1>12, <1>13, <1>14, <2>1
<1>16. Elements(V, w, n, n, mids, mptrs)
  <2>1. \A i \in 1 .. n : w[i + 1] = IdCell(mids[i])
    BY <1>4, <1>7, <1>14, <1>15 DEF Elements
  <2>2. \A i \in 1 .. n : Points(w, PtrAddr(n, i), mptrs[i])
    BY <1>4, <1>7, <1>14 DEF Elements, Pointers
  <2> QED
    BY <1>14, <2>1, <2>2 DEF Elements, Pointers
<1>17. /\ Block(K, V, w) /\ upper(w) = n
       /\ \A i \in 1 .. n : id_at(w, i) = mids[i] /\ ptr_at(w, i) = mptrs[i]
  <2>1. n \in 0 .. IdMod - 1
    BY <1>1, <1>2
  <2>2. Holds(K, V, w, n, mids, mptrs)
    BY <1>6, <1>8, <1>15, <1>16, <2>1 DEF Holds
  <2> QED
    BY <2>2, BlockIs
<1>18. n \in 1 .. n
  BY <1>2
<1>19. id_at(w, n) = id /\ ptr_at(w, n) = p
  BY <1>7, <1>17, <1>18
<1>20. \A i \in 1 .. u : id_at(w, i) = id_at(m, i) /\ ptr_at(w, i) = ptr_at(m, i)
  BY <1>3, <1>5, <1>7, <1>17
<1> QED
  BY <1>2, <1>9, <1>17, <1>19, <1>20 DEF u

(* Writing the pointer of an index changes that one.                       *)
CanSet(K, V, m, i, p) ==
  /\ Block(K, V, m) /\ K \subseteq 0 .. IdMod - 1 /\ i \in 1 .. upper(m) /\ p \in V

LEMMA SetIs ==
  ASSUME NEW K, NEW V, NEW m, NEW i, NEW p, CanSet(K, V, m, i, p)
  PROVE  LET w == WritePtr(m, PtrAddr(upper(m), i), p)
         IN /\ Block(K, V, w) /\ upper(w) = upper(m)
            /\ \A j \in 1 .. upper(m) :
                 id_at(w, j) = id_at(m, j) /\ ptr_at(w, j) = IF j = i THEN p ELSE ptr_at(m, j)
<1> DEFINE u == upper(m)
           w == WritePtr(m, PtrAddr(u, i), p)
           c == get_capacity(u)
<1>0. Block(K, V, m) /\ K \subseteq 0 .. IdMod - 1 /\ i \in 1 .. u /\ p \in V
  BY DEF CanSet
<1>1. PICK ids \in [1 .. u -> K], ptrs \in [1 .. u -> V] :
        /\ \A j \in 1 .. u : id_at(m, j) = ids[j] /\ ptr_at(m, j) = ptrs[j]
        /\ \A j, k \in 1 .. u : ids[j] = ids[k] => j = k
        /\ m # NoBlock => Elements(V, m, u, u, ids, ptrs)
        /\ m = NoBlock => u = 0
  BY <1>0, BlockHas
<1>2. u \in 0 .. IdMod - 1 /\ u \in Nat
  BY <1>0, GrainIs DEF Block
<1>3. c \in Nat /\ u <= c /\ c + 1 <= size(c) /\ size(c) \in Nat
  BY <1>2, SizesAre
<1>4. m # NoBlock
  BY <1>0, <1>1
<1>5. m[1] = IdCell(u) /\ size(c) <= Len(m) /\ Len(m) \in Nat
  BY <1>0, <1>4 DEF Block
<1>6. i \in 1 .. u
  BY <1>0
<1> HIDE DEF u
<1>7. i \in 1 .. c /\ 1 \in 1 .. Len(m) /\ 1 <= c + 1
  <2> HIDE DEF c
  <2> QED
    BY <1>2, <1>3, <1>5, <1>6
<1> DEFINE more == [j \in 1 .. u |-> IF j = i THEN p ELSE ptrs[j]]
<1>8. more \in [1 .. u -> V] /\ \A j \in 1 .. u : more[j] = IF j = i THEN p ELSE ptrs[j]
  BY <1>0
<1> HIDE DEF more
<1>9. PtrFits(V, m, u, u, ids, ptrs, i, p, more)
  BY <1>0, <1>1, <1>2, <1>3, <1>4, <1>7, <1>8 DEF PtrFits
<1>10. Elements(V, w, u, u, ids, more) /\ w[1] = IdCell(u)
  <2>1. /\ Elements(V, w, u, u, ids, more)
        /\ \A j \in 1 .. Len(m) : j <= c + 1 => w[j] = m[j]
    BY <1>9, PtrsAreWritten
  <2> HIDE DEF w
  <2> QED
    BY <1>5, <1>7, <2>1
<1> HIDE DEF w
<1>11. Holds(K, V, w, u, ids, more)
  BY <1>1, <1>2, <1>8, <1>10 DEF Holds
<1>12. /\ Block(K, V, w) /\ upper(w) = u
       /\ \A j \in 1 .. u : id_at(w, j) = ids[j] /\ ptr_at(w, j) = more[j]
  BY <1>2, <1>11, BlockIs
<1>13. \A j \in 1 .. u :
         id_at(w, j) = id_at(m, j) /\ ptr_at(w, j) = IF j = i THEN p ELSE ptr_at(m, j)
  BY <1>1, <1>8, <1>12
<1> QED
  BY <1>12, <1>13 DEF u, w

(* drop puts the last element in place of the dropped one.                 *)
CanDrop(K, V, m, i) == Block(K, V, m) /\ K \subseteq 0 .. IdMod - 1 /\ i \in 1 .. upper(m)

LEMMA DropIs ==
  ASSUME NEW K, NEW V, NEW m, NEW i, CanDrop(K, V, m, i)
  PROVE  LET w == drop(m, i)
             u == upper(m)
         IN /\ Block(K, V, w) /\ upper(w) = u - 1 /\ u \in Nat
            /\ \A j \in 1 .. u - 1 :
                 /\ id_at(w, j) = id_at(m, IF j = i THEN u ELSE j)
                 /\ ptr_at(w, j) = ptr_at(m, IF j = i THEN u ELSE j)
<1> DEFINE u == upper(m)
           v == u - 1
           b == IF i = u THEN m
                ELSE WritePtr(WriteId(m, i, id_at(m, u)), PtrAddr(u, i), ptr_at(m, u))
           g == WriteId(b, 0, v)
           w == IF get_capacity(v) = get_capacity(u) THEN g ELSE MovePtrs(g, Upwards(v), u, v)
<1>0. Block(K, V, m) /\ K \subseteq 0 .. IdMod - 1 /\ i \in 1 .. u
  BY DEF CanDrop
<1>1. PICK ids \in [1 .. u -> K], ptrs \in [1 .. u -> V] :
        /\ \A j \in 1 .. u : id_at(m, j) = ids[j] /\ ptr_at(m, j) = ptrs[j]
        /\ \A j, k \in 1 .. u : ids[j] = ids[k] => j = k
        /\ m # NoBlock => Elements(V, m, u, u, ids, ptrs)
        /\ m = NoBlock => u = 0
  BY <1>0, BlockHas
<1>2. u \in 0 .. IdMod - 1 /\ u \in Nat /\ IdMod \in Nat /\ i \in 1 .. u
  BY <1>0, GrainIs DEF Block
<1>3. Elements(V, m, u, u, ids, ptrs)
  BY <1>0, <1>1
<1>4. w = drop(m, i)
  BY DEF drop
<1>5. v \in Nat /\ v \in 0 .. IdMod - 1 /\ v \in 0 .. IdMod /\ v <= u /\ u = v + 1 /\ u \in 1 .. u
  <2> HIDE DEF u
  <2> QED
    BY <1>2
<1> HIDE DEF u, v
<1>6. \A j \in 1 .. v : j \in 1 .. u /\ j # u /\ j # 0
  BY <1>2, <1>5
<1>7. /\ get_capacity(u) \in Nat /\ get_capacity(v) \in Nat
      /\ u <= get_capacity(u) /\ v <= get_capacity(v) /\ get_capacity(v) <= get_capacity(u)
      /\ size(get_capacity(u)) \in Nat /\ size(get_capacity(v)) \in Nat
      /\ size(get_capacity(v)) <= size(get_capacity(u))
      /\ get_capacity(v) + 1 <= size(get_capacity(v))
  <2>1. u <= u
    BY <1>2
  <2>2. u <= get_capacity(u)
    BY <1>2, <2>1, SizesAre
  <2> QED
    BY <1>2, <1>5, <2>2, SizesAre
<1>8. v <= get_capacity(u) /\ i \in 1 .. get_capacity(u) /\ i \in 0 .. get_capacity(u)
      /\ 0 \in 0 .. get_capacity(u)
  <2> DEFINE c == get_capacity(u)
  <2>1. c \in Nat /\ u <= c
    BY <1>7
  <2> HIDE DEF c
  <2>2. v <= c /\ i \in 1 .. c /\ i \in 0 .. c /\ 0 \in 0 .. c
    BY <1>2, <1>5, <2>1
  <2> QED
    BY <2>2 DEF c
<1> DEFINE mids == [j \in 1 .. u |-> IF j = i THEN ids[u] ELSE ids[j]]
           mptrs == [j \in 1 .. u |-> IF j = i THEN ptrs[u] ELSE ptrs[j]]
           nids == [j \in 1 .. v |-> ids[IF j = i THEN u ELSE j]]
           nptrs == [j \in 1 .. v |-> ptrs[IF j = i THEN u ELSE j]]
<1>9. /\ \A j \in 1 .. u : mids[j] = IF j = i THEN ids[u] ELSE ids[j]
      /\ \A j \in 1 .. u : mptrs[j] = IF j = i THEN ptrs[u] ELSE ptrs[j]
      /\ \A j \in 1 .. v : nids[j] = ids[IF j = i THEN u ELSE j]
      /\ \A j \in 1 .. v : nptrs[j] = ptrs[IF j = i THEN u ELSE j]
  OBVIOUS
<1>10. nids \in [1 .. v -> K] /\ nptrs \in [1 .. v -> V]
  BY <1>5, <1>6
<1> HIDE DEF mids, mptrs, nids, nptrs
<1>11. \A j, k \in 1 .. v : nids[j] = nids[k] => j = k
  <2> SUFFICES ASSUME NEW j \in 1 .. v, NEW k \in 1 .. v, nids[j] = nids[k] PROVE j = k
    OBVIOUS
  <2> DEFINE s == IF j = i THEN u ELSE j
             t == IF k = i THEN u ELSE k
  <2>1. s \in 1 .. u /\ t \in 1 .. u
    BY <1>5, <1>6
  <2>2. ids[s] = ids[t]
    BY <1>9
  <2>3. s = t
    <3> HIDE DEF s, t
    <3> QED
      BY <1>1, <2>1, <2>2
  <2> QED
    BY <1>6, <2>3
<1>12. \A j \in 1 .. v : mids[j] = nids[j] /\ mptrs[j] = nptrs[j]
  BY <1>6, <1>9
<1>13. Elements(V, b, u, v, nids, nptrs)
  <2>1. CASE i = u
    <3>1. \A j \in 1 .. v : nids[j] = ids[j] /\ nptrs[j] = ptrs[j]
      BY <1>6, <1>9, <2>1
    <3>2. Elements(V, m, u, v, nids, nptrs)
      BY <1>3, <1>6, <3>1 DEF Elements, Pointers
    <3> QED
      BY <2>1, <3>2
  <2>2. CASE i # u
    <3> DEFINE d == WriteId(m, i, ids[u])
               e == WritePtr(d, PtrAddr(u, i), ptrs[u])
    <3>1. b = e
      BY <1>1, <1>5, <2>2
    <3>2. ids[u] \in 0 .. IdMod /\ ptrs[u] \in V
      <4>1. ids[u] \in K /\ ptrs[u] \in V
        BY <1>5
      <4>2. ids[u] \in 0 .. IdMod - 1
        BY <1>0, <4>1
      <4> QED
        BY <1>2, <4>1, <4>2
    <3>3. IdFits(V, m, u, u, ids, ptrs, i, ids[u], mids)
      BY <1>2, <1>3, <1>7, <1>8, <1>9, <3>2 DEF IdFits
    <3>4. Elements(V, d, u, u, mids, ptrs)
      BY <3>3, IdsAreWritten
    <3> HIDE DEF d
    <3>5. PtrFits(V, d, u, u, mids, ptrs, i, ptrs[u], mptrs)
      BY <1>2, <1>7, <1>8, <1>9, <3>2, <3>4 DEF PtrFits
    <3>6. Elements(V, e, u, u, mids, mptrs)
      BY <3>5, PtrsAreWritten
    <3> HIDE DEF e, b
    <3>7. Elements(V, e, u, v, nids, nptrs)
      BY <1>6, <1>12, <3>6 DEF Elements, Pointers
    <3> QED
      BY <3>1, <3>7
  <2> QED
    BY <2>1, <2>2
<1> HIDE DEF b
<1>14. /\ Elements(V, g, u, v, nids, nptrs) /\ g[1] = IdCell(v)
  <2>1. \A j \in 1 .. v : nids[j] = IF j = 0 THEN v ELSE nids[j]
    BY <1>6
  <2>2. IdFits(V, b, u, v, nids, nptrs, 0, v, nids)
    BY <1>2, <1>5, <1>8, <1>13, <2>1 DEF IdFits
  <2>3. Elements(V, g, u, v, nids, nptrs) /\ g[0 + 1] = IdCell(v)
    BY <2>2, IdsAreWritten
  <2> HIDE DEF g
  <2> QED
    BY <2>3
<1> HIDE DEF g
<1>15. /\ Elements(V, w, v, v, nids, nptrs) /\ w[1] = IdCell(v)
  <2>1. CASE get_capacity(v) = get_capacity(u)
    <3>1. \A j : PtrAddr(v, j) = PtrAddr(u, j)
      BY <2>1 DEF PtrAddr
    <3>2. Elements(V, g, v, v, nids, nptrs)
      BY <1>14, <2>1, <3>1 DEF Elements, Pointers
    <3> QED
      BY <1>14, <2>1, <3>2
  <2>2. CASE get_capacity(v) # get_capacity(u)
    <3> DEFINE x == MovePtrs(g, Upwards(v), u, v)
    <3>1. Ordered(Upwards(v), v, u, v)
      BY <1>2, <1>5, <1>7, MovesAreOrdered
    <3>2. /\ g \in Seq(Cells(V)) /\ size(get_capacity(u)) <= Len(g) /\ Pointers(g, u, v, nptrs)
          /\ Len(g) \in Nat /\ \A j \in 1 .. v : g[j + 1] = IdCell(nids[j])
      BY <1>14 DEF Elements
    <3>3. size(get_capacity(v)) <= Len(g)
      BY <1>7, <3>2
    <3>4. /\ x \in Seq(Cells(V)) /\ Len(x) = Len(g) /\ Pointers(x, v, v, nptrs)
          /\ \A j \in 1 .. Len(g) :
               j <= get_capacity(u) + 1 /\ j <= get_capacity(v) + 1 => x[j] = g[j]
      BY <1>2, <1>5, <1>7, <1>8, <1>10, <3>1, <3>2, <3>3, PtrsAreMoved
    <3>5. w = x
      BY <2>2
    <3> HIDE DEF x, w
    <3> DEFINE c == get_capacity(u)
               d == get_capacity(v)
               l == size(d)
    <3>6. \A j \in 1 .. Len(g) : j <= c + 1 /\ j <= d + 1 => x[j] = g[j]
      BY <3>4
    <3>7. c \in Nat /\ d \in Nat /\ l \in Nat /\ d + 1 <= l /\ l <= Len(g) /\ v <= d /\ d <= c
      BY <1>7, <3>3
    <3> HIDE DEF c, d, l
    <3>8. 1 \in 1 .. Len(g) /\ 1 <= c + 1 /\ 1 <= d + 1
      BY <3>2, <3>7
    <3>9. \A j \in 1 .. v : j + 1 \in 1 .. Len(g) /\ j + 1 <= c + 1 /\ j + 1 <= d + 1
      BY <1>5, <3>2, <3>7
    <3>10. \A j \in 1 .. v : x[j + 1] = IdCell(nids[j])
      BY <3>2, <3>6, <3>9
    <3>11. x[1] = IdCell(v)
      BY <1>14, <3>6, <3>8
    <3>12. Elements(V, x, v, v, nids, nptrs)
      BY <3>3, <3>4, <3>10 DEF Elements
    <3> QED
      BY <3>5, <3>11, <3>12
  <2> QED
    BY <2>1, <2>2
<1> HIDE DEF w
<1>16. Holds(K, V, w, v, nids, nptrs)
  BY <1>5, <1>10, <1>11, <1>15 DEF Holds
<1>17. /\ Block(K, V, w) /\ upper(w) = v
       /\ \A j \in 1 .. v : id_at(w, j) = nids[j] /\ ptr_at(w, j) = nptrs[j]
  BY <1>16, BlockIs
<1>18. \A j \in 1 .. v : /\ id_at(w, j) = id_at(m, IF j = i THEN u ELSE j)
                         /\ ptr_at(w, j) = ptr_at(m, IF j = i THEN u ELSE j)
  BY <1>1, <1>5, <1>6, <1>9, <1>17
<1> QED
  BY <1>2, <1>4, <1>17, <1>18 DEF u, v

(* dropall keeps the block, and nothing in it.                             *)
LEMMA DropAllIs ==
  ASSUME NEW K, NEW V, NEW m, Block(K, V, m)
  PROVE  Block(K, V, dropall(m)) /\ upper(dropall(m)) = 0
<1> DEFINE u == upper(m)
           w == WriteId(m, 0, 0)
           e == [i \in 1 .. 0 |-> 0]
<1>1. u \in Nat /\ 0 \in Nat /\ 0 <= u /\ IdMod \in Nat /\ 0 \in 0 .. IdMod - 1 /\ 0 \in 0 .. IdMod
  BY GrainIs DEF Block
<1>2. CASE m = NoBlock
  <2>1. dropall(m) = m /\ u = 0
    BY <1>2 DEF dropall, upper
  <2> QED
    BY <2>1
<1>3. CASE m # NoBlock
  <2>1. m \in Seq(Cells(V)) /\ size(get_capacity(u)) <= Len(m) /\ Len(m) \in Nat
    BY <1>3 DEF Block
  <2> HIDE DEF u
  <2>2. /\ size(get_capacity(0)) \in Nat /\ size(get_capacity(u)) \in Nat /\ get_capacity(0) \in Nat
        /\ size(get_capacity(0)) <= size(get_capacity(u)) /\ 0 <= get_capacity(0)
    BY <1>1, SizesAre
  <2>3. size(get_capacity(0)) <= Len(m)
    BY <2>1, <2>2
  <2>4. Elements(V, m, 0, 0, e, e)
    BY <2>1, <2>3 DEF Elements, Pointers
  <2>5. e \in [1 .. 0 -> K] /\ e \in [1 .. 0 -> V]
    OBVIOUS
  <2> HIDE DEF e
  <2>6. IdFits(V, m, 0, 0, e, e, 0, 0, e)
    BY <1>1, <2>2, <2>4 DEF IdFits
  <2>7. Elements(V, w, 0, 0, e, e) /\ w[0 + 1] = IdCell(0)
    BY <2>6, IdsAreWritten
  <2> HIDE DEF w
  <2>8. Holds(K, V, w, 0, e, e)
    BY <1>1, <2>5, <2>7 DEF Holds
  <2>9. Block(K, V, w) /\ upper(w) = 0
    BY <2>8, BlockIs
  <2>10. dropall(m) = w
    BY <1>3 DEF dropall, w
  <2> QED
    BY <2>9, <2>10
<1> QED
  BY <1>2, <1>3

(* A new block holds nothing.                                              *)
LEMMA CreateIs ==
  ASSUME NEW K, NEW V
  PROVE  /\ Block(K, V, create) /\ upper(create) = 0
         /\ Block(K, V, NoBlock) /\ upper(NoBlock) = 0
<1> DEFINE g == realloc(NoBlock, size(get_capacity(0)))
           w == WriteId(g, 0, 0)
           e == [i \in 1 .. 0 |-> 0]
<1>1. IdMod \in Nat /\ 0 \in 0 .. IdMod - 1 /\ 0 \in 0 .. IdMod
  BY GrainIs
<1>2. Block(K, V, NoBlock) /\ upper(NoBlock) = 0
  <2>1. upper(NoBlock) = 0 /\ NoBlock \in Seq(Cells(V))
    BY DEF upper, NoBlock
  <2> QED
    BY <1>1, <2>1 DEF Block
<1>3. NoBlock \in Seq(Cells(V)) /\ size(get_capacity(0)) \in Nat /\ get_capacity(0) \in Nat
  <2>1. 0 \in Nat /\ 0 <= 0
    OBVIOUS
  <2> QED
    BY <2>1, SizesAre DEF NoBlock
<1>4. g \in Seq(Cells(V)) /\ Len(g) = size(get_capacity(0))
  BY <1>3, CellsAreKept
<1>5. e \in [1 .. 0 -> K] /\ e \in [1 .. 0 -> V]
  OBVIOUS
<1> HIDE DEF e, g
<1>6. Elements(V, g, 0, 0, e, e)
  BY <1>3, <1>4 DEF Elements, Pointers
<1>7. IdFits(V, g, 0, 0, e, e, 0, 0, e)
  BY <1>1, <1>3, <1>6 DEF IdFits
<1>8. Elements(V, w, 0, 0, e, e) /\ w[0 + 1] = IdCell(0)
  BY <1>7, IdsAreWritten
<1> HIDE DEF w
<1>9. Holds(K, V, w, 0, e, e)
  BY <1>1, <1>5, <1>8 DEF Holds
<1>10. Block(K, V, w) /\ upper(w) = 0
  BY <1>9, BlockIs
<1>11. create = w
  BY DEF create, w, g
<1> QED
  BY <1>2, <1>10, <1>11

(* search gives the index of an id, 0 if it is not in the block.           *)
LEMMA SearchIs ==
  ASSUME NEW K, NEW V, NEW m, Block(K, V, m), NEW id
  PROVE  /\ search(m, id) = 0 <=> \A i \in 1 .. upper(m) : id_at(m, i) # id
         /\ search(m, id) # 0 =>
              search(m, id) \in 1 .. upper(m) /\ id_at(m, search(m, id)) = id
<1> DEFINE I == {i \in 1 .. upper(m) : id_at(m, i) = id}
<1>1. upper(m) \in Nat
  BY GrainIs DEF Block
<1>2. search(m, id) = IF I = {} THEN 0 ELSE CHOOSE i \in I : \A j \in I : i <= j
  BY DEF search
<1>3. CASE I = {}
  BY <1>2, <1>3
<1>4. CASE I # {}
  <2>1. PICK i \in I : TRUE
    BY <1>4
  <2>2. \A j \in I : j = i
    BY <2>1 DEF Block
  <2>3. i <= i /\ i # 0
    BY <1>1
  <2>4. \A j \in I : i <= j
    BY <2>2, <2>3
  <2> DEFINE s == CHOOSE k \in I : \A j \in I : k <= j
  <2>5. s \in I
    BY <2>1, <2>4
  <2>6. search(m, id) = s
    BY <1>2, <1>4
  <2> HIDE DEF s
  <2>7. s \in 1 .. upper(m) /\ id_at(m, s) = id
    BY <2>5
  <2>8. s # 0
    BY <1>1, <2>7
  <2> QED
    BY <2>6, <2>7, <2>8
<1> QED
  BY <1>3, <1>4

-----------------------------------------------------------------------------
(* The pairs of an id and a pointer that a block holds, and what the       *)
(* functions do to them.                                                   *)

Content(m) == {<<id_at(m, i), ptr_at(m, i)>> : i \in 1 .. upper(m)}

(* What search tells of the content.                                       *)
LEMMA ContentIs ==
  ASSUME NEW K, NEW V, NEW m, Block(K, V, m), NEW id
  PROVE  LET s == search(m, id)
         IN /\ s = 0 <=> \A q \in Content(m) : q[1] # id
            /\ s # 0 => /\ s \in 1 .. upper(m) /\ id_at(m, s) = id /\ ptr_at(m, s) \in V /\ id \in K
                        /\ <<id, ptr_at(m, s)>> \in Content(m)
                        /\ \A q \in Content(m) : q[1] = id => q = <<id, ptr_at(m, s)>>
            /\ \A q \in Content(m) : q \in K \X V
<1> DEFINE s == search(m, id)
<1>1. s = 0 <=> \A i \in 1 .. upper(m) : id_at(m, i) # id
  BY SearchIs
<1>2. s # 0 => s \in 1 .. upper(m) /\ id_at(m, s) = id
  BY SearchIs
<1> HIDE DEF s
<1>3. s = 0 <=> \A q \in Content(m) : q[1] # id
  <2>1. \A q \in Content(m) : \E i \in 1 .. upper(m) : q[1] = id_at(m, i)
    BY DEF Content
  <2>2. \A i \in 1 .. upper(m) : \E q \in Content(m) : q[1] = id_at(m, i)
    <3> SUFFICES ASSUME NEW i \in 1 .. upper(m)
                 PROVE  \E q \in Content(m) : q[1] = id_at(m, i)
      OBVIOUS
    <3>1. <<id_at(m, i), ptr_at(m, i)>> \in Content(m)
      BY DEF Content
    <3> QED
      BY <3>1
  <2> QED
    BY <1>1, <2>1, <2>2
<1>4. \A q \in Content(m) : q \in K \X V
  BY DEF Content, Block
<1>5. ASSUME s # 0
      PROVE  /\ s \in 1 .. upper(m) /\ id_at(m, s) = id /\ ptr_at(m, s) \in V /\ id \in K
             /\ <<id, ptr_at(m, s)>> \in Content(m)
             /\ \A q \in Content(m) : q[1] = id => q = <<id, ptr_at(m, s)>>
  <2>1. s \in 1 .. upper(m) /\ id_at(m, s) = id
    BY <1>2, <1>5
  <2>2. ptr_at(m, s) \in V /\ id \in K
    BY <2>1 DEF Block
  <2>3. <<id, ptr_at(m, s)>> \in Content(m)
    BY <2>1 DEF Content
  <2>4. ASSUME NEW q \in Content(m), q[1] = id PROVE q = <<id, ptr_at(m, s)>>
    <3>1. PICK i \in 1 .. upper(m) : q = <<id_at(m, i), ptr_at(m, i)>>
      BY DEF Content
    <3>2. id_at(m, i) = id
      BY <2>4, <3>1
    <3>3. i = s
      BY <2>1, <3>2 DEF Block
    <3> QED
      BY <3>1, <3>2, <3>3
  <2> QED
    BY <2>1, <2>2, <2>3, <2>4
<1> QED
  BY <1>3, <1>4, <1>5 DEF s

(* add adds its pair.                                                      *)
MayAdd(K, V, m, id, p) ==
  /\ Block(K, V, m) /\ K \subseteq 0 .. IdMod - 1 /\ K # 0 .. IdMod - 1
  /\ id \in K /\ search(m, id) = 0 /\ p \in V

LEMMA AddContent ==
  ASSUME NEW K, NEW V, NEW m, NEW id, NEW p, MayAdd(K, V, m, id, p)
  PROVE  Block(K, V, add(m, id, p)) /\ Content(add(m, id, p)) = Content(m) \cup {<<id, p>>}
<1> DEFINE w == add(m, id, p)
           u == upper(m)
<1>0. /\ Block(K, V, m) /\ K \subseteq 0 .. IdMod - 1 /\ K # 0 .. IdMod - 1
      /\ id \in K /\ search(m, id) = 0 /\ p \in V
  BY DEF MayAdd
<1>1. \A i \in 1 .. u : id_at(m, i) # id
  BY <1>0, SearchIs
<1>2. /\ Block(K, V, w) /\ upper(w) = u + 1 /\ u \in Nat
      /\ id_at(w, u + 1) = id /\ ptr_at(w, u + 1) = p
      /\ \A i \in 1 .. u : id_at(w, i) = id_at(m, i) /\ ptr_at(w, i) = ptr_at(m, i)
  <2>1. CanAdd(K, V, m, id, p)
    BY <1>0, <1>1 DEF CanAdd
  <2> QED
    BY <2>1, AddIs
<1> HIDE DEF w, u
<1>3. \A i \in 1 .. u + 1 : i = u + 1 \/ i \in 1 .. u
  BY <1>2
<1>4. \A i \in 1 .. u : i \in 1 .. u + 1
  BY <1>2
<1>5. u + 1 \in 1 .. u + 1
  BY <1>2
<1>6. Content(w) = {<<id_at(w, i), ptr_at(w, i)>> : i \in 1 .. u + 1}
  BY <1>2 DEF Content
<1>7. Content(m) = {<<id_at(m, i), ptr_at(m, i)>> : i \in 1 .. u}
  BY DEF Content, u
<1>8. ASSUME NEW q \in Content(w) PROVE q \in Content(m) \cup {<<id, p>>}
  BY <1>2, <1>3, <1>6, <1>7
<1>9. ASSUME NEW q \in Content(m) \cup {<<id, p>>} PROVE q \in Content(w)
  <2>1. CASE q = <<id, p>>
    BY <1>2, <1>5, <1>6, <2>1
  <2>2. CASE q \in Content(m)
    BY <1>2, <1>4, <1>6, <1>7, <2>2
  <2> QED
    BY <2>1, <2>2
<1> QED
  BY <1>2, <1>8, <1>9 DEF w

(* Writing a pointer changes the one of its id.                            *)
MaySet(K, V, m, id, p) ==
  Block(K, V, m) /\ K \subseteq 0 .. IdMod - 1 /\ search(m, id) # 0 /\ p \in V

LEMMA SetContent ==
  ASSUME NEW K, NEW V, NEW m, NEW id, NEW p, MaySet(K, V, m, id, p)
  PROVE  LET w == WritePtr(m, PtrAddr(upper(m), search(m, id)), p)
         IN /\ Block(K, V, w)
            /\ Content(w) = {q \in Content(m) : q[1] # id} \cup {<<id, p>>}
<1> DEFINE s == search(m, id)
           w == WritePtr(m, PtrAddr(upper(m), s), p)
           u == upper(m)
<1>0. Block(K, V, m) /\ K \subseteq 0 .. IdMod - 1 /\ search(m, id) # 0 /\ p \in V
  BY DEF MaySet
<1>1. s \in 1 .. u /\ id_at(m, s) = id
  BY <1>0, SearchIs
<1> HIDE DEF s
<1>2. /\ Block(K, V, w) /\ upper(w) = u
      /\ \A j \in 1 .. u :
           id_at(w, j) = id_at(m, j) /\ ptr_at(w, j) = IF j = s THEN p ELSE ptr_at(m, j)
  <2>1. CanSet(K, V, m, s, p)
    BY <1>0, <1>1 DEF CanSet
  <2> QED
    BY <2>1, SetIs
<1>3. \A j \in 1 .. u : id_at(m, j) = id => j = s
  BY <1>0, <1>1 DEF Block
<1> HIDE DEF w, u
<1>4. Content(w) = {<<id_at(w, i), ptr_at(w, i)>> : i \in 1 .. u}
  BY <1>2 DEF Content
<1>5. Content(m) = {<<id_at(m, i), ptr_at(m, i)>> : i \in 1 .. u}
  BY DEF Content, u
<1>6. ASSUME NEW i \in 1 .. u
      PROVE  <<id_at(w, i), ptr_at(w, i)>> \in {q \in Content(m) : q[1] # id} \cup {<<id, p>>}
  <2>1. CASE i = s
    BY <1>1, <1>2, <2>1
  <2>2. CASE i # s
    BY <1>2, <1>3, <1>5, <2>2
  <2> QED
    BY <2>1, <2>2
<1>7. ASSUME NEW q \in {q \in Content(m) : q[1] # id} \cup {<<id, p>>} PROVE q \in Content(w)
  <2>1. CASE q = <<id, p>>
    BY <1>1, <1>2, <1>4, <2>1
  <2>2. CASE q # <<id, p>>
    <3>1. PICK i \in 1 .. u : q = <<id_at(m, i), ptr_at(m, i)>> /\ q[1] # id
      BY <1>5, <2>2
    <3>2. i # s
      BY <1>1, <3>1
    <3> QED
      BY <1>2, <1>4, <3>1, <3>2
  <2> QED
    BY <2>1, <2>2
<1> QED
  BY <1>2, <1>4, <1>6, <1>7 DEF w, s

(* drop removes the pair of the id.                                        *)
MayDrop(K, V, m, id) ==
  Block(K, V, m) /\ K \subseteq 0 .. IdMod - 1 /\ search(m, id) # 0

LEMMA DropContent ==
  ASSUME NEW K, NEW V, NEW m, NEW id, MayDrop(K, V, m, id)
  PROVE  LET w == drop(m, search(m, id))
         IN Block(K, V, w) /\ Content(w) = {q \in Content(m) : q[1] # id}
<1> DEFINE s == search(m, id)
           w == drop(m, s)
           u == upper(m)
           t(j) == IF j = s THEN u ELSE j
<1>0. Block(K, V, m) /\ K \subseteq 0 .. IdMod - 1 /\ search(m, id) # 0
  BY DEF MayDrop
<1>1. s \in 1 .. u /\ id_at(m, s) = id
  BY <1>0, SearchIs
<1> HIDE DEF s
<1>2. /\ Block(K, V, w) /\ upper(w) = u - 1 /\ u \in Nat
      /\ \A j \in 1 .. u - 1 : id_at(w, j) = id_at(m, t(j)) /\ ptr_at(w, j) = ptr_at(m, t(j))
  <2>1. CanDrop(K, V, m, s)
    BY <1>0, <1>1 DEF CanDrop
  <2> QED
    BY <2>1, DropIs
<1>3. \A j \in 1 .. u : id_at(m, j) = id => j = s
  BY <1>0, <1>1 DEF Block
<1> HIDE DEF w, u
<1>4. \A j \in 1 .. u - 1 : t(j) \in 1 .. u /\ t(j) # s
  BY <1>1, <1>2
<1>5. \A i \in 1 .. u : i # s => \E j \in 1 .. u - 1 : t(j) = i
  <2> SUFFICES ASSUME NEW i \in 1 .. u, i # s PROVE \E j \in 1 .. u - 1 : t(j) = i
    OBVIOUS
  <2>1. CASE i = u
    <3>1. s \in 1 .. u - 1
      BY <1>1, <1>2, <2>1
    <3> QED
      BY <2>1, <3>1
  <2>2. CASE i # u
    <3>1. i \in 1 .. u - 1
      BY <1>2, <2>2
    <3> QED
      BY <3>1
  <2> QED
    BY <2>1, <2>2
<1> HIDE DEF t
<1>6. Content(w) = {<<id_at(w, i), ptr_at(w, i)>> : i \in 1 .. u - 1}
  BY <1>2 DEF Content
<1>7. Content(m) = {<<id_at(m, i), ptr_at(m, i)>> : i \in 1 .. u}
  BY DEF Content, u
<1>8. ASSUME NEW j \in 1 .. u - 1
      PROVE  <<id_at(w, j), ptr_at(w, j)>> \in {q \in Content(m) : q[1] # id}
  <2>1. t(j) \in 1 .. u /\ id_at(m, t(j)) # id
    BY <1>3, <1>4
  <2> QED
    BY <1>2, <1>7, <2>1
<1>9. ASSUME NEW q \in {q \in Content(m) : q[1] # id} PROVE q \in Content(w)
  <2>1. PICK i \in 1 .. u : q = <<id_at(m, i), ptr_at(m, i)>> /\ q[1] # id
    BY <1>7
  <2>2. i # s
    BY <1>1, <2>1
  <2>3. PICK j \in 1 .. u - 1 : t(j) = i
    BY <1>5, <2>2
  <2> QED
    BY <1>2, <1>6, <2>1, <2>3
<1> QED
  BY <1>2, <1>6, <1>8, <1>9 DEF w, s

-----------------------------------------------------------------------------
(* The maps from ids to pointers.                                          *)

PtrInv == Block(Ids, Ptrs, i2p)

(* The hypothesis of what follows: ids are left that no client uses, for   *)
(* the upper index of a block of all the ids is zero.                      *)
SomeIdIsFree == Ids # 0 .. IdMod - 1

(* The map is what the block holds.                                        *)
LEMMA MapIs == Map = Content(i2p) /\ Map' = Content(i2p')
BY DEF Map, Content

(* An id is in the map when search finds it.                               *)
LEMMA HasIs ==
  ASSUME PtrInv, NEW id
  PROVE  /\ AM!Has(id) <=> search(i2p, id) # 0
         /\ AM!Has(id) => /\ AM!Of(id) = <<id, ptr_at(i2p, search(i2p, id))>>
                          /\ ptr_at(i2p, search(i2p, id)) \in Ptrs
         /\ ~ AM!Has(id) => AM!Without(id) = Map
<1>1. Block(Ids, Ptrs, i2p)
  BY DEF PtrInv
<1> DEFINE s == search(i2p, id)
           x == <<id, ptr_at(i2p, s)>>
<1>2. /\ s = 0 <=> \A q \in Map : q[1] # id
      /\ s # 0 => ptr_at(i2p, s) \in Ptrs /\ x \in Map /\ \A q \in Map : q[1] = id => q = x
  BY <1>1, ContentIs, MapIs
<1>3. x[1] = id
  OBVIOUS
<1> HIDE DEF s, x
<1>4. AM!Has(id) <=> s # 0
  BY <1>2, <1>3 DEF AM!Has
<1>5. s # 0 => AM!Of(id) = x
  <2> SUFFICES ASSUME s # 0 PROVE AM!Of(id) = x
    OBVIOUS
  <2>1. \A q \in Map : q[1] = id <=> q = x
    BY <1>2, <1>3
  <2>2. (CHOOSE q \in Map : q[1] = id) \in Map /\ (CHOOSE q \in Map : q[1] = id)[1] = id
    BY <1>2, <1>3
  <2> QED
    BY <2>1, <2>2 DEF AM!Of
<1>6. ~ AM!Has(id) => AM!Without(id) = Map
  BY DEF AM!Has, AM!Without
<1> QED
  BY <1>2, <1>4, <1>5, <1>6 DEF s, x

(* Adding a pair, when memory allows it.                                   *)
LEMMA AddStep ==
  ASSUME PtrInv, SomeIdIsFree, NEW id \in Ids, NEW p \in Ptrs, search(i2p, id) = 0, TryAdd(id, p)
  PROVE  PtrInv' /\ (AM!Succeed(AM!With(<<id, p>>)) \/ AM!Fail("ENOMEM"))
<1>1. Block(Ids, Ptrs, i2p) /\ Ids \subseteq 0 .. IdMod - 1 /\ Ids # 0 .. IdMod - 1
  BY GrainAssumption DEF PtrInv, SomeIdIsFree
<1>2. CASE Result(add(i2p, id, p), "ok")
  <2>1. Block(Ids, Ptrs, i2p') /\ Content(i2p') = Content(i2p) \cup {<<id, p>>}
    <3>1. MayAdd(Ids, Ptrs, i2p, id, p)
      BY <1>1 DEF MayAdd
    <3> QED
      BY <1>2, <3>1, AddContent DEF Result
  <2>2. AM!Without(id) = Map
    BY HasIs
  <2>3. <<id, p>>[1] = id
    OBVIOUS
  <2>4. AM!With(<<id, p>>) = Map \cup {<<id, p>>}
    BY <2>2, <2>3 DEF AM!With
  <2>5. Map' = AM!With(<<id, p>>)
    BY <2>1, <2>4, MapIs
  <2> QED
    BY <1>2, <2>1, <2>5 DEF PtrInv, Result, AM!Succeed
<1>3. CASE Result(i2p, "ENOMEM")
  <2>1. i2p' = i2p /\ res' = "ENOMEM"
    BY <1>3 DEF Result
  <2>2. Map' = Map
    BY <2>1, MapIs
  <2> QED
    BY <1>1, <2>1, <2>2 DEF PtrInv, AM!Fail
<1> QED
  BY <1>2, <1>3 DEF TryAdd

(* Changing a pair that is in the map.                                     *)
LEMMA SetStep ==
  ASSUME PtrInv, NEW id \in Ids, NEW p \in Ptrs, search(i2p, id) # 0,
         SetAt(search(i2p, id), p)
  PROVE  PtrInv' /\ AM!Succeed(AM!With(<<id, p>>))
<1>1. Block(Ids, Ptrs, i2p) /\ Ids \subseteq 0 .. IdMod - 1
  BY GrainAssumption DEF PtrInv
<1>2. i2p' = WritePtr(i2p, PtrAddr(upper(i2p), search(i2p, id)), p) /\ res' = "ok"
  BY DEF SetAt, Result
<1>3. /\ Block(Ids, Ptrs, i2p')
      /\ Content(i2p') = {q \in Content(i2p) : q[1] # id} \cup {<<id, p>>}
  <2>1. MaySet(Ids, Ptrs, i2p, id, p)
    BY <1>1 DEF MaySet
  <2> QED
    BY <1>2, <2>1, SetContent
<1>4. <<id, p>>[1] = id
  OBVIOUS
<1>5. AM!With(<<id, p>>) = {q \in Map : q[1] # id} \cup {<<id, p>>}
  BY <1>4 DEF AM!With, AM!Without
<1>6. Map' = AM!With(<<id, p>>)
  BY <1>3, <1>5, MapIs
<1> QED
  BY <1>2, <1>3, <1>6 DEF PtrInv, AM!Succeed

(* A step that leaves the map and says so.                                 *)
LEMMA KeepStep ==
  ASSUME PtrInv, NEW r, Result(i2p, r)
  PROVE  PtrInv' /\ AM!Fail(r)
<1>1. i2p' = i2p /\ res' = r
  BY DEF Result
<1>2. Map' = Map
  BY <1>1, MapIs
<1> QED
  BY <1>1, <1>2 DEF PtrInv, AM!Fail

(* A step that leaves an empty block.                                      *)
LEMMA EmptyStep ==
  ASSUME NEW m, NEW r, Block(Ids, Ptrs, m), upper(m) = 0, Result(m, r)
  PROVE  PtrInv' /\ Map' = {} /\ res' = r
<1>1. i2p' = m /\ res' = r
  BY DEF Result
<1>2. Content(i2p') = {}
  BY <1>1 DEF Content
<1> QED
  BY <1>1, <1>2, MapIs DEF PtrInv

(* Every step on the block is one on the map.                              *)
LEMMA MapStep ==
  ASSUME PtrInv, SomeIdIsFree, Next
  PROVE  PtrInv' /\ AM!Next
<1>1. CASE u16id2ptr_create
  <2>1. Map = {}
    BY <1>1, CreateIs, MapIs DEF u16id2ptr_create, Content
  <2>2. Result(create, "ok") \/ Result(NoBlock, "ENOMEM")
    BY <1>1 DEF u16id2ptr_create
  <2>3. PtrInv' /\ Map' = {} /\ res' \in {"ok", "ENOMEM"}
    BY <2>2, CreateIs, EmptyStep
  <2>4. AM!Create
    BY <2>1, <2>3 DEF AM!Create, AM!Succeed, AM!Fail
  <2> QED
    BY <2>3, <2>4 DEF AM!Next
<1>2. CASE u16id2ptr_destroy
  <2>1. PtrInv' /\ Map' = {} /\ res' = "ok"
    BY <1>2, CreateIs, EmptyStep DEF u16id2ptr_destroy
  <2>2. AM!DropAll
    BY <2>1 DEF AM!DropAll, AM!Succeed
  <2> QED
    BY <2>1, <2>2 DEF AM!Next
<1>3. CASE u16id2ptr_dropall
  <2>1. Block(Ids, Ptrs, dropall(i2p)) /\ upper(dropall(i2p)) = 0
    BY DropAllIs DEF PtrInv
  <2>2. PtrInv' /\ Map' = {} /\ res' = "ok"
    BY <1>3, <2>1, EmptyStep DEF u16id2ptr_dropall
  <2>3. AM!DropAll
    BY <2>2 DEF AM!DropAll, AM!Succeed
  <2> QED
    BY <2>2, <2>3 DEF AM!Next
<1>4. ASSUME NEW q \in Pairs,
             u16id2ptr_add(q[1], q[2]) \/ u16id2ptr_set(q[1], q[2]) \/ u16id2ptr_put(q[1], q[2])
      PROVE  PtrInv' /\ AM!Next
  <2> DEFINE id == q[1]
             p == q[2]
  <2>1. id \in Ids /\ p \in Ptrs /\ q = <<id, p>>
    BY PairsAssumption
  <2>2. AM!Has(id) <=> search(i2p, id) # 0
    BY HasIs
  <2> HIDE DEF id, p
  <2>3. CASE u16id2ptr_add(id, p)
    <3>1. CASE search(i2p, id) # 0 /\ Result(i2p, "EEXIST")
      <4>1. PtrInv' /\ AM!Fail("EEXIST")
        BY <3>1, KeepStep
      <4>2. AM!Add(q)
        BY <2>2, <3>1, <4>1 DEF AM!Add, id
      <4> QED
        BY <4>1, <4>2 DEF AM!Next
    <3>2. CASE search(i2p, id) = 0 /\ TryAdd(id, p)
      <4>1. PtrInv' /\ (AM!Succeed(AM!With(q)) \/ AM!Fail("ENOMEM"))
        BY <2>1, <3>2, AddStep
      <4>2. AM!Add(q)
        BY <2>2, <3>2, <4>1 DEF AM!Add, id
      <4> QED
        BY <4>1, <4>2 DEF AM!Next
    <3> QED
      BY <2>3, <3>1, <3>2 DEF u16id2ptr_add
  <2>4. CASE u16id2ptr_set(id, p)
    <3>1. CASE search(i2p, id) # 0 /\ SetAt(search(i2p, id), p)
      <4>1. PtrInv' /\ AM!Succeed(AM!With(q))
        BY <2>1, <3>1, SetStep
      <4>2. AM!Set(q)
        BY <4>1 DEF AM!Set
      <4> QED
        BY <4>1, <4>2 DEF AM!Next
    <3>2. CASE search(i2p, id) = 0 /\ TryAdd(id, p)
      <4>1. PtrInv' /\ (AM!Succeed(AM!With(q)) \/ AM!Fail("ENOMEM"))
        BY <2>1, <3>2, AddStep
      <4>2. AM!Set(q)
        BY <2>2, <3>2, <4>1 DEF AM!Set, id
      <4> QED
        BY <4>1, <4>2 DEF AM!Next
    <3> QED
      BY <2>4, <3>1, <3>2 DEF u16id2ptr_set
  <2>5. CASE u16id2ptr_put(id, p)
    <3>1. CASE search(i2p, id) = 0 /\ Result(i2p, "ENOENT")
      <4>1. PtrInv' /\ AM!Fail("ENOENT")
        BY <3>1, KeepStep
      <4>2. AM!Put(q)
        BY <2>2, <3>1, <4>1 DEF AM!Put, id
      <4> QED
        BY <4>1, <4>2 DEF AM!Next
    <3>2. CASE search(i2p, id) # 0 /\ SetAt(search(i2p, id), p)
      <4>1. PtrInv' /\ AM!Succeed(AM!With(q))
        BY <2>1, <3>2, SetStep
      <4>2. AM!Put(q)
        BY <2>2, <3>2, <4>1 DEF AM!Put, id
      <4> QED
        BY <4>1, <4>2 DEF AM!Next
    <3> QED
      BY <2>5, <3>1, <3>2 DEF u16id2ptr_put
  <2> QED
    BY <1>4, <2>3, <2>4, <2>5 DEF id, p
<1>5. ASSUME NEW id \in Ids, u16id2ptr_get(id) \/ u16id2ptr_drop(id)
      PROVE  PtrInv' /\ AM!Next
  <2> DEFINE s == search(i2p, id)
             p == ptr_at(i2p, s)
  <2>1. /\ AM!Has(id) <=> s # 0
        /\ AM!Has(id) => AM!Of(id)[2] = p
    <3>1. <<id, p>>[2] = p
      OBVIOUS
    <3> QED
      BY <3>1, HasIs
  <2>2. CASE s = 0 /\ Result(i2p, "ENOENT")
    <3>1. PtrInv' /\ AM!Fail("ENOENT")
      BY <2>2, KeepStep
    <3>2. AM!Get(id)
      BY <2>1, <2>2, <3>1 DEF AM!Get
    <3> QED
      BY <3>1, <3>2 DEF AM!Next
  <2>3. CASE s # 0 /\ Result(i2p, p)
    <3>1. PtrInv' /\ AM!Fail(p)
      BY <2>3, KeepStep
    <3>2. AM!Get(id)
      BY <2>1, <2>3, <3>1 DEF AM!Get
    <3> QED
      BY <3>1, <3>2 DEF AM!Next
  <2>4. CASE s # 0 /\ Result(drop(i2p, s), p)
    <3>1. Block(Ids, Ptrs, i2p) /\ Ids \subseteq 0 .. IdMod - 1
      BY GrainAssumption DEF PtrInv
    <3>2. i2p' = drop(i2p, s) /\ res' = p
      BY <2>4 DEF Result
    <3>3. Block(Ids, Ptrs, i2p') /\ Content(i2p') = {q \in Content(i2p) : q[1] # id}
      <4>1. MayDrop(Ids, Ptrs, i2p, id)
        BY <2>4, <3>1 DEF MayDrop
      <4> QED
        BY <3>2, <4>1, DropContent
    <3>4. Map' = AM!Without(id)
      BY <3>3, MapIs DEF AM!Without
    <3>5. AM!Drop(id)
      BY <2>1, <2>4, <3>2, <3>4 DEF AM!Drop
    <3> QED
      BY <3>3, <3>5 DEF AM!Next, PtrInv
  <2> QED
    BY <1>5, <2>2, <2>3, <2>4 DEF u16id2ptr_get, u16id2ptr_drop
<1> QED
  BY <1>1, <1>2, <1>3, <1>4, <1>5 DEF Next

(* u16id2ptr does what IdMap says, whatever is moved in the block, which   *)
(* holds what its upper index says and no id twice: the functions of       *)
(* sandbox/u16id.c on pointers, when some id is never used.                *)
THEOREM PtrMapCorrect ==
  ASSUME SomeIdIsFree
  PROVE  Spec => ImplementsIdMap /\ []BlockOK
<1>1. Init => PtrInv /\ AM!Init
  <2> SUFFICES ASSUME Init PROVE PtrInv /\ AM!Init
    OBVIOUS
  <2>1. PtrInv
    BY CreateIs DEF Init, PtrInv
  <2>2. Map = {}
    BY CreateIs, MapIs DEF Init, Content
  <2> QED
    BY <2>1, <2>2 DEF Init, AM!Init
<1>2. PtrInv /\ [Next]_i2pVars => PtrInv' /\ [AM!Next]_<<Map, res>>
  <2> SUFFICES ASSUME PtrInv, [Next]_i2pVars PROVE PtrInv' /\ [AM!Next]_<<Map, res>>
    OBVIOUS
  <2>1. CASE Next
    BY <2>1, MapStep
  <2>2. CASE UNCHANGED i2pVars
    <3>1. i2p' = i2p /\ res' = res
      BY <2>2 DEF i2pVars
    <3>2. Map' = Map
      BY <3>1, MapIs
    <3> QED
      BY <3>1, <3>2 DEF PtrInv
  <2> QED
    BY <2>1, <2>2
<1>3. PtrInv => BlockOK
  BY DEF PtrInv, Block, BlockOK, InBlock
<1> QED
  BY <1>1, <1>2, <1>3, PTL DEF Spec, ImplementsIdMap, AM!Spec

-----------------------------------------------------------------------------
(* The maps from ids to booleans.                                          *)

(* The ids of the block and its fields.                                    *)
Firsts == {idm(id) : id \in Ids}
Fields == (SUBSET (0 .. P - 1)) \ {{}}

BoolInv == Block(Firsts, Fields, i2b)

(* The id of a field and the bit in it.                                    *)
LEMMA BitsAre ==
  ASSUME NEW x \in Nat
  PROVE  /\ idm(x) \in Nat /\ idm(x) <= x /\ bit(x) \in 0 .. P - 1
         /\ idm(x) + bit(x) = x /\ idm(idm(x)) = idm(x)
         /\ \A b \in 0 .. P - 1 : idm(idm(x) + b) = idm(x) /\ bit(idm(x) + b) = b
<1>1. P \in Nat /\ P > 0
  BY BitsAssumption
<1> DEFINE k == x \div P
<1>2. x = P * k + (x % P) /\ k \in Nat /\ x % P \in 0 .. P - 1
  BY <1>1
<1>3. \A b \in 0 .. P - 1 : (P * k + b) % P = b
  <2>1. \A l \in Nat : \A b \in 0 .. P - 1 : (P * l + b) % P = b
    BY <1>1
  <2> HIDE DEF k
  <2> QED
    BY <1>2, <2>1
<1> HIDE DEF k
<1>4. P * k \in Nat
  BY <1>1, <1>2
<1>5. idm(x) = P * k
  BY <1>1, <1>2, <1>4 DEF idm
<1>6. \A b \in 0 .. P - 1 : idm(idm(x) + b) = idm(x) /\ bit(idm(x) + b) = b
  <2> SUFFICES ASSUME NEW b \in 0 .. P - 1
               PROVE  idm(idm(x) + b) = idm(x) /\ bit(idm(x) + b) = b
    OBVIOUS
  <2> DEFINE y == P * k
  <2>1. (y + b) % P = b
    BY <1>3
  <2>2. y \in Nat /\ b \in Nat
    BY <1>4
  <2>3. y + b - b = y
    <3> HIDE DEF y
    <3> QED
      BY <2>2
  <2>4. idm(y + b) = (y + b) - ((y + b) % P) /\ bit(y + b) = (y + b) % P
    <3> HIDE DEF y
    <3> QED
      BY DEF idm, bit
  <2> HIDE DEF y
  <2>5. idm(y + b) = y /\ bit(y + b) = b
    BY <1>1, <2>1, <2>2, <2>4
  <2> QED
    BY <1>5, <2>5 DEF y
<1>7. idm(idm(x)) = idm(x)
  <2>1. 0 \in 0 .. P - 1 /\ idm(x) + 0 = idm(x)
    BY <1>1, <1>4, <1>5
  <2> QED
    BY <1>6, <2>1
<1> QED
  BY <1>1, <1>2, <1>4, <1>5, <1>6, <1>7 DEF bit

(* The ids of fields are ids, and not all of them.                         *)
LEMMA FirstsAre ==
  /\ Ids \subseteq Nat /\ Firsts \subseteq 0 .. IdMod - 1 /\ Firsts \subseteq Nat
  /\ \A k \in Firsts : idm(k) = k
  /\ SomeIdIsFree => Firsts # 0 .. IdMod - 1
<1>1. IdMod \in Nat /\ IdMod >= 2 /\ Ids \subseteq 0 .. IdMod - 1 /\ Ids \subseteq Nat
  BY GrainIs, GrainAssumption
<1>2. \A id \in Ids : idm(id) \in Nat /\ idm(id) <= id /\ idm(idm(id)) = idm(id)
  BY <1>1, BitsAre
<1>3. Firsts \subseteq 0 .. IdMod - 1 /\ Firsts \subseteq Nat
  <2> SUFFICES ASSUME NEW id \in Ids PROVE idm(id) \in 0 .. IdMod - 1 /\ idm(id) \in Nat
    BY DEF Firsts
  <2>1. id \in 0 .. IdMod - 1
    BY <1>1
  <2>2. idm(id) \in Nat /\ idm(id) <= id
    BY <1>2
  <2> QED
    BY <1>1, <2>1, <2>2
<1>4. \A k \in Firsts : idm(k) = k
  BY <1>2 DEF Firsts
<1>5. SomeIdIsFree => Firsts # 0 .. IdMod - 1
  <2> SUFFICES ASSUME SomeIdIsFree, Firsts = 0 .. IdMod - 1 PROVE FALSE
    OBVIOUS
  <2>1. P \in Nat /\ P > 0
    BY BitsAssumption
  <2>2. CASE P = 1
    <3>1. \A id \in Ids : idm(id) = id
      BY <1>1, <2>2 DEF idm
    <3>2. Firsts = Ids
      BY <3>1 DEF Firsts
    <3> QED
      BY <3>2 DEF SomeIdIsFree
  <2>3. CASE P # 1
    <3>1. 1 \in Firsts
      BY <1>1
    <3>2. idm(1) = 1
      BY <1>4, <3>1
    <3>3. 1 % P = 1
      BY <2>1, <2>3
    <3> QED
      BY <3>2, <3>3 DEF idm
  <2> QED
    BY <2>2, <2>3
<1> QED
  BY <1>1, <1>3, <1>4, <1>5

(* The boolean of x is one in a content.                                   *)
Bit(C, x) == \E q \in C : q[1] = idm(x) /\ bit(x) \in q[2]

(* The ids whose boolean is one, of a content.                             *)
TrueOf(m) == UNION {{id_at(m, i) + b : b \in ptr_at(m, i)} : i \in 1 .. upper(m)}

LEMMA TrueAre ==
  ASSUME NEW m, Block(Firsts, Fields, m)
  PROVE  TrueOf(m) = {x \in Nat : Bit(Content(m), x)}
<1> DEFINE C == Content(m)
<1>1. \A q \in C : q \in Firsts \X Fields
  BY ContentIs
<1>2. \A x : x \in TrueOf(m) <=> \E q \in C : \E b \in q[2] : x = q[1] + b
  <2>1. \A x : x \in TrueOf(m) <=> \E i \in 1 .. upper(m) : \E b \in ptr_at(m, i) : x = id_at(m, i) + b
    BY DEF TrueOf
  <2>2. ASSUME NEW x, NEW i \in 1 .. upper(m), NEW b \in ptr_at(m, i), x = id_at(m, i) + b
        PROVE  \E q \in C : \E c \in q[2] : x = q[1] + c
    <3> DEFINE q == <<id_at(m, i), ptr_at(m, i)>>
    <3>1. q \in C /\ q[1] = id_at(m, i) /\ q[2] = ptr_at(m, i)
      BY DEF Content
    <3> HIDE DEF q, C
    <3> QED
      BY <2>2, <3>1
  <2>3. ASSUME NEW x, NEW q \in C, NEW b \in q[2], x = q[1] + b
        PROVE  \E i \in 1 .. upper(m) : \E c \in ptr_at(m, i) : x = id_at(m, i) + c
    <3>1. PICK i \in 1 .. upper(m) : q = <<id_at(m, i), ptr_at(m, i)>>
      BY DEF Content
    <3>2. q[1] = id_at(m, i) /\ q[2] = ptr_at(m, i)
      BY <3>1
    <3> QED
      BY <2>3, <3>2
  <2> HIDE DEF C
  <2> QED
    BY <2>1, <2>2, <2>3
<1> HIDE DEF C
<1>3. ASSUME NEW q \in C, NEW b \in q[2]
      PROVE  /\ q[1] + b \in Nat /\ idm(q[1] + b) = q[1] /\ bit(q[1] + b) = b
  <2> DEFINE k == q[1]
  <2>1. k \in Firsts /\ q[2] \in Fields
    BY <1>1
  <2>2. b \in 0 .. P - 1 /\ P \in Nat
    BY <2>1, BitsAssumption DEF Fields
  <2>3. k \in Nat /\ idm(k) = k
    BY <2>1, FirstsAre
  <2> HIDE DEF k
  <2>4. idm(k + b) = k /\ bit(k + b) = b
    BY <2>2, <2>3, BitsAre, ZenonT(60)
  <2>5. k + b \in Nat
    BY <2>2, <2>3
  <2> QED
    BY <2>4, <2>5 DEF k
<1>4. ASSUME NEW x \in TrueOf(m) PROVE x \in Nat /\ Bit(C, x)
  <2>1. PICK q \in C : \E b \in q[2] : x = q[1] + b
    BY <1>2
  <2>2. PICK b \in q[2] : x = q[1] + b
    BY <2>1
  <2> QED
    BY <1>3, <2>2 DEF Bit
<1>5. ASSUME NEW x \in Nat, Bit(C, x) PROVE x \in TrueOf(m)
  <2>1. PICK q \in C : q[1] = idm(x) /\ bit(x) \in q[2]
    BY <1>5 DEF Bit
  <2>2. x = q[1] + bit(x)
    BY <2>1, BitsAre
  <2> QED
    BY <1>2, <2>1, <2>2
<1> QED
  BY <1>4, <1>5 DEF C

(* What the block has of the id of a field.                                *)
LEMMA FieldIs ==
  ASSUME BoolInv, NEW id \in Ids
  PROVE  LET k == idm(id)
             f == ofield(id)
         IN /\ k \in Firsts /\ f \subseteq 0 .. P - 1
            /\ \A x \in Nat : idm(x) = k => (Bit(Content(i2b), x) <=> bit(x) \in f)
            /\ AsInt(bit(id) \in f) = AS!Value(id)
            /\ id \in TrueIds <=> bit(id) \in f
<1> DEFINE k == idm(id)
           C == Content(i2b)
           s == search(i2b, k)
           f == ofield(id)
<1>1. k \in Firsts /\ id \in Nat
  BY FirstsAre DEF Firsts
<1>2. /\ s = 0 <=> \A q \in C : q[1] # k
      /\ s # 0 => /\ <<k, ptr_at(i2b, s)>> \in C
                  /\ \A q \in C : q[1] = k => q = <<k, ptr_at(i2b, s)>>
                  /\ ptr_at(i2b, s) \in Fields
  BY ContentIs DEF BoolInv
<1>3. f = IF s = 0 THEN {} ELSE ptr_at(i2b, s)
  BY DEF ofield, index
<1> HIDE DEF C, s, f
<1>4. f \subseteq 0 .. P - 1
  BY <1>2, <1>3 DEF Fields
<1>5. ASSUME NEW x \in Nat, idm(x) = k PROVE Bit(C, x) <=> bit(x) \in f
  <2>1. CASE s = 0
    BY <1>2, <1>3, <1>5, <2>1 DEF Bit
  <2>2. CASE s # 0
    <3> DEFINE y == <<k, f>>
    <3>1. y \in C /\ y[1] = k /\ y[2] = f /\ \A q \in C : q[1] = k => q = y
      BY <1>2, <1>3, <2>2
    <3> HIDE DEF y, k
    <3> QED
      BY <1>5, <3>1 DEF Bit
  <2> QED
    BY <2>1, <2>2
<1>6. id \in TrueIds <=> bit(id) \in f
  <2>1. TrueIds = TrueOf(i2b)
    BY DEF TrueIds, TrueOf
  <2> QED
    BY <1>1, <1>5, <2>1, TrueAre DEF C, BoolInv
<1>7. AsInt(bit(id) \in f) = AS!Value(id)
  BY <1>6 DEF AsInt, AS!Value
<1> QED
  BY <1>1, <1>4, <1>5, <1>6, <1>7 DEF f, C

(* The field of an id with its bit changed.                                *)
Changed(id, value) == IF value THEN ofield(id) \cup {bit(id)} ELSE ofield(id) \ {bit(id)}

(* Store leaves the content with the new field, and no empty one.          *)
LEMMA StoreIs ==
  ASSUME BoolInv, SomeIdIsFree, NEW id \in Ids, NEW value \in BOOLEAN,
         Changed(id, value) # ofield(id), Store(id, Changed(id, value))
  PROVE  LET k == idm(id)
             f == Changed(id, value)
         IN /\ BoolInv'
            /\ Content(i2b') = {q \in Content(i2b) : q[1] # k}
                                 \cup (IF f = {} THEN {} ELSE {<<k, f>>})
<1> DEFINE k == idm(id)
           f == Changed(id, value)
           s == search(i2b, k)
           C == Content(i2b)
<1>1. /\ Block(Firsts, Fields, i2b) /\ Firsts \subseteq 0 .. IdMod - 1 /\ Firsts # 0 .. IdMod - 1
      /\ k \in Firsts /\ index(id) = s
  BY FirstsAre, FieldIs DEF BoolInv, index
<1>2. f # {} => f \in Fields
  <2>1. id \in Nat
    BY FirstsAre
  <2>2. bit(id) \in 0 .. P - 1
    BY <2>1, BitsAre
  <2>3. ofield(id) \subseteq 0 .. P - 1
    BY FieldIs
  <2> DEFINE o == ofield(id)
             S == 0 .. P - 1
  <2>4. o \cup {bit(id)} \subseteq S /\ o \ {bit(id)} \subseteq S
    <3> HIDE DEF o, S
    <3> QED
      BY <2>2, <2>3 DEF o, S
  <2>5. f \subseteq S
    BY <2>4 DEF Changed
  <2> HIDE DEF f, S
  <2>6. f \in SUBSET S
    BY <2>5
  <2>7. (SUBSET S) \ {{}} = Fields
    BY DEF Fields, S
  <2>8. ASSUME f # {} PROVE f \in (SUBSET S) \ {{}}
    <3>1. f \notin {{}}
      BY <2>8
    <3> QED
      BY <2>6, <3>1, Zenon
  <2> QED
    BY <2>7, <2>8
<1>3. s = 0 => f # {} /\ \A q \in C : q[1] # k
  <2> SUFFICES ASSUME s = 0 PROVE f # {} /\ \A q \in C : q[1] # k
    OBVIOUS
  <2>1. ofield(id) = {}
    BY <1>1 DEF ofield
  <2>2. \A q \in C : q[1] # k
    BY <1>1, ContentIs
  <2> QED
    BY <2>1, <2>2
<1>4. \/ s = 0 /\ i2b' = add(i2b, k, f)
      \/ s # 0 /\ i2b' = IF f = {} THEN drop(i2b, s)
                         ELSE WritePtr(i2b, PtrAddr(upper(i2b), s), f)
  BY <1>1 DEF Store
<1> HIDE DEF k, f
<1>5. CASE s = 0
  <2>1. MayAdd(Firsts, Fields, i2b, k, f)
    BY <1>1, <1>2, <1>3, <1>5 DEF MayAdd
  <2>2. Block(Firsts, Fields, i2b') /\ Content(i2b') = C \cup {<<k, f>>}
    BY <1>4, <1>5, <2>1, AddContent
  <2>3. C = {q \in C : q[1] # k}
    BY <1>3, <1>5
  <2> QED
    BY <1>3, <1>5, <2>2, <2>3 DEF BoolInv, k, f
<1>6. CASE s # 0 /\ f = {}
  <2>1. MayDrop(Firsts, Fields, i2b, k)
    BY <1>1, <1>6 DEF MayDrop
  <2>2. Block(Firsts, Fields, i2b') /\ Content(i2b') = {q \in C : q[1] # k}
    BY <1>4, <1>6, <2>1, DropContent
  <2> QED
    BY <1>6, <2>2 DEF BoolInv, k, f
<1>7. CASE s # 0 /\ f # {}
  <2>1. MaySet(Firsts, Fields, i2b, k, f)
    BY <1>1, <1>2, <1>7 DEF MaySet
  <2>2. /\ Block(Firsts, Fields, i2b')
        /\ Content(i2b') = {q \in C : q[1] # k} \cup {<<k, f>>}
    BY <1>4, <1>7, <2>1, SetContent
  <2> QED
    BY <1>7, <2>2 DEF BoolInv, k, f
<1> QED
  BY <1>5, <1>6, <1>7

(* u16id2bool_set does what it says of the ids whose boolean is one.       *)
LEMMA StoreStep ==
  ASSUME BoolInv, SomeIdIsFree, NEW id \in Ids, NEW value \in BOOLEAN, Store(id, Changed(id, value))
  PROVE  BoolInv' /\ TrueIds' = IF value THEN TrueIds \cup {id} ELSE TrueIds \ {id}
<1> DEFINE k == idm(id)
           o == ofield(id)
           f == Changed(id, value)
           C == Content(i2b)
           D == Content(i2b')
<1>1. /\ id \in Nat /\ k \in Nat /\ bit(id) \in 0 .. P - 1
      /\ \A x \in Nat : idm(x) = k => (Bit(C, x) <=> bit(x) \in o)
      /\ id \in TrueIds <=> bit(id) \in o
  BY FirstsAre, BitsAre, FieldIs
<1>2. f = IF value THEN o \cup {bit(id)} ELSE o \ {bit(id)}
  BY DEF Changed
<1>3. CASE f = o
  <2>1. i2b' = i2b
    BY <1>3 DEF Store
  <2>2. BoolInv' /\ TrueIds' = TrueIds
    BY <2>1 DEF BoolInv, TrueIds
  <2>3. bit(id) \in o <=> value
    BY <1>2, <1>3
  <2> QED
    BY <1>1, <2>2, <2>3
<1>4. CASE f # o
  <2>1. /\ BoolInv'
        /\ D = {q \in C : q[1] # k} \cup (IF f = {} THEN {} ELSE {<<k, f>>})
    BY <1>4, StoreIs
  <2>2. TrueIds = {x \in Nat : Bit(C, x)} /\ TrueIds' = {x \in Nat : Bit(D, x)}
    <3>1. TrueIds = TrueOf(i2b) /\ TrueIds' = TrueOf(i2b')
      BY DEF TrueIds, TrueOf
    <3>2. Block(Firsts, Fields, i2b) /\ Block(Firsts, Fields, i2b')
      BY <2>1 DEF BoolInv
    <3> QED
      BY <3>1, <3>2, TrueAre
  <2> HIDE DEF C, D, f, o
  <2>3. ASSUME NEW x \in Nat PROVE Bit(D, x) <=> IF x = id THEN value ELSE Bit(C, x)
    <3>1. CASE idm(x) # k
      <4>1. x # id
        BY <3>1
      <4>2. Bit(D, x) <=> Bit(C, x)
        <5>1. <<k, f>>[1] = k
          OBVIOUS
        <5> QED
          BY <2>1, <3>1, <5>1 DEF Bit
      <4> QED
        BY <4>1, <4>2
    <3>2. CASE idm(x) = k
      <4>1. x = id <=> bit(x) = bit(id)
        <5>1. idm(x) + bit(x) = x /\ idm(id) + bit(id) = id /\ bit(x) \in 0 .. P - 1
          BY <1>1, BitsAre
        <5> QED
          BY <3>2, <5>1
      <4>2. Bit(D, x) <=> bit(x) \in f
        <5> DEFINE y == <<k, f>>
        <5>1. y[1] = k /\ y[2] = f
          OBVIOUS
        <5>2. D = {q \in C : q[1] # k} \cup (IF f = {} THEN {} ELSE {y})
          BY <2>1
        <5> HIDE DEF y, k
        <5> QED
          BY <3>2, <5>1, <5>2 DEF Bit
      <4>3. Bit(C, x) <=> bit(x) \in o
        BY <1>1, <3>2
      <4> QED
        BY <1>2, <4>1, <4>2, <4>3
    <3> QED
      BY <3>1, <3>2
  <2>4. TrueIds' = IF value THEN TrueIds \cup {id} ELSE TrueIds \ {id}
    BY <1>1, <2>2, <2>3
  <2> QED
    BY <2>1, <2>4
<1> QED
  BY <1>3, <1>4

(* Every step on the block is one on the set.                              *)
LEMMA SetOfStep ==
  ASSUME BoolInv, SomeIdIsFree, NextBool
  PROVE  BoolInv' /\ AS!Next
<1>1. ASSUME NEW m, NEW r, Block(Firsts, Fields, m), upper(m) = 0, ResultBool(m, r)
      PROVE  BoolInv' /\ TrueIds' = {} /\ resb' = r
  <2>1. i2b' = m /\ resb' = r
    BY <1>1 DEF ResultBool
  <2>2. upper(i2b') = 0
    BY <1>1, <2>1
  <2>3. TrueIds' = {}
    BY <2>2 DEF TrueIds
  <2> QED
    BY <1>1, <2>1, <2>3 DEF BoolInv
<1>2. ASSUME NEW r, ResultBool(i2b, r)
      PROVE  BoolInv' /\ TrueIds' = TrueIds /\ resb' = r
  <2>1. i2b' = i2b /\ resb' = r
    BY <1>2 DEF ResultBool
  <2> QED
    BY <2>1 DEF BoolInv, TrueIds
<1>3. CASE u16id2bool_create
  <2>1. TrueIds = {}
    BY <1>3, CreateIs DEF u16id2bool_create, TrueIds
  <2>2. BoolInv' /\ TrueIds' = {} /\ resb' \in {"ok", "ENOMEM"}
    BY <1>1, <1>3, CreateIs DEF u16id2bool_create
  <2>3. AS!Create
    BY <2>1, <2>2 DEF AS!Create
  <2> QED
    BY <2>2, <2>3 DEF AS!Next
<1>4. CASE u16id2bool_destroy \/ u16id2bool_clearall
  <2>1. Block(Firsts, Fields, dropall(i2b)) /\ upper(dropall(i2b)) = 0
    BY DropAllIs DEF BoolInv
  <2>2. BoolInv' /\ TrueIds' = {} /\ resb' = "ok"
    BY <1>1, <1>4, <2>1, CreateIs DEF u16id2bool_destroy, u16id2bool_clearall
  <2>3. AS!ClearAll
    BY <2>2 DEF AS!ClearAll
  <2> QED
    BY <2>2, <2>3 DEF AS!Next
<1>5. ASSUME NEW id \in Ids, u16id2bool_get(id)
      PROVE  BoolInv' /\ AS!Next
  <2>1. BoolInv' /\ TrueIds' = TrueIds /\ resb' = AsInt(bit(id) \in ofield(id))
    BY <1>2, <1>5 DEF u16id2bool_get
  <2>2. resb' = AS!Value(id)
    BY <2>1, FieldIs
  <2>3. AS!Get(id)
    BY <2>1, <2>2 DEF AS!Get
  <2> QED
    BY <2>1, <2>3 DEF AS!Next
<1>6. ASSUME NEW id \in Ids, NEW value \in BOOLEAN, u16id2bool_set(id, value)
      PROVE  BoolInv' /\ AS!Next
  <2> DEFINE f == Changed(id, value)
  <2>1. \/ Store(id, f) /\ resb' = AsInt(bit(id) \in ofield(id))
        \/ /\ f # ofield(id) /\ index(id) = 0 /\ MustGrow(i2b)
           /\ ResultBool(i2b, "ENOMEM")
    BY <1>6, Zenon DEF u16id2bool_set, Changed
  <2>2. CASE Store(id, f) /\ resb' = AsInt(bit(id) \in ofield(id))
    <3>1. BoolInv' /\ TrueIds' = IF value THEN TrueIds \cup {id} ELSE TrueIds \ {id}
      BY <2>2, StoreStep
    <3>2. resb' = AS!Value(id)
      BY <2>2, FieldIs
    <3>3. AS!Set(id, value)
      BY <3>1, <3>2 DEF AS!Set
    <3> QED
      BY <3>1, <3>3 DEF AS!Next
  <2>3. CASE /\ f # ofield(id) /\ index(id) = 0 /\ MustGrow(i2b)
             /\ ResultBool(i2b, "ENOMEM")
    <3>1. BoolInv' /\ TrueIds' = TrueIds /\ resb' = "ENOMEM"
      BY <1>2, <2>3
    <3>2. ofield(id) = {}
      BY <2>3 DEF ofield
    <3>3. value
      BY <2>3, <3>2 DEF Changed
    <3>4. id \notin TrueIds
      BY <3>2, FieldIs
    <3>5. AS!Set(id, value)
      BY <3>1, <3>3, <3>4 DEF AS!Set
    <3> QED
      BY <3>1, <3>5 DEF AS!Next
  <2> HIDE DEF f
  <2> QED
    BY <2>1, <2>2, <2>3
<1> QED
  BY <1>3, <1>4, <1>5, <1>6 DEF NextBool

(* u16id2bool does what IdSet says, and the fields of its block are never  *)
(* empty, within the block and of different ids: the functions of          *)
(* sandbox/u16id.h on booleans, when some id is never used.                *)
THEOREM BoolMapCorrect ==
  ASSUME SomeIdIsFree
  PROVE  SpecBool => ImplementsIdSet /\ []FieldsOK
<1>1. InitBool => BoolInv /\ AS!Init
  <2> SUFFICES ASSUME InitBool PROVE BoolInv /\ AS!Init
    OBVIOUS
  <2>1. BoolInv
    BY CreateIs DEF InitBool, BoolInv
  <2>2. TrueIds = {}
    BY CreateIs DEF InitBool, TrueIds
  <2> QED
    BY <2>1, <2>2 DEF InitBool, AS!Init
<1>2. BoolInv /\ [NextBool]_i2bVars => BoolInv' /\ [AS!Next]_<<TrueIds, resb>>
  <2> SUFFICES ASSUME BoolInv, [NextBool]_i2bVars
               PROVE  BoolInv' /\ [AS!Next]_<<TrueIds, resb>>
    OBVIOUS
  <2>1. CASE NextBool
    BY <2>1, SetOfStep
  <2>2. CASE UNCHANGED i2bVars
    BY <2>2 DEF i2bVars, BoolInv, TrueIds
  <2> QED
    BY <2>1, <2>2
<1>3. BoolInv => FieldsOK
  <2> SUFFICES ASSUME BoolInv PROVE FieldsOK
    OBVIOUS
  <2>1. Block(Firsts, Fields, i2b)
    BY DEF BoolInv
  <2>2. InBlock(i2b) /\ \A i, j \in 1 .. upper(i2b) : id_at(i2b, i) = id_at(i2b, j) => i = j
    BY <2>1 DEF Block, InBlock
  <2>3. \A i \in 1 .. upper(i2b) : /\ id_at(i2b, i) = idm(id_at(i2b, i))
                                   /\ ptr_at(i2b, i) \in Fields
    BY <2>1, FirstsAre DEF Block
  <2> QED
    BY <2>2, <2>3 DEF FieldsOK, Fields
<1> QED
  BY <1>1, <1>2, <1>3, PTL DEF SpecBool, ImplementsIdSet, AS!Spec

-----------------------------------------------------------------------------
(* The maps of sandbox/u16id.c do to a map and to a set what sandbox/u16id.h *)
(* says, and their blocks hold what their upper index says and no id       *)
(* twice, for any grain, size of a pointer and width of an id, when some   *)
(* id is never used.                                                       *)
THEOREM MapsCorrect ==
  ASSUME SomeIdIsFree
  PROVE  Spec /\ SpecBool => MapsAreImplemented
<1>1. Spec => ImplementsIdMap /\ []BlockOK
  BY PtrMapCorrect
<1>2. SpecBool => ImplementsIdSet /\ []FieldsOK
  BY BoolMapCorrect
<1> QED
  BY <1>1, <1>2, PTL DEF MapsAreImplemented
=============================================================================
