----------------------------- MODULE PathProofs -----------------------------
(***************************************************************************)
(* Theorems about the lists of directories of PathSearch.                  *)
(***************************************************************************)
EXTENDS PathSearch, FiniteSetTheorems

-----------------------------------------------------------------------------
(* What is computed along the parents.                                     *)

(* A function defined at each place from its value at the next one, where  *)
(* the places that follow one another have decreasing ranks.               *)
Along(P, Z, up, base, Step, f) ==
  \A n \in P : f[n] = IF n = Z THEN base ELSE Step[<<n, f[up[n]]>>]

(* Such a function exists.                                                 *)
LEMMA AlongExists ==
  ASSUME NEW P, NEW Z \in P, NEW up \in [P -> P], NEW K \in Nat, NEW rank \in [P -> 0 .. K],
         \A n \in P \ {Z} : rank[up[n]] < rank[n],
         NEW V, NEW base \in V, NEW Step \in [P \X V -> V]
  PROVE  \E f \in [P -> V] : Along(P, Z, up, base, Step, f)
<1> DEFINE Upto(f, k) == \A n \in P : rank[n] < k => f[n] = IF n = Z THEN base ELSE Step[<<n, f[up[n]]>>]
           S == {k \in 0 .. K + 1 : \E f \in [P -> V] : Upto(f, k)}
<1>1. 0 \in S
  <2> DEFINE f == [n \in P |-> base]
  <2>1. f \in [P -> V] /\ Upto(f, 0)
    OBVIOUS
  <2> HIDE DEF f, Upto
  <2> QED
    BY <2>1
<1>2. ASSUME NEW k \in 1 .. K + 1, k - 1 \in S PROVE k \in S
  <2>1. PICK f \in [P -> V] : Upto(f, k - 1)
    BY <1>2
  <2> DEFINE g == [n \in P |-> IF n = Z THEN base ELSE Step[<<n, f[up[n]]>>]]
  <2>2. g \in [P -> V]
    OBVIOUS
  <2>3. ASSUME NEW n \in P, rank[n] < k PROVE g[n] = IF n = Z THEN base ELSE Step[<<n, g[up[n]]>>]
    <3>1. CASE n = Z
      BY <3>1
    <3>2. CASE n # Z
      <4>1. up[n] \in P /\ rank[up[n]] < k - 1
        BY <2>3, <3>2
      <4>2. f[up[n]] = g[up[n]]
        BY <2>1, <4>1
      <4> QED
        BY <3>2, <4>2
    <3> QED
      BY <3>1, <3>2
  <2>4. Upto(g, k)
    <3> HIDE DEF g
    <3> QED
      BY <2>3
  <2> HIDE DEF g, Upto
  <2> QED
    BY <2>2, <2>4
<1>3. 0 .. K + 1 \subseteq S
  <2>1. K + 1 \in Nat
    OBVIOUS
  <2>2. \A k \in 1 .. K + 1 : k - 1 \in S => k \in S
    BY <1>2
  <2> HIDE DEF S
  <2> QED
    BY <1>1, <2>1, <2>2, UpTo
<1>4. PICK f \in [P -> V] : Upto(f, K + 1)
  <2>1. K + 1 \in 0 .. K + 1
    OBVIOUS
  <2>2. K + 1 \in S
    BY <1>3, <2>1
  <2> QED
    BY <2>2
<1>5. Along(P, Z, up, base, Step, f)
  BY <1>4 DEF Along
<1> QED
  BY <1>5

(* What is true of the last place, and of each place when it is of the     *)
(* next one, is true of all.                                               *)
LEMMA AlongInduction ==
  ASSUME NEW P, NEW Z \in P, NEW up \in [P -> P], NEW K \in Nat, NEW rank \in [P -> 0 .. K],
         \A n \in P \ {Z} : rank[up[n]] < rank[n],
         NEW G, Z \in G, \A n \in P \ {Z} : up[n] \in G => n \in G
  PROVE  P \subseteq G
<1> DEFINE S == {k \in 0 .. K + 1 : \A n \in P : rank[n] < k => n \in G}
<1>1. 0 \in S
  OBVIOUS
<1>2. ASSUME NEW k \in 1 .. K + 1, k - 1 \in S PROVE k \in S
  <2>1. ASSUME NEW n \in P, rank[n] < k PROVE n \in G
    <3>1. CASE n = Z
      BY <3>1
    <3>2. CASE n # Z
      <4>1. up[n] \in P /\ rank[up[n]] < k - 1
        BY <2>1, <3>2
      <4> QED
        BY <1>2, <3>2, <4>1
    <3> QED
      BY <3>1, <3>2
  <2> QED
    BY <2>1
<1>3. 0 .. K + 1 \subseteq S
  <2>1. K + 1 \in Nat
    OBVIOUS
  <2>2. \A k \in 1 .. K + 1 : k - 1 \in S => k \in S
    BY <1>2
  <2> HIDE DEF S
  <2> QED
    BY <1>1, <2>1, <2>2, UpTo
<1>4. K + 1 \in S
  BY <1>3
<1> QED
  BY <1>4
-----------------------------------------------------------------------------
(* The memory of the nodes.                                                *)

NodeRec == [dir : Dirs \cup {Empty}, before : BOOLEAN, parent : Pointer, refcount : 0 .. RefMod - 1]

(* The parents have decreasing ranks, so there is no cycle.                *)
Ranked(nd, K, rank) ==
  /\ K \in Nat /\ rank \in [Pointer -> 0 .. K]
  /\ \A n \in Nodes : rank[Null] < rank[n] /\ rank[nd[n].parent] < rank[n]

Acyclic(nd) == nd \in [Nodes -> NodeRec] /\ \E K, rank : Ranked(nd, K, rank)

Up(nd) == [n \in Pointer |-> IF n = Null THEN Null ELSE nd[n].parent]

(* The parents of an acyclic memory are places as above.                   *)
LEMMA UpIs ==
  ASSUME NEW nd, Acyclic(nd)
  PROVE  /\ Null \in Pointer /\ Null \notin Nodes /\ Up(nd) \in [Pointer -> Pointer]
         /\ \A n \in Nodes : Up(nd)[n] = nd[n].parent
         /\ \E K \in Nat : \E rank \in [Pointer -> 0 .. K] :
              \A n \in Pointer \ {Null} : rank[Up(nd)[n]] < rank[n]
<1>1. Null \in Pointer /\ Null \notin Nodes /\ nd \in [Nodes -> NodeRec]
  BY PathSearchAssumption DEF Pointer, Acyclic
<1>2. \A n \in Nodes : nd[n].parent \in Pointer
  BY <1>1 DEF NodeRec
<1>3. Up(nd) \in [Pointer -> Pointer] /\ \A n \in Nodes : n \in Pointer /\ Up(nd)[n] = nd[n].parent
  BY <1>1, <1>2 DEF Up, Pointer
<1>4. PICK K, rank : Ranked(nd, K, rank)
  BY DEF Acyclic
<1>5. \A n \in Pointer \ {Null} : rank[Up(nd)[n]] < rank[n]
  BY <1>1, <1>3, <1>4 DEF Ranked, Pointer
<1> QED
  BY <1>1, <1>3, <1>4, <1>5 DEF Ranked

(* What is true of Null, and of each node when it is of its parent, is     *)
(* true of all.                                                            *)
LEMMA NodeInduction ==
  ASSUME NEW nd, Acyclic(nd), NEW G, Null \in G, \A n \in Nodes : nd[n].parent \in G => n \in G
  PROVE  Pointer \subseteq G
<1>1. PICK K \in Nat : \E rank \in [Pointer -> 0 .. K] :
              \A n \in Pointer \ {Null} : rank[Up(nd)[n]] < rank[n]
  BY UpIs
<1>2. PICK rank \in [Pointer -> 0 .. K] :
              \A n \in Pointer \ {Null} : rank[Up(nd)[n]] < rank[n]
  BY <1>1
<1>3. Null \in Pointer /\ Up(nd) \in [Pointer -> Pointer]
  BY UpIs
<1>4. \A n \in Pointer \ {Null} : Up(nd)[n] \in G => n \in G
  BY UpIs DEF Pointer
<1> QED
  BY <1>2, <1>3, <1>4, AlongInduction

(* The chain of a list is its head, then the chain of the parent.          *)
LEMMA ChainIs ==
  ASSUME NEW nd, Acyclic(nd)
  PROVE  /\ Chain(nd, Null) = << >>
         /\ \A n \in Pointer : Chain(nd, n) \in Seq(Nodes)
         /\ \A n \in Nodes : Chain(nd, n) = <<n>> \o Chain(nd, nd[n].parent)
<1> DEFINE F == CHOOSE f : f = [n \in Pointer |-> IF n = Null THEN << >> ELSE <<n>> \o f[nd[n].parent]]
           Step == [p \in Pointer \X Seq(Nodes) |-> IF p[1] = Null THEN << >> ELSE <<p[1]>> \o p[2]]
<1>1. Null \in Pointer /\ Null \notin Nodes /\ Up(nd) \in [Pointer -> Pointer]
      /\ \A n \in Nodes : Up(nd)[n] = nd[n].parent
  BY UpIs
<1>2. Step \in [Pointer \X Seq(Nodes) -> Seq(Nodes)] /\ << >> \in Seq(Nodes)
  BY DEF Pointer
<1>3. \E f \in [Pointer -> Seq(Nodes)] : Along(Pointer, Null, Up(nd), << >>, Step, f)
  <2>1. PICK K \in Nat : \E rank \in [Pointer -> 0 .. K] :
              \A n \in Pointer \ {Null} : rank[Up(nd)[n]] < rank[n]
    BY UpIs
  <2>2. PICK rank \in [Pointer -> 0 .. K] :
              \A n \in Pointer \ {Null} : rank[Up(nd)[n]] < rank[n]
    BY <2>1
  <2> HIDE DEF Step
  <2> QED
    BY <1>1, <1>2, <2>2, AlongExists
<1>4. PICK f \in [Pointer -> Seq(Nodes)] : Along(Pointer, Null, Up(nd), << >>, Step, f)
  BY <1>3
<1>5. \A n \in Nodes : /\ n \in Pointer /\ n # Null /\ nd[n].parent \in Pointer
                       /\ f[n] = <<n>> \o f[nd[n].parent]
  <2> SUFFICES ASSUME NEW n \in Nodes
               PROVE  /\ n \in Pointer /\ n # Null /\ nd[n].parent \in Pointer
                      /\ f[n] = <<n>> \o f[nd[n].parent]
    OBVIOUS
  <2>1. n \in Pointer /\ n # Null /\ Up(nd)[n] = nd[n].parent /\ nd[n].parent \in Pointer
    BY <1>1 DEF Pointer
  <2>2. f[n] = Step[<<n, f[nd[n].parent]>>]
    <3> HIDE DEF Step
    <3>1. f[n] = IF n = Null THEN << >> ELSE Step[<<n, f[Up(nd)[n]]>>]
      BY <1>4, <2>1, Zenon DEF Along
    <3> QED
      BY <2>1, <3>1
  <2> QED
    BY <2>1, <2>2
<1>6. f[Null] = << >>
  BY <1>1, <1>4 DEF Along
<1>7. f = [n \in Pointer |-> IF n = Null THEN << >> ELSE <<n>> \o f[nd[n].parent]]
  <2>1. \A n \in Pointer : f[n] = IF n = Null THEN << >> ELSE <<n>> \o f[nd[n].parent]
    BY <1>5, <1>6 DEF Pointer
  <2> QED
    BY <2>1
<1>8. F = [n \in Pointer |-> IF n = Null THEN << >> ELSE <<n>> \o F[nd[n].parent]]
  BY <1>7
<1>9. \A n \in Pointer : F[n] = IF n = Null THEN << >> ELSE <<n>> \o F[nd[n].parent]
  <2> HIDE DEF F
  <2> QED
    BY <1>8
<1>10. \A n : Chain(nd, n) = F[n]
  BY DEF Chain
<1>11. \A n \in Nodes : nd[n].parent \in Pointer /\ n # Null /\ n \in Pointer
  BY <1>5
<1> HIDE DEF F
<1>12. Pointer \subseteq {n \in Pointer : F[n] \in Seq(Nodes)}
  <2>1. ASSUME NEW n \in Nodes, F[nd[n].parent] \in Seq(Nodes) PROVE F[n] \in Seq(Nodes)
    <3>1. F[n] = <<n>> \o F[nd[n].parent]
      BY <1>9, <1>11, Zenon
    <3>2. <<n>> \in Seq(Nodes)
      OBVIOUS
    <3> QED
      BY <2>1, <3>1, <3>2, ConcatIs
  <2> DEFINE G == {n \in Pointer : F[n] \in Seq(Nodes)}
  <2>2. Null \in G
    <3>1. F[Null] = << >>
      BY <1>1, <1>9, Zenon
    <3>2. << >> \in Seq(Nodes)
      OBVIOUS
    <3> QED
      BY <1>1, <3>1, <3>2
  <2>3. \A n \in Nodes : nd[n].parent \in G => n \in G
    BY <1>11, <2>1
  <2> HIDE DEF G
  <2>4. Pointer \subseteq G
    BY <2>2, <2>3, NodeInduction
  <2> QED
    BY <2>4 DEF G
<1> QED
  BY <1>1, <1>9, <1>10, <1>11, <1>12
(* The directories of the list that begins at a node of a memory.          *)
ListedIn(nd, head) ==
  LET List[n \in Pointer] ==
        IF n = Null THEN << >>
        ELSE IF nd[n].before THEN <<nd[n].dir>> \o List[nd[n].parent]
        ELSE Append(List[nd[n].parent], nd[n].dir)
  IN List[head]

Names == Dirs \cup {Empty}

(* It is made of the directory of the node and of the list of its parent.  *)
LEMMA ListedInIs ==
  ASSUME NEW nd, Acyclic(nd)
  PROVE  /\ ListedIn(nd, Null) = << >>
         /\ \A n \in Pointer : ListedIn(nd, n) \in Seq(Names)
         /\ \A n \in Nodes : ListedIn(nd, n) =
              IF nd[n].before THEN <<nd[n].dir>> \o ListedIn(nd, nd[n].parent)
              ELSE Append(ListedIn(nd, nd[n].parent), nd[n].dir)
<1> DEFINE Body(f, n) == IF n = Null THEN << >>
                         ELSE IF nd[n].before THEN <<nd[n].dir>> \o f[nd[n].parent]
                         ELSE Append(f[nd[n].parent], nd[n].dir)
           F == CHOOSE f : f = [n \in Pointer |-> Body(f, n)]
           Step == [p \in Pointer \X Seq(Names) |->
                      IF p[1] = Null THEN << >>
                      ELSE IF nd[p[1]].before THEN <<nd[p[1]].dir>> \o p[2]
                      ELSE Append(p[2], nd[p[1]].dir)]
<1>1. Null \in Pointer /\ Null \notin Nodes /\ Up(nd) \in [Pointer -> Pointer]
      /\ \A n \in Nodes : Up(nd)[n] = nd[n].parent
  BY UpIs
<1>2. \A n \in Nodes : nd[n].dir \in Names
  BY DEF Acyclic, NodeRec, Names
<1>3. Step \in [Pointer \X Seq(Names) -> Seq(Names)] /\ << >> \in Seq(Names)
  <2>1. ASSUME NEW n \in Pointer, NEW v \in Seq(Names)
        PROVE  (IF n = Null THEN << >> ELSE IF nd[n].before THEN <<nd[n].dir>> \o v
                ELSE Append(v, nd[n].dir)) \in Seq(Names)
    <3>1. CASE n = Null
      BY <3>1
    <3>2. CASE n # Null
      <4>1. nd[n].dir \in Names
        BY <1>2, <3>2 DEF Pointer
      <4>2. <<nd[n].dir>> \o v \in Seq(Names) /\ Append(v, nd[n].dir) \in Seq(Names)
        BY <4>1
      <4> QED
        BY <3>2, <4>2
    <3> QED
      BY <3>1, <3>2
  <2> QED
    BY <2>1
<1>4. \E f \in [Pointer -> Seq(Names)] : Along(Pointer, Null, Up(nd), << >>, Step, f)
  <2>1. PICK K \in Nat : \E rank \in [Pointer -> 0 .. K] :
              \A n \in Pointer \ {Null} : rank[Up(nd)[n]] < rank[n]
    BY UpIs
  <2>2. PICK rank \in [Pointer -> 0 .. K] :
              \A n \in Pointer \ {Null} : rank[Up(nd)[n]] < rank[n]
    BY <2>1
  <2> HIDE DEF Step
  <2> QED
    BY <1>1, <1>3, <2>2, AlongExists
<1>5. PICK f \in [Pointer -> Seq(Names)] : Along(Pointer, Null, Up(nd), << >>, Step, f)
  BY <1>4
<1>6. f = [n \in Pointer |-> Body(f, n)]
  <2>1. ASSUME NEW n \in Pointer PROVE f[n] = Body(f, n)
    <3>1. CASE n = Null
      BY <1>5, <3>1 DEF Along
    <3>2. CASE n # Null
      <4>1. n \in Nodes /\ Up(nd)[n] = nd[n].parent /\ nd[n].parent \in Pointer
        BY <1>1, <3>2 DEF Pointer
      <4>2. f[n] = Step[<<n, f[nd[n].parent]>>]
        BY <1>5, <3>2, <4>1 DEF Along
      <4>3. f[nd[n].parent] \in Seq(Names)
        BY <4>1
      <4>4. Step[<<n, f[nd[n].parent]>>] = Body(f, n)
        BY <3>2, <4>1, <4>3
      <4> QED
        BY <4>2, <4>4, Zenon
    <3> QED
      BY <3>1, <3>2
  <2> HIDE DEF Body
  <2> QED
    BY <2>1
<1>7. F = [n \in Pointer |-> Body(F, n)]
  BY <1>6, Zenon
<1>8. \A n \in Pointer : F[n] = Body(F, n)
  <2> HIDE DEF F, Body
  <2> QED
    BY <1>7
<1>9. \A n : ListedIn(nd, n) = F[n]
  BY DEF ListedIn
<1>10. \A n \in Nodes : nd[n].parent \in Pointer /\ n # Null /\ n \in Pointer
  BY <1>1 DEF Pointer
<1> HIDE DEF F
<1>11. \A n \in Nodes : F[n] = IF nd[n].before THEN <<nd[n].dir>> \o F[nd[n].parent]
                               ELSE Append(F[nd[n].parent], nd[n].dir)
  BY <1>8, <1>10, Zenon
<1>12. F[Null] = << >>
  BY <1>1, <1>8, Zenon
<1>13. Pointer \subseteq {n \in Pointer : F[n] \in Seq(Names)}
  <2>1. ASSUME NEW n \in Nodes, F[nd[n].parent] \in Seq(Names) PROVE F[n] \in Seq(Names)
    <3>1. F[n] = IF nd[n].before THEN <<nd[n].dir>> \o F[nd[n].parent]
                 ELSE Append(F[nd[n].parent], nd[n].dir)
      BY <1>11
    <3>2. nd[n].dir \in Names
      BY <1>2
    <3> DEFINE v == F[nd[n].parent]
    <3> HIDE DEF v
    <3>3. v \in Seq(Names) /\ F[n] = IF nd[n].before THEN <<nd[n].dir>> \o v ELSE Append(v, nd[n].dir)
      BY <2>1, <3>1 DEF v
    <3>4. <<nd[n].dir>> \o v \in Seq(Names) /\ Append(v, nd[n].dir) \in Seq(Names)
      BY <3>2, <3>3
    <3> QED
      BY <3>3, <3>4, Zenon
  <2> DEFINE G == {n \in Pointer : F[n] \in Seq(Names)}
  <2>2. Null \in G
    <3>1. << >> \in Seq(Names)
      OBVIOUS
    <3> QED
      BY <1>1, <1>12, <3>1
  <2>3. \A n \in Nodes : nd[n].parent \in G => n \in G
    BY <1>10, <2>1
  <2> HIDE DEF G
  <2>4. Pointer \subseteq G
    BY <2>2, <2>3, NodeInduction
  <2> QED
    BY <2>4 DEF G
<1> QED
  BY <1>9, <1>11, <1>12, <1>13
(* A chain of a memory: each node is followed by its parent, and none      *)
(* comes back.                                                             *)
IsChain(nd, n, c) ==
  /\ c \in Seq(Nodes)
  /\ n = Null <=> c = << >>
  /\ n # Null => c # << >> /\ c[1] = n
  /\ \A k \in 1 .. Len(c) : nd[c[k]].parent = IF k = Len(c) THEN Null ELSE c[k + 1]
  /\ \A j, k \in 1 .. Len(c) : j < k => c[j] # c[k]

LEMMA ChainIsChain ==
  ASSUME NEW nd, Acyclic(nd)
  PROVE  \A n \in Pointer : IsChain(nd, n, Chain(nd, n))
<1>1. PICK K, rank : Ranked(nd, K, rank)
  BY DEF Acyclic
<1> DEFINE C(n) == Chain(nd, n)
           Falls(c) == \A j, k \in 1 .. Len(c) : j < k => rank[c[k]] < rank[c[j]]
           G == {n \in Pointer : IsChain(nd, n, C(n)) /\ Falls(C(n))}
<1>2. Null \in Pointer /\ Null \notin Nodes /\ \A n \in Nodes : nd[n].parent \in Pointer
  <2>1. \A n \in Nodes : nd[n].parent = Up(nd)[n] /\ n \in Pointer
    BY UpIs DEF Pointer
  <2> QED
    BY <2>1, UpIs
<1>3. Null \in G
  <2>1. C(Null) = << >>
    BY ChainIs
  <2>2. IsChain(nd, Null, << >>) /\ Falls(<< >>)
    BY DEF IsChain
  <2> QED
    BY <1>2, <2>1, <2>2
<1>4. ASSUME NEW n \in Nodes, nd[n].parent \in G PROVE n \in G
  <2> DEFINE p == nd[n].parent
             d == C(p)
             c == C(n)
  <2>1. c = <<n>> \o d /\ d \in Seq(Nodes) /\ <<n>> \in Seq(Nodes)
    BY <1>2, ChainIs
  <2>2. /\ p = Null <=> d = << >>
        /\ p # Null => d # << >> /\ d[1] = p
        /\ \A k \in 1 .. Len(d) : nd[d[k]].parent = IF k = Len(d) THEN Null ELSE d[k + 1]
        /\ Falls(d)
    BY <1>4 DEF IsChain
  <2>3. rank[p] < rank[n] /\ rank \in [Pointer -> 0 .. K] /\ K \in Nat /\ p \in Pointer /\ n \in Pointer
    BY <1>1, <1>2 DEF Ranked, Pointer
  <2> HIDE DEF c, d, p, C
  <2>4. /\ Len(c) = Len(d) + 1 /\ c[1] = n /\ Len(d) \in Nat /\ c \in Seq(Nodes)
        /\ \A k \in 2 .. Len(c) : c[k] = d[k - 1] /\ k - 1 \in 1 .. Len(d)
    BY <2>1
  <2>5. \A k \in 1 .. Len(c) : nd[c[k]].parent = IF k = Len(c) THEN Null ELSE c[k + 1]
    <3> SUFFICES ASSUME NEW k \in 1 .. Len(c)
                 PROVE  nd[c[k]].parent = IF k = Len(c) THEN Null ELSE c[k + 1]
      OBVIOUS
    <3>1. CASE k = 1
      <4>1. nd[c[1]].parent = p
        BY <2>4 DEF p
      <4>2. CASE d = << >>
        BY <2>2, <2>4, <3>1, <4>1, <4>2
      <4>3. CASE d # << >>
        <5>1. Len(d) >= 1
          BY <2>1, <4>3
        <5>2. c[2] = d[1] /\ p = d[1]
          BY <2>2, <2>4, <4>3, <5>1
        <5> QED
          BY <2>4, <3>1, <4>1, <5>1, <5>2
      <4> QED
        BY <4>2, <4>3
    <3>2. CASE k # 1
      <4>1. k \in 2 .. Len(c) /\ c[k] = d[k - 1] /\ k - 1 \in 1 .. Len(d)
        BY <2>4, <3>2
      <4>2. nd[d[k - 1]].parent = IF k - 1 = Len(d) THEN Null ELSE d[k]
        BY <2>2, <4>1
      <4>3. k # Len(c) => c[k + 1] = d[k]
        BY <2>4, <4>1
      <4> QED
        BY <2>4, <4>1, <4>2, <4>3
    <3> QED
      BY <3>1, <3>2
  <2>6. \A k \in 1 .. Len(d) : rank[d[k]] < rank[n]
    <3> SUFFICES ASSUME NEW k \in 1 .. Len(d) PROVE rank[d[k]] < rank[n]
      OBVIOUS
    <3>1. d # << >> /\ d[1] = p /\ 1 \in 1 .. Len(d)
      BY <2>1, <2>2
    <3>2. k = 1 \/ rank[d[k]] < rank[d[1]]
      BY <2>2, <3>1
    <3>3. d[k] \in Pointer
      BY <2>1 DEF Pointer
    <3> QED
      BY <2>3, <3>1, <3>2, <3>3
  <2>7. Falls(c)
    <3> SUFFICES ASSUME NEW j \in 1 .. Len(c), NEW k \in 1 .. Len(c), j < k
                 PROVE  rank[c[k]] < rank[c[j]]
      OBVIOUS
    <3>1. k \in 2 .. Len(c) /\ c[k] = d[k - 1] /\ k - 1 \in 1 .. Len(d)
      BY <2>4
    <3>2. CASE j = 1
      BY <2>4, <2>6, <3>1, <3>2
    <3>3. CASE j # 1
      <4>1. c[j] = d[j - 1] /\ j - 1 \in 1 .. Len(d) /\ j - 1 < k - 1
        BY <2>4, <3>3
      <4> QED
        BY <2>2, <3>1, <4>1
    <3> QED
      BY <3>2, <3>3
  <2>8. \A j, k \in 1 .. Len(c) : j < k => c[j] # c[k]
    <3>1. \A k \in 1 .. Len(c) : c[k] \in Pointer /\ rank[c[k]] \in Nat
      BY <2>3, <2>4 DEF Pointer
    <3> QED
      BY <2>7, <3>1
  <2>9. IsChain(nd, n, c)
    <3>1. n # Null /\ c # << >>
      BY <1>2, <2>4
    <3> QED
      BY <2>4, <2>5, <2>8, <3>1 DEF IsChain
  <2> HIDE DEF Falls
  <2> QED
    BY <2>3, <2>7, <2>9 DEF c
<1>5. Pointer \subseteq G
  <2> HIDE DEF G
  <2> QED
    BY <1>3, <1>4, NodeInduction
<1> QED
  BY <1>5
-----------------------------------------------------------------------------
(* What does not change.                                                   *)

(* A set of nodes with their parents, that two memories have in common but *)
(* for the counts.                                                         *)
Common(nd, other, D) ==
  /\ D \subseteq Nodes
  /\ \A n \in D : /\ nd[n].parent \in D \cup {Null}
                  /\ other[n].parent = nd[n].parent
                  /\ other[n].dir = nd[n].dir /\ other[n].before = nd[n].before

(* The lists of common nodes are the same.                                 *)
LEMMA CommonLists ==
  ASSUME NEW nd, NEW other, Acyclic(nd), Acyclic(other), NEW D, Common(nd, other, D)
  PROVE  \A n \in D \cup {Null} : /\ Chain(other, n) = Chain(nd, n)
                                  /\ ListedIn(other, n) = ListedIn(nd, n)
<1> DEFINE G == {n \in Pointer : n \in D \cup {Null} => /\ Chain(other, n) = Chain(nd, n)
                                                        /\ ListedIn(other, n) = ListedIn(nd, n)}
<1>1. Null \in Pointer /\ D \subseteq Nodes /\ D \cup {Null} \subseteq Pointer
  BY DEF Common, Pointer
<1>2. Null \in G
  BY <1>1, ChainIs, ListedInIs
<1>3. ASSUME NEW n \in Nodes, nd[n].parent \in G PROVE n \in G
  <2> SUFFICES ASSUME n \in D
               PROVE  Chain(other, n) = Chain(nd, n) /\ ListedIn(other, n) = ListedIn(nd, n)
    BY PathSearchAssumption DEF Pointer
  <2>1. nd[n].parent \in D \cup {Null} /\ other[n].parent = nd[n].parent
        /\ other[n].dir = nd[n].dir /\ other[n].before = nd[n].before
    BY DEF Common
  <2>2. /\ Chain(other, nd[n].parent) = Chain(nd, nd[n].parent)
        /\ ListedIn(other, nd[n].parent) = ListedIn(nd, nd[n].parent)
    BY <1>3, <2>1
  <2>3. Chain(other, n) = <<n>> \o Chain(other, nd[n].parent)
    BY <2>1, ChainIs
  <2>4. Chain(nd, n) = <<n>> \o Chain(nd, nd[n].parent)
    BY ChainIs
  <2>5. ListedIn(nd, n) = IF nd[n].before THEN <<nd[n].dir>> \o ListedIn(nd, nd[n].parent)
                          ELSE Append(ListedIn(nd, nd[n].parent), nd[n].dir)
    BY ListedInIs
  <2>6. ListedIn(other, n) = IF nd[n].before THEN <<nd[n].dir>> \o ListedIn(other, nd[n].parent)
                             ELSE Append(ListedIn(other, nd[n].parent), nd[n].dir)
    <3>1. ListedIn(other, n) = IF other[n].before THEN <<other[n].dir>> \o ListedIn(other, other[n].parent)
                               ELSE Append(ListedIn(other, other[n].parent), other[n].dir)
      BY ListedInIs
    <3> QED
      BY <2>1, <3>1, Zenon
  <2> QED
    BY <2>2, <2>3, <2>4, <2>5, <2>6, Zenon
<1>4. Pointer \subseteq G
  <2> HIDE DEF G
  <2> QED
    BY <1>2, <1>3, NodeInduction
<1> QED
  BY <1>1, <1>4

(* The chain of a node of a set closed by parents stays in it.             *)
LEMMA ChainStays ==
  ASSUME NEW nd, Acyclic(nd), NEW D, D \subseteq Nodes, \A n \in D : nd[n].parent \in D \cup {Null},
         NEW h \in D \cup {Null}
  PROVE  \A k \in 1 .. Len(Chain(nd, h)) : Chain(nd, h)[k] \in D
<1> DEFINE G == {n \in Pointer : n \in D \cup {Null} =>
                   \A k \in 1 .. Len(Chain(nd, n)) : Chain(nd, n)[k] \in D}
<1>1. Null \in Pointer /\ D \cup {Null} \subseteq Pointer
  BY DEF Pointer
<1>2. Null \in G
  <2>1. Chain(nd, Null) = << >> /\ 1 .. Len(<< >>) = {}
    BY ChainIs
  <2> QED
    BY <1>1, <2>1
<1>3. ASSUME NEW n \in Nodes, nd[n].parent \in G PROVE n \in G
  <2> SUFFICES ASSUME n \in D, NEW k \in 1 .. Len(Chain(nd, n)) PROVE Chain(nd, n)[k] \in D
    BY PathSearchAssumption DEF Pointer
  <2>1. nd[n].parent \in D \cup {Null}
    OBVIOUS
  <2> DEFINE d == Chain(nd, nd[n].parent)
  <2>2. \A j \in 1 .. Len(d) : d[j] \in D
    BY <1>3, <2>1
  <2>3. Chain(nd, n) = <<n>> \o d
    BY ChainIs
  <2>4. d \in Seq(Nodes)
    <3>1. nd[n].parent \in Pointer
      BY <1>3
    <3> QED
      BY <3>1, ChainIs
  <2> HIDE DEF d
  <2> QED
    BY <2>2, <2>3, <2>4
<1>4. Pointer \subseteq G
  <2> HIDE DEF G
  <2> QED
    BY <1>2, <1>3, NodeInduction
<1> QED
  BY <1>1, <1>4

(* One more element.                                                       *)
LEMMA ToSetMore ==
  ASSUME NEW S, NEW l \in Seq(S), NEW x \in S
  PROVE  ToSet(<<x>> \o l) = {x} \cup ToSet(l) /\ ToSet(Append(l, x)) = {x} \cup ToSet(l)
<1>1. /\ Len(<<x>> \o l) = Len(l) + 1 /\ (<<x>> \o l)[1] = x
      /\ \A k \in 2 .. Len(l) + 1 : (<<x>> \o l)[k] = l[k - 1]
  OBVIOUS
<1>2. /\ Len(Append(l, x)) = Len(l) + 1 /\ Append(l, x)[Len(l) + 1] = x
      /\ \A k \in 1 .. Len(l) : Append(l, x)[k] = l[k]
  OBVIOUS
<1>3. /\ DOMAIN l = 1 .. Len(l) /\ DOMAIN (<<x>> \o l) = 1 .. Len(l) + 1
      /\ DOMAIN Append(l, x) = 1 .. Len(l) + 1 /\ Len(l) \in Nat
  OBVIOUS
<1>4. ASSUME NEW y PROVE y \in ToSet(<<x>> \o l) <=> y \in {x} \cup ToSet(l)
  <2>1. y \in ToSet(<<x>> \o l) => y \in {x} \cup ToSet(l)
    BY <1>1, <1>3 DEF ToSet
  <2>2. x \in ToSet(<<x>> \o l)
    <3>1. 1 \in DOMAIN (<<x>> \o l)
      BY <1>3
    <3> QED
      BY <1>1, <3>1 DEF ToSet
  <2>3. ASSUME NEW k \in DOMAIN l PROVE l[k] \in ToSet(<<x>> \o l)
    <3>1. k + 1 \in DOMAIN (<<x>> \o l) /\ k + 1 \in 2 .. Len(l) + 1 /\ k + 1 - 1 = k
      BY <1>3
    <3>2. (<<x>> \o l)[k + 1] = l[k]
      BY <1>1, <3>1
    <3> QED
      BY <3>1, <3>2 DEF ToSet
  <2> QED
    BY <2>1, <2>2, <2>3 DEF ToSet
<1>5. ASSUME NEW y PROVE y \in ToSet(Append(l, x)) <=> y \in {x} \cup ToSet(l)
  <2>1. y \in ToSet(Append(l, x)) => y \in {x} \cup ToSet(l)
    BY <1>2, <1>3 DEF ToSet
  <2>2. x \in ToSet(Append(l, x))
    <3>1. Len(l) + 1 \in DOMAIN Append(l, x)
      BY <1>3
    <3> QED
      BY <1>2, <3>1 DEF ToSet
  <2>3. ASSUME NEW k \in DOMAIN l PROVE l[k] \in ToSet(Append(l, x))
    <3>1. k \in DOMAIN Append(l, x)
      BY <1>3
    <3> QED
      BY <1>2, <1>3, <3>1 DEF ToSet
  <2> QED
    BY <2>1, <2>2, <2>3 DEF ToSet
<1> QED
  BY <1>4, <1>5

(* The directories of a list are those of its nodes.                       *)
LEMMA ListedHas ==
  ASSUME NEW nd, Acyclic(nd), NEW h \in Pointer
  PROVE  ToSet(ListedIn(nd, h)) = {nd[Chain(nd, h)[k]].dir : k \in 1 .. Len(Chain(nd, h))}
<1> DEFINE Of(c) == {nd[c[k]].dir : k \in 1 .. Len(c)}
           G == {n \in Pointer : ToSet(ListedIn(nd, n)) = Of(Chain(nd, n))}
<1>1. Null \in G
  <2>1. Chain(nd, Null) = << >> /\ ListedIn(nd, Null) = << >> /\ Null \in Pointer
    BY ChainIs, ListedInIs DEF Pointer
  <2>2. ToSet(<< >>) = {} /\ Of(<< >>) = {}
    BY DEF ToSet
  <2> QED
    BY <2>1, <2>2
<1>2. ASSUME NEW n \in Nodes, nd[n].parent \in G PROVE n \in G
  <2> DEFINE d == Chain(nd, nd[n].parent)
             l == ListedIn(nd, nd[n].parent)
             x == nd[n].dir
  <2>1. nd[n].parent \in Pointer /\ n \in Pointer /\ x \in Names
    BY <1>2 DEF Pointer, Acyclic, NodeRec, Names
  <2>2. d \in Seq(Nodes) /\ l \in Seq(Names)
    BY <2>1, ChainIs, ListedInIs
  <2>3. ToSet(l) = Of(d)
    BY <1>2
  <2>4. Chain(nd, n) = <<n>> \o d
    BY ChainIs
  <2>5. ListedIn(nd, n) = IF nd[n].before THEN <<x>> \o l ELSE Append(l, x)
    BY ListedInIs
  <2> HIDE DEF d, l, x
  <2>6. ToSet(<<x>> \o l) = {x} \cup ToSet(l) /\ ToSet(Append(l, x)) = {x} \cup ToSet(l)
    BY <2>1, <2>2, ToSetMore DEF x
  <2>7. Of(<<n>> \o d) = {x} \cup Of(d)
    <3>1. /\ Len(<<n>> \o d) = Len(d) + 1 /\ (<<n>> \o d)[1] = n /\ Len(d) \in Nat
          /\ \A k \in 2 .. Len(d) + 1 : (<<n>> \o d)[k] = d[k - 1]
      BY <2>2
    <3>2. ASSUME NEW k \in 1 .. Len(d) PROVE nd[d[k]].dir \in Of(<<n>> \o d)
      <4>1. k + 1 \in 1 .. Len(<<n>> \o d) /\ k + 1 \in 2 .. Len(d) + 1 /\ k + 1 - 1 = k
        BY <3>1
      <4>2. (<<n>> \o d)[k + 1] = d[k]
        BY <3>1, <4>1
      <4> QED
        BY <4>1, <4>2
    <3>3. x \in Of(<<n>> \o d)
      <4>1. 1 \in 1 .. Len(<<n>> \o d)
        BY <3>1
      <4> QED
        BY <3>1, <4>1 DEF x
    <3>4. ASSUME NEW k \in 1 .. Len(<<n>> \o d)
          PROVE  nd[(<<n>> \o d)[k]].dir \in {x} \cup Of(d)
      <4>1. CASE k = 1
        BY <3>1, <4>1 DEF x
      <4>2. CASE k # 1
        <5>1. k \in 2 .. Len(d) + 1 /\ k - 1 \in 1 .. Len(d)
          BY <3>1, <4>2
        <5> QED
          BY <3>1, <5>1
      <4> QED
        BY <4>1, <4>2
    <3> QED
      BY <3>2, <3>3, <3>4
  <2> HIDE DEF Of
  <2> QED
    BY <2>1, <2>3, <2>4, <2>5, <2>6, <2>7 DEF d, l
<1>3. Pointer \subseteq G
  <2> HIDE DEF G
  <2> QED
    BY <1>1, <1>2, NodeInduction
<1> QED
  BY <1>3
-----------------------------------------------------------------------------
(* Counting the pointers.                                                  *)

(* The nodes in front of a node.                                           *)
Preds(heap, n) == {m \in heap.live : heap.node[m].parent = n}

HeapRec == [node : [Nodes -> NodeRec], live : SUBSET Nodes]

(* A memory where E[n] pointers to n are held outside of it: what is live  *)
(* points to what is live, and each count is the number of pointers.       *)
Counted(heap, E) ==
  /\ heap \in HeapRec /\ Acyclic(heap.node) /\ E \in [Nodes -> Nat]
  /\ \A n \in Nodes \ heap.live : heap.node[n] = NoNode /\ E[n] = 0
  /\ \A n \in heap.live :
       /\ heap.node[n].parent \in heap.live \cup {Null} /\ heap.node[n].dir \in Dirs
       /\ heap.node[n].refcount = E[n] + Cardinality(Preds(heap, n))
       /\ heap.node[n].refcount # 0

Plus(E, x) == [n \in Nodes |-> IF n = x THEN E[n] + 1 ELSE E[n]]
Less(E, x) == [n \in Nodes |-> IF n = x THEN E[n] - 1 ELSE E[n]]

(* No count reaches the end of an unsigned short.                          *)
CountsFit == Cardinality(Slots) + Cardinality(Nodes) + 1 < RefMod

LEMMA PredsAreFew ==
  ASSUME NEW heap \in HeapRec, NEW n
  PROVE  /\ IsFiniteSet(Preds(heap, n)) /\ Cardinality(Preds(heap, n)) \in Nat
         /\ Cardinality(Preds(heap, n)) <= Cardinality(Nodes)
         /\ Cardinality(Nodes) \in Nat
<1>1. IsFiniteSet(Nodes)
  BY PathSearchAssumption
<1>2. Preds(heap, n) \subseteq Nodes
  BY DEF Preds, HeapRec
<1> QED
  BY <1>1, <1>2, FS_Subset, FS_CardinalityType

(* What a new reference does: rp_path_search_addref.                       *)
LEMMA AddrefIs ==
  ASSUME NEW heap, NEW E, Counted(heap, E), NEW x \in heap.live \cup {Null},
         x # Null => E[x] + Cardinality(Nodes) + 1 < RefMod
  PROVE  /\ Counted(addref(heap, x), Plus(E, x)) /\ addref(heap, x).live = heap.live
         /\ Common(heap.node, addref(heap, x).node, heap.live)
<1>1. heap \in HeapRec /\ Null \notin Nodes /\ RefMod \in Nat /\ E \in [Nodes -> Nat]
      /\ heap.live \subseteq Nodes /\ heap.node \in [Nodes -> NodeRec]
  BY PathSearchAssumption DEF Counted, HeapRec
<1>2. CASE x = Null
  <2>1. Plus(E, x) = E
    BY <1>1, <1>2 DEF Plus
  <2>2. addref(heap, x) = heap
    BY <1>2 DEF addref
  <2>3. Common(heap.node, heap.node, heap.live)
    BY <1>1 DEF Common, Counted
  <2> QED
    BY <2>1, <2>2, <2>3
<1>3. CASE x # Null
  <2> DEFINE h == addref(heap, x)
  <2>1. x \in Nodes /\ x \in heap.live
    BY <1>1, <1>3
  <2>2. heap.node[x].refcount \in 0 .. RefMod - 1
    BY <1>1, <2>1 DEF NodeRec
  <2>3. heap.node[x].refcount + 1 < RefMod
    BY <1>1, <2>1, PredsAreFew DEF Counted
  <2>4. (heap.node[x].refcount + 1) % RefMod = heap.node[x].refcount + 1
    BY <1>1, <2>2, <2>3
  <2>5. h = [heap EXCEPT !.node = [heap.node EXCEPT ![x] = [heap.node[x] EXCEPT !.refcount = heap.node[x].refcount + 1]]]
    BY <1>1, <1>3, <2>1, <2>4 DEF addref, HeapRec
  <2>6. h.live = heap.live /\ h.node = [heap.node EXCEPT ![x] = [heap.node[x] EXCEPT !.refcount = heap.node[x].refcount + 1]]
    BY <1>1, <2>5 DEF HeapRec
  <2>7. h.node \in [Nodes -> NodeRec] /\ h \in HeapRec
    <3>1. [heap.node[x] EXCEPT !.refcount = heap.node[x].refcount + 1] \in NodeRec
      BY <1>1, <2>1, <2>2, <2>3 DEF NodeRec
    <3>2. h.node \in [Nodes -> NodeRec]
      BY <1>1, <2>6, <3>1
    <3> QED
      BY <1>1, <2>5, <2>6, <3>2 DEF HeapRec
  <2>8. /\ \A n \in Nodes : n # x => h.node[n] = heap.node[n]
        /\ \A n \in Nodes : h.node[n].parent = heap.node[n].parent /\ h.node[n].dir = heap.node[n].dir
                            /\ h.node[n].before = heap.node[n].before
        /\ h.node[x].refcount = heap.node[x].refcount + 1
    BY <1>1, <2>1, <2>6 DEF NodeRec
  <2> HIDE DEF h
  <2>9. Acyclic(h.node)
    <3>1. PICK K, rank : Ranked(heap.node, K, rank)
      BY DEF Counted, Acyclic
    <3>2. Ranked(h.node, K, rank)
      BY <2>8, <3>1 DEF Ranked
    <3> QED
      BY <2>7, <3>2 DEF Acyclic
  <2>10. \A n : Preds(h, n) = Preds(heap, n)
    BY <1>1, <2>6, <2>8 DEF Preds
  <2>11. Plus(E, x) \in [Nodes -> Nat] /\ \A n \in Nodes : Plus(E, x)[n] = IF n = x THEN E[n] + 1 ELSE E[n]
    BY <1>1 DEF Plus
  <2>12. ASSUME NEW n \in Nodes \ heap.live PROVE h.node[n] = NoNode /\ Plus(E, x)[n] = 0
    BY <2>1, <2>8, <2>11 DEF Counted
  <2>13. ASSUME NEW n \in heap.live
         PROVE  /\ h.node[n].parent \in heap.live \cup {Null} /\ h.node[n].dir \in Dirs
                /\ h.node[n].refcount = Plus(E, x)[n] + Cardinality(Preds(h, n))
                /\ h.node[n].refcount # 0
    <3>1. h.node[n].parent \in heap.live \cup {Null} /\ h.node[n].dir \in Dirs
      BY <1>1, <2>8 DEF Counted
    <3>2. /\ heap.node[n].refcount = E[n] + Cardinality(Preds(heap, n)) /\ heap.node[n].refcount # 0
          /\ E[n] \in Nat /\ Cardinality(Preds(heap, n)) \in Nat
      BY <1>1, PredsAreFew DEF Counted
    <3>3. CASE n = x
      BY <1>1, <2>1, <2>8, <2>10, <2>11, <3>1, <3>2, <3>3
    <3>4. CASE n # x
      BY <1>1, <2>1, <2>8, <2>10, <2>11, <3>1, <3>2, <3>4
    <3> QED
      BY <3>3, <3>4
  <2>14. Counted(h, Plus(E, x))
    BY <2>6, <2>7, <2>9, <2>11, <2>12, <2>13 DEF Counted
  <2>15. Common(heap.node, h.node, heap.live)
    BY <1>1, <2>8 DEF Common, Counted
  <2> QED
    BY <2>6, <2>14, <2>15 DEF h
<1> QED
  BY <1>2, <1>3

(* The nodes that are freed have one reference, the next one has others.   *)
LEMMA FreedByIs ==
  ASSUME NEW nd, NEW c \in Seq(Nodes)
  PROVE  LET f == FreedBy(nd, c)
         IN  /\ f \in 0 .. Len(c)
             /\ \A k \in 1 .. f : nd[c[k]].refcount = 1
             /\ f < Len(c) => nd[c[f + 1]].refcount # 1
<1> DEFINE kept == {k \in DOMAIN c : nd[c[k]].refcount # 1}
           f == FreedBy(nd, c)
<1>1. DOMAIN c = 1 .. Len(c) /\ Len(c) \in Nat
  OBVIOUS
<1>2. CASE kept = {}
  <2>1. f = Len(c)
    BY <1>2 DEF FreedBy
  <2> HIDE DEF f
  <2>2. \A k \in 1 .. Len(c) : nd[c[k]].refcount = 1
    BY <1>1, <1>2
  <2> QED
    BY <1>1, <2>1, <2>2 DEF f
<1>3. CASE kept # {}
  <2>1. kept \subseteq Nat
    BY <1>1
  <2>2. PICK x \in kept : \A y \in kept : ~(<<y, x>> \in OpToRel(<, Nat))
    BY <1>3, <2>1, NatLessThanWellFounded, WFMin
  <2>3. \A y \in kept : x <= y
    <3> HIDE DEF kept
    <3> SUFFICES ASSUME NEW y \in kept PROVE x <= y
      OBVIOUS
    <3>1. x \in Nat /\ y \in Nat
      BY <2>1
    <3>2. y < x => <<y, x>> \in OpToRel(<, Nat)
      BY <3>1 DEF OpToRel
    <3>3. ~(y < x)
      BY <2>2, <3>2, Zenon
    <3> QED
      BY <3>1, <3>3
  <2> DEFINE k0 == CHOOSE k \in kept : \A j \in kept : k <= j
  <2>4. k0 \in kept /\ \A j \in kept : k0 <= j
    BY <2>3
  <2>5. f = k0 - 1
    BY <1>3 DEF FreedBy
  <2> HIDE DEF k0, f
  <2>6. k0 \in 1 .. Len(c) /\ nd[c[k0]].refcount # 1
    BY <1>1, <2>4
  <2>7. \A k \in 1 .. Len(c) : k < k0 => nd[c[k]].refcount = 1
    <3> SUFFICES ASSUME NEW k \in 1 .. Len(c), k < k0, nd[c[k]].refcount # 1 PROVE FALSE
      OBVIOUS
    <3>1. k \in kept
      BY <1>1
    <3> HIDE DEF kept
    <3>2. k0 <= k
      BY <2>4, <3>1
    <3> QED
      BY <2>6, <3>2
  <2> HIDE DEF kept
  <2>8. f \in 0 .. Len(c) /\ f + 1 = k0
    BY <1>1, <2>5, <2>6
  <2>9. \A k \in 1 .. f : k \in 1 .. Len(c) /\ k < k0
    BY <1>1, <2>6, <2>8
  <2> QED
    BY <2>6, <2>7, <2>8, <2>9 DEF f
<1> QED
  BY <1>2, <1>3
(* What is left of a memory when a list loses a reference, and the chain   *)
(* that is followed.                                                       *)
Released(heap, x, c, f, h) ==
  /\ c \in Seq(Nodes) /\ f \in 0 .. Len(c)
  /\ h.live = heap.live \ {c[k] : k \in 1 .. f}
  /\ h \in HeapRec
  /\ \A n \in Nodes :
       h.node[n] = IF n \in {c[k] : k \in 1 .. f} THEN NoNode
                   ELSE IF f < Len(c) /\ n = c[f + 1]
                   THEN [heap.node[n] EXCEPT !.refcount = (@ + RefMod - 1) % RefMod]
                   ELSE heap.node[n]

(* The chain of a list that is held: its nodes are live and different, the *)
(* freed ones have no other pointer than the one of the chain, and the     *)
(* next one has another.                                                   *)
Held(heap, E, x, c, f) ==
  /\ IsChain(heap.node, x, c) /\ f \in 0 .. Len(c)
  /\ \A k \in 1 .. Len(c) : c[k] \in heap.live
  /\ \A k \in 1 .. f : /\ E[c[k]] = IF k = 1 THEN 1 ELSE 0
                       /\ Preds(heap, c[k]) = IF k = 1 THEN {} ELSE {c[k - 1]}
  /\ f < Len(c) => heap.node[c[f + 1]].refcount \in 2 .. RefMod - 1

MayUnref(heap, E, x) ==
  Counted(heap, E) /\ (x = Null \/ (x \in heap.live /\ E[x] > 0))

LEMMA HeldIs ==
  ASSUME NEW heap, NEW E, NEW x, MayUnref(heap, E, x)
  PROVE  LET c == Chain(heap.node, x)
             f == FreedBy(heap.node, c)
         IN  Held(heap, E, x, c, f) /\ Released(heap, x, c, f, unref(heap, x))
<1> DEFINE c == Chain(heap.node, x)
           f == FreedBy(heap.node, c)
           h == unref(heap, x)
           gone == {c[k] : k \in 1 .. f}
<1>1. /\ Counted(heap, E) /\ heap \in HeapRec /\ Acyclic(heap.node) /\ heap.live \subseteq Nodes
      /\ heap.node \in [Nodes -> NodeRec] /\ E \in [Nodes -> Nat] /\ x \in Pointer
      /\ x \in heap.live \cup {Null} /\ RefMod \in Nat \ {0, 1} /\ Null \notin Nodes
  BY PathSearchAssumption DEF MayUnref, Counted, HeapRec, Pointer
<1>2. IsChain(heap.node, x, c) /\ c \in Seq(Nodes)
  BY <1>1, ChainIsChain DEF IsChain
<1>3. /\ f \in 0 .. Len(c)
      /\ \A k \in 1 .. f : heap.node[c[k]].refcount = 1
      /\ f < Len(c) => heap.node[c[f + 1]].refcount # 1
  BY <1>2, FreedByIs
<1>4. \A k \in 1 .. Len(c) : c[k] \in heap.live
  BY <1>1, ChainStays DEF Counted
<1>5. Released(heap, x, c, f, h)
  <2>1. h = [live |-> heap.live \ gone,
             node |-> [m \in Nodes |->
                  IF m \in gone THEN NoNode
                  ELSE IF f < Len(c) /\ m = c[f + 1]
                  THEN [heap.node[m] EXCEPT !.refcount = (@ + RefMod - 1) % RefMod]
                  ELSE heap.node[m]]]
    BY DEF unref
  <2> HIDE DEF c, f, gone
  <2>2. NoNode \in NodeRec
    BY <1>1 DEF NoNode, Node, NodeRec, Pointer
  <2>3. ASSUME NEW n \in Nodes
        PROVE  [heap.node[n] EXCEPT !.refcount = (@ + RefMod - 1) % RefMod] \in NodeRec
    <3>1. heap.node[n] \in NodeRec /\ heap.node[n].refcount \in 0 .. RefMod - 1
      BY <1>1 DEF NodeRec
    <3>2. (heap.node[n].refcount + RefMod - 1) % RefMod \in 0 .. RefMod - 1
      BY <1>1, <3>1
    <3> QED
      BY <3>1, <3>2 DEF NodeRec
  <2>4. h.node \in [Nodes -> NodeRec] /\ h.live \in SUBSET Nodes /\ h \in HeapRec
    BY <1>1, <2>1, <2>2, <2>3 DEF HeapRec
  <2>5. h.live = heap.live \ gone
        /\ \A n \in Nodes : h.node[n] = IF n \in gone THEN NoNode
                  ELSE IF f < Len(c) /\ n = c[f + 1]
                  THEN [heap.node[n] EXCEPT !.refcount = (@ + RefMod - 1) % RefMod]
                  ELSE heap.node[n]
    BY <2>1
  <2> HIDE DEF h
  <2> QED
    BY <1>2, <1>3, <2>4, <2>5 DEF Released, gone
<1> HIDE DEF c, f
<1>6. \A k \in 1 .. Len(c) : k > 1 => c[k - 1] \in Preds(heap, c[k])
  <2> SUFFICES ASSUME NEW k \in 1 .. Len(c), k > 1 PROVE c[k - 1] \in Preds(heap, c[k])
    OBVIOUS
  <2>1. k - 1 \in 1 .. Len(c) /\ k - 1 # Len(c) /\ k - 1 + 1 = k
    BY <1>2
  <2>2. heap.node[c[k - 1]].parent = c[k]
    BY <1>2, <2>1 DEF IsChain
  <2> QED
    BY <1>4, <2>1, <2>2 DEF Preds
<1>7. ASSUME NEW k \in 1 .. f
      PROVE  /\ E[c[k]] = IF k = 1 THEN 1 ELSE 0
             /\ Preds(heap, c[k]) = IF k = 1 THEN {} ELSE {c[k - 1]}
  <2> DEFINE S == Preds(heap, c[k])
             e == E[c[k]]
  <2>1. k \in 1 .. Len(c) /\ c[k] \in heap.live /\ c[k] \in Nodes
    BY <1>1, <1>2, <1>3, <1>4
  <2>2. 1 = e + Cardinality(S)
    BY <1>1, <1>3, <2>1 DEF Counted
  <2>3. IsFiniteSet(S) /\ Cardinality(S) \in Nat /\ e \in Nat
    BY <1>1, <2>1, PredsAreFew
  <2>4. CASE k = 1
    <3>1. e > 0
      <4>1. c[1] = x /\ x # Null
        BY <1>2, <2>1 DEF IsChain
      <4> QED
        BY <2>4, <4>1 DEF MayUnref
    <3>2. e = 1 /\ Cardinality(S) = 0
      BY <2>2, <2>3, <3>1
    <3>3. S = {}
      BY <2>3, <3>2, FS_EmptySet
    <3> QED
      BY <2>4, <3>2, <3>3
  <2>5. CASE k # 1
    <3>1. c[k - 1] \in S
      BY <1>6, <2>1, <2>5
    <3>2. Cardinality(S) # 0
      BY <2>3, <3>1, FS_EmptySet
    <3>3. e = 0 /\ Cardinality(S) = 1
      BY <2>2, <2>3, <3>2
    <3>4. \E y : S = {y}
      BY <2>3, <3>3, FS_Singleton
    <3> HIDE DEF S, e
    <3>5. S = {c[k - 1]}
      BY <3>1, <3>4
    <3> QED
      BY <2>5, <3>3, <3>5 DEF S, e
  <2> QED
    BY <2>4, <2>5
<1>8. ASSUME f < Len(c) PROVE heap.node[c[f + 1]].refcount \in 2 .. RefMod - 1
  <2>1. f + 1 \in 1 .. Len(c)
    BY <1>2, <1>3, <1>8
  <2>2. c[f + 1] \in heap.live /\ heap.node[c[f + 1]] \in NodeRec
    BY <1>1, <1>4, <2>1
  <2>3. heap.node[c[f + 1]].refcount \in 0 .. RefMod - 1 /\ heap.node[c[f + 1]].refcount # 0
    BY <1>1, <2>2 DEF Counted, NodeRec
  <2> QED
    BY <1>1, <1>3, <1>8, <2>3
<1>9. Held(heap, E, x, c, f)
  BY <1>2, <1>3, <1>4, <1>7, <1>8 DEF Held
<1> QED
  BY <1>5, <1>9 DEF c, f

(* What a released reference does: rp_path_search_unref.                   *)
LEMMA UnrefIs ==
  ASSUME NEW heap, NEW E, NEW x, MayUnref(heap, E, x)
  PROVE  /\ Counted(unref(heap, x), Less(E, x)) /\ unref(heap, x).live \subseteq heap.live
         /\ Common(heap.node, unref(heap, x).node, unref(heap, x).live)
<1> DEFINE c == Chain(heap.node, x)
           f == FreedBy(heap.node, c)
           h == unref(heap, x)
           gone == {c[k] : k \in 1 .. f}
<1>1. /\ Counted(heap, E) /\ heap \in HeapRec /\ Acyclic(heap.node) /\ heap.live \subseteq Nodes
      /\ heap.node \in [Nodes -> NodeRec] /\ E \in [Nodes -> Nat] /\ x \in Pointer
      /\ x \in heap.live \cup {Null} /\ RefMod \in Nat \ {0, 1} /\ Null \notin Nodes
  BY PathSearchAssumption DEF MayUnref, Counted, HeapRec, Pointer
<1>2. Held(heap, E, x, c, f) /\ Released(heap, x, c, f, h)
  BY HeldIs
<1> HIDE DEF c, f, h
<1>3. /\ c \in Seq(Nodes) /\ f \in 0 .. Len(c) /\ Len(c) \in Nat
      /\ h.live = heap.live \ gone /\ h \in HeapRec /\ h.node \in [Nodes -> NodeRec]
      /\ IsChain(heap.node, x, c)
      /\ \A k \in 1 .. Len(c) : c[k] \in heap.live
  BY <1>2 DEF Held, Released, HeapRec
<1>4. /\ \A n \in gone : h.node[n] = NoNode
      /\ \A n \in Nodes : n \notin gone =>
           /\ h.node[n].parent = heap.node[n].parent /\ h.node[n].dir = heap.node[n].dir
           /\ h.node[n].before = heap.node[n].before
           /\ ~(f < Len(c) /\ n = c[f + 1]) => h.node[n] = heap.node[n]
      /\ f < Len(c) /\ c[f + 1] \notin gone => h.node[c[f + 1]].refcount = heap.node[c[f + 1]].refcount - 1
  <2>1. \A n \in Nodes :
       h.node[n] = IF n \in gone THEN NoNode
                   ELSE IF f < Len(c) /\ n = c[f + 1]
                   THEN [heap.node[n] EXCEPT !.refcount = (@ + RefMod - 1) % RefMod]
                   ELSE heap.node[n]
    BY <1>2 DEF Released
  <2>2. gone \subseteq Nodes
    BY <1>1, <1>3
  <2> HIDE DEF gone
  <2>3. \A n \in gone : h.node[n] = NoNode
    BY <2>1, <2>2
  <2>4. ASSUME NEW n \in Nodes, n \notin gone
        PROVE  /\ h.node[n].parent = heap.node[n].parent /\ h.node[n].dir = heap.node[n].dir
               /\ h.node[n].before = heap.node[n].before
               /\ ~(f < Len(c) /\ n = c[f + 1]) => h.node[n] = heap.node[n]
    <3>1. h.node[n] = heap.node[n] \/ h.node[n] = [heap.node[n] EXCEPT !.refcount = (@ + RefMod - 1) % RefMod]
      BY <2>1, <2>4
    <3>2. heap.node[n] \in NodeRec
      BY <1>1
    <3>3. ~(f < Len(c) /\ n = c[f + 1]) => h.node[n] = heap.node[n]
      BY <2>1, <2>4
    <3> QED
      BY <3>1, <3>2, <3>3 DEF NodeRec
  <2>5. ASSUME f < Len(c), c[f + 1] \notin gone
        PROVE  h.node[c[f + 1]].refcount = heap.node[c[f + 1]].refcount - 1
    <3> DEFINE n == c[f + 1]
               r == heap.node[n].refcount
    <3>1. n \in Nodes /\ r \in 2 .. RefMod - 1
      BY <1>1, <1>2, <1>3, <2>5 DEF Held
    <3>2. h.node[n] = [heap.node[n] EXCEPT !.refcount = (@ + RefMod - 1) % RefMod]
      BY <2>1, <2>5, <3>1
    <3>3. h.node[n].refcount = (r + RefMod - 1) % RefMod
      BY <1>1, <3>1, <3>2 DEF NodeRec
    <3> HIDE DEF r
    <3>4. (r + RefMod - 1) % RefMod = r - 1
      BY <1>1, <3>1
    <3> QED
      BY <3>3, <3>4 DEF r
  <2> QED
    BY <2>3, <2>4, <2>5
<1>5. Acyclic(h.node)
  <2>1. PICK K, rank : Ranked(heap.node, K, rank)
    BY <1>1 DEF Acyclic
  <2>2. ASSUME NEW n \in Nodes PROVE rank[Null] < rank[n] /\ rank[h.node[n].parent] < rank[n]
    <3>1. CASE n \in gone
      <4>1. h.node[n].parent = Null
        BY <1>4, <3>1 DEF NoNode, Node
      <4> QED
        BY <2>1, <4>1 DEF Ranked
    <3>2. CASE n \notin gone
      BY <1>4, <2>1, <3>2 DEF Ranked
    <3> QED
      BY <3>1, <3>2
  <2> QED
    BY <1>3, <2>1, <2>2 DEF Acyclic, Ranked
<1>6. Less(E, x) \in [Nodes -> Nat] /\ \A n \in Nodes : Less(E, x)[n] = IF n = x THEN E[n] - 1 ELSE E[n]
  <2>1. \A n \in Nodes : n = x => E[n] - 1 \in Nat
    BY <1>1 DEF MayUnref
  <2> QED
    BY <1>1, <2>1 DEF Less
<1>7. ASSUME NEW n \in Nodes \ h.live PROVE h.node[n] = NoNode /\ Less(E, x)[n] = 0
  <2>1. CASE n \in gone
    <3>1. PICK k \in 1 .. f : n = c[k]
      BY <2>1
    <3>2. k \in 1 .. Len(c) /\ 1 \in 1 .. Len(c)
      BY <1>3
    <3>3. c[1] = x /\ (k # 1 => c[k] # c[1])
      BY <1>3, <3>2 DEF IsChain
    <3>4. E[n] = IF k = 1 THEN 1 ELSE 0
      BY <1>2, <3>1 DEF Held
    <3> QED
      BY <1>4, <1>6, <2>1, <3>1, <3>3, <3>4
  <2>2. CASE n \notin gone
    <3>1. n \notin heap.live
      BY <1>3, <2>2
    <3>2. heap.node[n] = NoNode /\ E[n] = 0 /\ n # x
      BY <1>1, <3>1 DEF Counted
    <3>3. ~(f < Len(c) /\ n = c[f + 1])
      BY <1>3, <3>1
    <3> QED
      BY <1>4, <1>6, <2>2, <3>2, <3>3
  <2> QED
    BY <2>1, <2>2
(* What a freed node was in front of.                                      *)
<1>8. \A k \in 1 .. f : heap.node[c[k]].parent = IF k = Len(c) THEN Null ELSE c[k + 1]
  BY <1>3 DEF IsChain
<1>9. ASSUME NEW n \in h.live
      PROVE  /\ n \in heap.live /\ n \in Nodes /\ n \notin gone
             /\ h.node[n].parent \in h.live \cup {Null} /\ h.node[n].dir \in Dirs
             /\ h.node[n].refcount = Less(E, x)[n] + Cardinality(Preds(h, n))
             /\ h.node[n].refcount # 0
  <2>1. n \in heap.live /\ n \in Nodes /\ n \notin gone
    BY <1>1, <1>3
  <2>2. /\ heap.node[n].parent \in heap.live \cup {Null} /\ heap.node[n].dir \in Dirs
        /\ heap.node[n].refcount = E[n] + Cardinality(Preds(heap, n)) /\ heap.node[n].refcount # 0
    BY <1>1, <2>1 DEF Counted
  <2>3. heap.node[n].parent \notin gone
    <3> SUFFICES ASSUME NEW k \in 1 .. f, heap.node[n].parent = c[k] PROVE FALSE
      OBVIOUS
    <3>1. n \in Preds(heap, c[k])
      BY <2>1 DEF Preds
    <3>2. k # 1 /\ n = c[k - 1]
      BY <1>2, <3>1 DEF Held
    <3>3. k - 1 \in 1 .. f
      BY <1>3, <3>2
    <3> QED
      BY <2>1, <3>2, <3>3
  <2>4. h.node[n].parent \in h.live \cup {Null} /\ h.node[n].dir \in Dirs
    BY <1>3, <1>4, <2>1, <2>2, <2>3
  <2>5. Preds(h, n) = Preds(heap, n) \ gone
    <3>1. \A m \in heap.live \ gone : h.node[m].parent = heap.node[m].parent
      BY <1>1, <1>4
    <3> QED
      BY <1>3, <3>1 DEF Preds
  <2>6. \A k \in 1 .. f : c[k] \in Preds(heap, n) => k < Len(c) /\ n = c[k + 1]
    <3> SUFFICES ASSUME NEW k \in 1 .. f, c[k] \in Preds(heap, n) PROVE k < Len(c) /\ n = c[k + 1]
      OBVIOUS
    <3>1. heap.node[c[k]].parent = n
      BY DEF Preds
    <3>2. k # Len(c) /\ n = c[k + 1]
      BY <1>1, <1>8, <2>1, <3>1
    <3> QED
      BY <1>3, <3>2
  <2>7. CASE f < Len(c) /\ n = c[f + 1]
    <3>1. h.node[n].refcount = heap.node[n].refcount - 1 /\ heap.node[n].refcount \in 2 .. RefMod - 1
      BY <1>2, <1>4, <2>1, <2>7 DEF Held
    <3>2. CASE f = 0
      <4>1. gone = {}
        BY <3>2
      <4>2. n = x
        <5>1. c # << >> /\ n = c[1]
          BY <1>3, <2>7, <3>2
        <5> QED
          BY <1>3, <5>1 DEF IsChain
      <4>3. E[n] > 0 /\ E[n] \in Nat
        BY <1>1, <2>1, <4>2 DEF MayUnref
      <4>4. Preds(h, n) = Preds(heap, n) /\ Cardinality(Preds(heap, n)) \in Nat
        BY <1>1, <2>5, <4>1, PredsAreFew
      <4> QED
        BY <1>1, <1>6, <2>1, <2>2, <2>4, <3>1, <4>2, <4>3, <4>4
    <3>3. CASE f # 0
      <4>1. f \in 1 .. f /\ f \in 1 .. Len(c) /\ 1 \in 1 .. Len(c) /\ f + 1 \in 1 .. Len(c)
        BY <1>3, <2>7, <3>3
      <4>2. c[f] \in Preds(heap, n)
        <5>1. heap.node[c[f]].parent = c[f + 1] /\ c[f] \in heap.live
          BY <1>3, <1>8, <2>7, <4>1
        <5> QED
          BY <2>7, <5>1 DEF Preds
      <4>3. \A k \in 1 .. f : c[k] \in Preds(heap, n) => k = f
        <5> SUFFICES ASSUME NEW k \in 1 .. f, c[k] \in Preds(heap, n), k # f PROVE FALSE
          OBVIOUS
        <5>1. n = c[k + 1] /\ k + 1 \in 1 .. Len(c) /\ k + 1 < f + 1
          BY <1>3, <2>6, <4>1
        <5> QED
          BY <1>3, <2>7, <4>1, <5>1 DEF IsChain
      <4>4. Preds(h, n) = Preds(heap, n) \ {c[f]}
        <5>1. Preds(heap, n) \cap gone = {c[f]}
          BY <4>1, <4>2, <4>3
        <5> QED
          BY <2>5, <5>1
      <4>5. Cardinality(Preds(h, n)) = Cardinality(Preds(heap, n)) - 1 /\ Cardinality(Preds(heap, n)) \in Nat
        <5>1. IsFiniteSet(Preds(heap, n)) /\ Cardinality(Preds(heap, n)) \in Nat
          BY <1>1, PredsAreFew
        <5>2. Cardinality(Preds(heap, n) \ {c[f]}) = Cardinality(Preds(heap, n)) - 1
          BY <4>2, <5>1, FS_RemoveElement
        <5> QED
          BY <4>4, <5>1, <5>2
      <4>6. n # x
        <5>1. x = c[1]
          BY <1>3, <4>1 DEF IsChain
        <5>2. 1 < f + 1
          BY <1>3, <3>3
        <5> QED
          BY <1>3, <2>7, <4>1, <5>1, <5>2 DEF IsChain
      <4>7. E[n] \in Nat
        BY <1>1, <2>1
      <4> QED
        BY <1>6, <2>1, <2>2, <2>4, <3>1, <4>5, <4>6, <4>7
    <3> QED
      BY <3>2, <3>3
  <2>8. CASE ~(f < Len(c) /\ n = c[f + 1])
    <3>1. h.node[n] = heap.node[n]
      BY <1>4, <2>1, <2>8
    <3>2. Preds(h, n) = Preds(heap, n)
      <4>1. \A k \in 1 .. f : c[k] \notin Preds(heap, n)
        <5> SUFFICES ASSUME NEW k \in 1 .. f, c[k] \in Preds(heap, n) PROVE FALSE
          OBVIOUS
        <5>1. k < Len(c) /\ n = c[k + 1]
          BY <2>6
        <5>2. k # f
          BY <2>8, <5>1
        <5>3. k + 1 \in 1 .. f
          BY <1>3, <5>2
        <5> QED
          BY <2>1, <5>1, <5>3
      <4> QED
        BY <2>5, <4>1
    <3>3. n # x
      <4> SUFFICES ASSUME n = x PROVE FALSE
        OBVIOUS
      <4>1. c # << >> /\ c[1] = x
        BY <1>1, <1>3, <2>1 DEF IsChain
      <4>2. Len(c) > 0
        BY <1>3, <4>1
      <4>3. f = 0
        <5> SUFFICES ASSUME f # 0 PROVE FALSE
          OBVIOUS
        <5>1. 1 \in 1 .. f
          BY <1>3
        <5> QED
          BY <2>1, <4>1, <5>1
      <4> QED
        BY <2>8, <4>1, <4>2, <4>3
    <3> QED
      BY <1>6, <2>1, <2>2, <2>4, <3>1, <3>2, <3>3
  <2> QED
    BY <2>1, <2>4, <2>7, <2>8
<1>10. Counted(h, Less(E, x))
  BY <1>3, <1>5, <1>6, <1>7, <1>9 DEF Counted
<1>11. h.live \subseteq heap.live
  BY <1>3
<1>12. Common(heap.node, h.node, h.live)
  <2>1. ASSUME NEW n \in h.live
        PROVE  /\ heap.node[n].parent \in h.live \cup {Null}
               /\ h.node[n].parent = heap.node[n].parent
               /\ h.node[n].dir = heap.node[n].dir /\ h.node[n].before = heap.node[n].before
    BY <1>4, <1>9
  <2> QED
    BY <1>1, <1>11, <2>1 DEF Common
<1> QED
  BY <1>10, <1>11, <1>12 DEF h
-----------------------------------------------------------------------------
(* Adding directories in front of a list.                                  *)

(* A memory, a list that one more pointer than E designates, and a new     *)
(* node to put in front of it.                                             *)
MayPut(heap, E, h, n, d, before) ==
  /\ E \in [Nodes -> Nat] /\ Counted(heap, Plus(E, h)) /\ h \in heap.live \cup {Null}
  /\ n \in Nodes \ heap.live /\ d \in Dirs /\ before \in BOOLEAN

WithNode(heap, n, d, before, h) ==
  [heap EXCEPT !.live = @ \cup {n}, !.node[n] = NewNode(d, before, h)]

(* What the memory becomes, w, and what its list is.                       *)
Put(heap, E, h, n, d, before, w) ==
  /\ Counted(w, Plus(E, n)) /\ w.live = heap.live \cup {n}
  /\ Common(heap.node, w.node, heap.live)
  /\ ListedIn(w.node, n) = IF before THEN <<d>> \o ListedIn(heap.node, h)
                           ELSE Append(ListedIn(heap.node, h), d)

LEMMA NodeIsAdded ==
  ASSUME NEW heap, NEW E, NEW h, NEW n, NEW d, NEW before, MayPut(heap, E, h, n, d, before)
  PROVE  Put(heap, E, h, n, d, before, WithNode(heap, n, d, before, h))
<1> DEFINE w == WithNode(heap, n, d, before, h)
<1>1. /\ E \in [Nodes -> Nat] /\ Counted(heap, Plus(E, h)) /\ h \in heap.live \cup {Null}
      /\ n \in Nodes /\ n \notin heap.live /\ d \in Dirs /\ before \in BOOLEAN
      /\ heap \in HeapRec /\ Acyclic(heap.node) /\ heap.live \subseteq Nodes
      /\ heap.node \in [Nodes -> NodeRec] /\ RefMod \in Nat \ {0, 1} /\ Null \notin Nodes
      /\ n # h /\ h \in Pointer
  BY PathSearchAssumption DEF MayPut, Counted, HeapRec, Pointer
<1> DEFINE new == NewNode(d, before, h)
<1>2. /\ new \in NodeRec /\ new.parent = h /\ new.dir = d /\ new.before = before /\ new.refcount = 1
  BY <1>1 DEF NewNode, Node, NodeRec
<1> HIDE DEF new
<1>3. w.live = heap.live \cup {n} /\ w.node = [heap.node EXCEPT ![n] = new] /\ w \in HeapRec
  <2>1. w = [heap EXCEPT !.live = heap.live \cup {n}, !.node = [heap.node EXCEPT ![n] = new]]
    BY <1>1 DEF WithNode, HeapRec, new
  <2>2. [heap.node EXCEPT ![n] = new] \in [Nodes -> NodeRec]
    BY <1>1, <1>2
  <2>3. heap.live \cup {n} \in SUBSET Nodes
    BY <1>1
  <2> HIDE DEF w
  <2>4. w \in HeapRec
    BY <1>1, <2>1, <2>2, <2>3 DEF HeapRec
  <2>5. w.live = heap.live \cup {n} /\ w.node = [heap.node EXCEPT ![n] = new]
    BY <1>1, <2>1 DEF HeapRec
  <2> QED
    BY <2>4, <2>5
<1> HIDE DEF w
<1>4. /\ w.node[n] = new /\ \A m \in Nodes : m # n => w.node[m] = heap.node[m]
      /\ w.node \in [Nodes -> NodeRec]
  BY <1>1, <1>2, <1>3
<1>5. Acyclic(w.node)
  <2>1. PICK K, rank : Ranked(heap.node, K, rank)
    BY <1>1 DEF Acyclic
  <2>2. K \in Nat /\ rank \in [Pointer -> 0 .. K] /\ n \in Pointer /\ Null \in Pointer
    BY <1>1, <2>1 DEF Ranked, Pointer
  (* Everything but n and its parents is out of the way of n.              *)
  <2> DEFINE r == [m \in Pointer |-> IF m = n THEN K + 1 ELSE rank[m]]
  <2>3. r \in [Pointer -> 0 .. K + 1] /\ K + 1 \in Nat
    BY <2>2
  <2>4. ASSUME NEW m \in Nodes PROVE r[Null] < r[m] /\ r[w.node[m].parent] < r[m]
    <3>1. rank[Null] < rank[m] /\ m \in Pointer /\ n # Null
      BY <1>1, <2>1 DEF Ranked, Pointer
    <3>2. CASE m = n
      <4>1. r[m] = K + 1 /\ r[Null] = rank[Null] /\ rank[Null] \in 0 .. K
        BY <2>2, <3>1, <3>2
      <4>2. w.node[m].parent = h /\ r[h] = rank[h] /\ rank[h] \in 0 .. K
        BY <1>1, <1>2, <1>4, <2>2, <3>2
      <4> QED
        BY <2>2, <4>1, <4>2
    <3>3. CASE m # n
      <4>1. w.node[m].parent # n
        <5>1. CASE m \in heap.live
          BY <1>1, <1>4, <3>3, <5>1 DEF Counted
        <5>2. CASE m \notin heap.live
          BY <1>1, <1>4, <3>1, <3>3, <5>2 DEF Counted, NoNode, Node
        <5> QED
          BY <5>1, <5>2
      <4>2. w.node[m].parent \in Pointer /\ rank[w.node[m].parent] < rank[m]
        BY <1>1, <1>4, <2>1, <3>3 DEF Ranked, NodeRec
      <4> QED
        BY <2>2, <3>1, <3>3, <4>1, <4>2
    <3> QED
      BY <3>2, <3>3
  <2> HIDE DEF r
  <2>5. Ranked(w.node, K + 1, r)
    BY <2>3, <2>4 DEF Ranked
  <2> QED
    BY <1>4, <2>5 DEF Acyclic
<1>6. /\ Plus(E, n) \in [Nodes -> Nat] /\ Plus(E, n)[n] = E[n] + 1
      /\ \A m \in Nodes : m # n => Plus(E, n)[m] = E[m]
      /\ \A m \in Nodes : Plus(E, h)[m] = IF m = h THEN E[m] + 1 ELSE E[m]
  BY <1>1 DEF Plus
<1>7. E[n] = 0
  <2>1. Plus(E, h)[n] = 0
    BY <1>1 DEF Counted
  <2> QED
    BY <1>1, <1>6, <2>1
<1>8. ASSUME NEW m \in Nodes \ w.live PROVE w.node[m] = NoNode /\ Plus(E, n)[m] = 0
  <2>1. m # n /\ m # h /\ m \notin heap.live
    BY <1>1, <1>3
  <2>2. heap.node[m] = NoNode /\ Plus(E, h)[m] = 0
    BY <1>1, <2>1 DEF Counted
  <2> QED
    BY <1>4, <1>6, <2>1, <2>2
<1>9. ASSUME NEW m \in w.live
      PROVE  /\ w.node[m].parent \in w.live \cup {Null} /\ w.node[m].dir \in Dirs
             /\ w.node[m].refcount = Plus(E, n)[m] + Cardinality(Preds(w, m))
             /\ w.node[m].refcount # 0
  <2>1. \A k \in heap.live : w.node[k].parent = heap.node[k].parent /\ heap.node[k].parent # n
    BY <1>1, <1>4 DEF Counted
  <2>2. CASE m = n
    <3>1. Preds(w, n) = {}
      BY <1>1, <1>2, <1>3, <1>4, <2>1 DEF Preds
    <3>2. Cardinality(Preds(w, n)) = 0
      BY <3>1, FS_EmptySet
    <3> QED
      BY <1>1, <1>2, <1>3, <1>4, <1>6, <1>7, <2>2, <3>2
  <2>3. CASE m # n
    <3>1. m \in heap.live /\ m \in Nodes /\ w.node[m] = heap.node[m]
      BY <1>1, <1>3, <1>4, <2>3
    <3>2. /\ heap.node[m].parent \in heap.live \cup {Null} /\ heap.node[m].dir \in Dirs
          /\ heap.node[m].refcount = Plus(E, h)[m] + Cardinality(Preds(heap, m))
          /\ heap.node[m].refcount # 0
      BY <1>1, <3>1 DEF Counted
    <3>3. IsFiniteSet(Preds(heap, m)) /\ Cardinality(Preds(heap, m)) \in Nat /\ E[m] \in Nat
      BY <1>1, <3>1, PredsAreFew
    <3>4. CASE m = h
      <4>1. Preds(w, m) = Preds(heap, m) \cup {n}
        BY <1>2, <1>3, <1>4, <2>1, <3>4 DEF Preds
      <4>2. n \notin Preds(heap, m)
        BY <1>1 DEF Preds
      <4>3. Cardinality(Preds(w, m)) = Cardinality(Preds(heap, m)) + 1
        BY <3>3, <4>1, <4>2, FS_AddElement
      <4> QED
        BY <1>3, <1>6, <2>3, <3>1, <3>2, <3>3, <3>4, <4>3
    <3>5. CASE m # h
      <4>1. Preds(w, m) = Preds(heap, m)
        BY <1>1, <1>2, <1>3, <1>4, <2>1, <3>5 DEF Preds
      <4> QED
        BY <1>3, <1>6, <2>3, <3>1, <3>2, <3>3, <3>5, <4>1
    <3> QED
      BY <3>4, <3>5
  <2> QED
    BY <2>2, <2>3
<1>10. Counted(w, Plus(E, n))
  BY <1>3, <1>5, <1>6, <1>8, <1>9 DEF Counted
<1>11. Common(heap.node, w.node, heap.live)
  <2>1. \A m \in heap.live : m # n /\ m \in Nodes /\ heap.node[m].parent \in heap.live \cup {Null}
    BY <1>1 DEF Counted
  <2> QED
    BY <1>1, <1>4, <2>1 DEF Common
<1>12. ListedIn(w.node, n) = IF before THEN <<d>> \o ListedIn(heap.node, h) ELSE Append(ListedIn(heap.node, h), d)
  <2>1. ListedIn(w.node, h) = ListedIn(heap.node, h)
    BY <1>1, <1>5, <1>11, CommonLists
  <2>2. ListedIn(w.node, n) =
              IF w.node[n].before THEN <<w.node[n].dir>> \o ListedIn(w.node, w.node[n].parent)
              ELSE Append(ListedIn(w.node, w.node[n].parent), w.node[n].dir)
    BY <1>1, <1>5, ListedInIs
  <2> QED
    BY <1>2, <1>4, <2>1, <2>2
<1> QED
  BY <1>3, <1>10, <1>11, <1>12 DEF w, Put
WorkRec == [heap : HeapRec, head : Pointer, room : Nat, failed : BOOLEAN]

(* A list that is being made: E counts the other pointers.                 *)
Working(w, E) ==
  /\ w \in WorkRec /\ E \in [Nodes -> Nat]
  /\ Counted(w.heap, Plus(E, w.head)) /\ w.head \in w.heap.live \cup {Null}

(* The nodes that there were are still there, as they were.                *)
Preserved(heap, after) ==
  heap.live \subseteq after.live /\ Common(heap.node, after.node, heap.live)

(* What add_dir makes of a list: a directory that is there is not added.   *)
ListAdded(l, d, before, more) ==
  \/ (d = Empty \/ d \in ToSet(l)) /\ more = l
  \/ d \in Dirs /\ before /\ more = <<d>> \o l
  \/ d \in Dirs /\ d \notin ToSet(l) /\ ~before /\ more = Append(l, d)

LEMMA AddDirTyped ==
  ASSUME NEW w \in WorkRec, NEW d \in Names, NEW before \in BOOLEAN
  PROVE  add_dir(w, d, before) \in WorkRec
<1>1. CASE w.failed \/ d = Empty \/ ~must_add(w.heap.node, w.head, d, before)
  BY <1>1 DEF add_dir
<1>2. CASE ~(w.failed \/ d = Empty \/ ~must_add(w.heap.node, w.head, d, before))
  <2> DEFINE free == Nodes \ w.heap.live
             n == CHOOSE n \in free : TRUE
             new == NewNode(d, before, w.head)
  <2>1. CASE w.room = 0 \/ free = {}
    <3>1. add_dir(w, d, before) = [w EXCEPT !.failed = TRUE]
      BY <1>2, <2>1 DEF add_dir
    <3> QED
      BY <3>1 DEF WorkRec
  <2>2. CASE ~(w.room = 0 \/ free = {})
    <3>1. add_dir(w, d, before) = [w EXCEPT !.heap.live = @ \cup {n},
                               !.heap.node[n] = new, !.head = n, !.room = @ - 1]
      BY <1>2, <2>2 DEF add_dir
    <3>2. n \in Nodes
      BY <2>2
    <3> HIDE DEF n
    <3>3. new \in NodeRec
      <4>1. RefMod \in Nat \ {0, 1} /\ w.head \in Pointer
        BY PathSearchAssumption DEF WorkRec
      <4> QED
        BY <4>1 DEF NewNode, Node, NodeRec, Names
    <3> HIDE DEF new
    <3>4. w.heap \in HeapRec /\ w.room \in Nat /\ w.room # 0 /\ w.failed \in BOOLEAN
      BY <2>2 DEF WorkRec
    <3> DEFINE h2 == [w.heap EXCEPT !.live = @ \cup {n}, !.node[n] = new]
    <3>5. h2 \in HeapRec
      BY <3>2, <3>3, <3>4 DEF HeapRec
    <3>6. add_dir(w, d, before) = [w EXCEPT !.heap = h2, !.head = n, !.room = @ - 1]
      BY <3>1
    <3> HIDE DEF h2
    <3>7. w.room - 1 \in Nat /\ n \in Pointer
      BY <3>2, <3>4 DEF Pointer
    <3> QED
      BY <3>5, <3>6, <3>7 DEF WorkRec
  <2> QED
    BY <2>1, <2>2
<1> QED
  BY <1>1, <1>2

LEMMA CommonSelf ==
  ASSUME NEW heap, NEW E, Counted(heap, E)
  PROVE  Preserved(heap, heap)
BY DEF Counted, Preserved, Common, HeapRec

CanAddDir(w, E, d, before) == Working(w, E) /\ d \in Names /\ before \in BOOLEAN

LEMMA AddDirIs ==
  ASSUME NEW w, NEW E, NEW d, NEW before, CanAddDir(w, E, d, before)
  PROVE  LET v == add_dir(w, d, before)
         IN  /\ Working(v, E) /\ Preserved(w.heap, v.heap)
             /\ ~v.failed => ~w.failed /\ ListAdded(ListedIn(w.heap.node, w.head), d, before,
                                                    ListedIn(v.heap.node, v.head))
<1> DEFINE v == add_dir(w, d, before)
           l == ListedIn(w.heap.node, w.head)
           chain == Chain(w.heap.node, w.head)
<1>1. /\ w \in WorkRec /\ E \in [Nodes -> Nat] /\ Counted(w.heap, Plus(E, w.head))
      /\ w.head \in w.heap.live \cup {Null} /\ d \in Names /\ before \in BOOLEAN
      /\ w.heap \in HeapRec /\ Acyclic(w.heap.node) /\ w.head \in Pointer
  BY DEF CanAddDir, Working, WorkRec, Counted
<1>2. v \in WorkRec
  BY <1>1, AddDirTyped
<1>3. Preserved(w.heap, w.heap)
  BY <1>1, CommonSelf
<1>4. chain \in Seq(Nodes) /\ ToSet(l) = {w.heap.node[chain[k]].dir : k \in 1 .. Len(chain)}
  BY <1>1, ChainIs, ListedHas
<1>5. CASE w.failed \/ d = Empty \/ ~must_add(w.heap.node, w.head, d, before)
  <2>1. v = w
    BY <1>5 DEF add_dir
  <2>2. ~must_add(w.heap.node, w.head, d, before) => d \in ToSet(l)
    <3> SUFFICES ASSUME ~must_add(w.heap.node, w.head, d, before) PROVE d \in ToSet(l)
      OBVIOUS
    <3>1. PICK k \in DOMAIN chain : w.heap.node[chain[k]].dir = d
      BY DEF must_add
    <3>2. k \in 1 .. Len(chain)
      BY <1>4
    <3> HIDE DEF chain, l
    <3> QED
      BY <1>4, <3>1, <3>2
  <2>3. ~v.failed => ~w.failed /\ ListAdded(l, d, before, ListedIn(v.heap.node, v.head))
    BY <1>5, <2>1, <2>2 DEF ListAdded
  <2> QED
    BY <1>3, <2>1, <2>3 DEF CanAddDir
<1>6. CASE ~(w.failed \/ d = Empty \/ ~must_add(w.heap.node, w.head, d, before))
  <2> DEFINE free == Nodes \ w.heap.live
             n == CHOOSE n \in free : TRUE
             h2 == WithNode(w.heap, n, d, before, w.head)
  <2>1. CASE w.room = 0 \/ free = {}
    <3>1. v = [w EXCEPT !.failed = TRUE]
      BY <1>6, <2>1 DEF add_dir
    <3>2. v.failed /\ v.heap = w.heap /\ v.head = w.head
      BY <1>1, <3>1 DEF WorkRec
    <3>3. Working(v, E) /\ Preserved(w.heap, v.heap)
      BY <1>1, <1>2, <1>3, <3>2 DEF Working
    <3> QED
      BY <3>2, <3>3
  <2>2. CASE ~(w.room = 0 \/ free = {})
    <3>1. v = [w EXCEPT !.heap.live = @ \cup {n},
                        !.heap.node[n] = NewNode(d, before, w.head), !.head = n, !.room = @ - 1]
      BY <1>6, <2>2 DEF add_dir
    <3>2. v = [w EXCEPT !.heap = h2, !.head = n, !.room = @ - 1]
      BY <3>1 DEF WithNode
    <3>3. n \in Nodes \ w.heap.live
      BY <2>2
    <3> HIDE DEF n, h2, v
    <3>4. v.heap = h2 /\ v.head = n /\ v.failed = w.failed
      BY <1>1, <3>2 DEF WorkRec
    <3>5. d \in Dirs
      BY <1>1, <1>6 DEF Names
    <3>6. MayPut(w.heap, E, w.head, n, d, before)
      BY <1>1, <3>3, <3>5 DEF MayPut
    <3>7. /\ Counted(h2, Plus(E, n)) /\ h2.live = w.heap.live \cup {n}
          /\ Common(w.heap.node, h2.node, w.heap.live)
          /\ ListedIn(h2.node, n) = IF before THEN <<d>> \o l ELSE Append(l, d)
      <4>1. Put(w.heap, E, w.head, n, d, before, h2)
        BY <3>6, NodeIsAdded DEF h2
      <4> QED
        BY <4>1 DEF Put
    <3>8. Working(v, E) /\ Preserved(w.heap, v.heap)
      BY <1>1, <1>2, <3>3, <3>4, <3>7 DEF Working, Preserved
    <3>9. ~before => d \notin ToSet(l)
      <4> SUFFICES ASSUME ~before, d \in ToSet(l) PROVE FALSE
        OBVIOUS
      <4>1. \A k \in DOMAIN chain : w.heap.node[chain[k]].dir # d
        BY <1>6 DEF must_add
      <4> HIDE DEF chain, l
      <4>2. DOMAIN chain = 1 .. Len(chain)
        BY <1>4
      <4> QED
        BY <1>4, <4>1, <4>2
    <3>10. ListAdded(l, d, before, ListedIn(v.heap.node, v.head))
      BY <1>1, <3>4, <3>5, <3>7, <3>9, Zenon DEF ListAdded
    <3> QED
      BY <1>6, <3>8, <3>10 DEF v
  <2> QED
    BY <2>1, <2>2
<1> QED
  BY <1>5, <1>6
(* The items of dirs that have been seen after k steps of make.            *)
Places(dirs, before, k) == IF before THEN (Len(dirs) + 1 - k) .. Len(dirs) ELSE 1 .. k

(* What has been added to the list l after k steps: part, whose items are  *)
(* at the places pick of dirs.                                             *)
PartOf(l, more, dirs, before, k, part, pick) ==
  /\ part \in Seq(Names) /\ more = IF before THEN part \o l ELSE l \o part
  /\ pick \in [1 .. Len(part) -> Places(dirs, before, k)]
  /\ \A i, j \in 1 .. Len(part) : i < j => pick[i] < pick[j]
  /\ \A i \in 1 .. Len(part) : part[i] = dirs[pick[i]] /\ part[i] # Empty
  /\ \A j \in Places(dirs, before, k) : dirs[j] = Empty \/ dirs[j] \in ToSet(more)
  /\ ~before => /\ IsFiniteSet(ToSet(part) \ ToSet(l))
                /\ Cardinality(ToSet(part) \ ToSet(l)) = Len(part)

ListMade(l, more, dirs, before, k) ==
  \E part, pick : PartOf(l, more, dirs, before, k, part, pick)

(* A step of make on lists.                                                *)
MadeMore(l, more, dirs, before, k, next) ==
  /\ l \in Seq(Names) /\ dirs \in Seq(Names) /\ before \in BOOLEAN /\ k \in 1 .. Len(dirs)
  /\ ListMade(l, more, dirs, before, k - 1)
  /\ ListAdded(more, dirs[IF before THEN Len(dirs) + 1 - k ELSE k], before, next)

LEMMA ListMadeStep ==
  ASSUME NEW l, NEW more, NEW dirs, NEW before, NEW k, NEW next,
         MadeMore(l, more, dirs, before, k, next)
  PROVE  ListMade(l, next, dirs, before, k)
<1> DEFINE n == Len(dirs)
           j0 == IF before THEN n + 1 - k ELSE k
           d == dirs[j0]
           Old == Places(dirs, before, k - 1)
           All == Places(dirs, before, k)
<1>1. /\ l \in Seq(Names) /\ dirs \in Seq(Names) /\ before \in BOOLEAN /\ k \in 1 .. n /\ n \in Nat
      /\ ListMade(l, more, dirs, before, k - 1)
      /\ ListAdded(more, d, before, next)
  BY DEF MadeMore
<1>2. PICK part, pick : PartOf(l, more, dirs, before, k - 1, part, pick)
  BY <1>1 DEF ListMade
<1>3. j0 \in 1 .. n /\ d \in Names
  BY <1>1
<1>4. /\ All = Old \cup {j0} /\ j0 \notin Old /\ All \subseteq Nat
      /\ \A j \in Old : IF before THEN j0 < j ELSE j < j0
  <2>1. CASE before
    <3>1. Old = (n + 2 - k) .. n /\ All = (n + 1 - k) .. n /\ j0 = n + 1 - k
      BY <1>1, <2>1 DEF Places
    <3> HIDE DEF Old, All, j0
    <3> QED
      BY <1>1, <2>1, <3>1
  <2>2. CASE ~before
    <3>1. Old = 1 .. k - 1 /\ All = 1 .. k /\ j0 = k
      BY <1>1, <2>2 DEF Places
    <3> HIDE DEF Old, All, j0
    <3> QED
      BY <1>1, <2>2, <3>1
  <2> QED
    BY <1>1, <2>1, <2>2
<1>5. /\ part \in Seq(Names) /\ more = IF before THEN part \o l ELSE l \o part
      /\ pick \in [1 .. Len(part) -> Old]
      /\ \A i, j \in 1 .. Len(part) : i < j => pick[i] < pick[j]
      /\ \A i \in 1 .. Len(part) : part[i] = dirs[pick[i]] /\ part[i] # Empty
      /\ \A j \in Old : dirs[j] = Empty \/ dirs[j] \in ToSet(more)
      /\ ~before => /\ IsFiniteSet(ToSet(part) \ ToSet(l))
                    /\ Cardinality(ToSet(part) \ ToSet(l)) = Len(part)
  BY <1>2 DEF PartOf
<1>6. more \in Seq(Names) /\ Len(part) \in Nat
  BY <1>1, <1>5
<1> HIDE DEF n, j0, d, Old, All
<1>7. CASE (d = Empty \/ d \in ToSet(more)) /\ next = more
  <2>1. pick \in [1 .. Len(part) -> All]
    BY <1>4, <1>5
  <2>2. \A j \in All : dirs[j] = Empty \/ dirs[j] \in ToSet(next)
    BY <1>4, <1>5, <1>7 DEF d
  <2>3. PartOf(l, next, dirs, before, k, part, pick)
    BY <1>5, <1>7, <2>1, <2>2 DEF PartOf, All
  <2> QED
    BY <2>3 DEF ListMade
<1>8. CASE d \in Dirs /\ before /\ next = <<d>> \o more
  <2> DEFINE p == <<d>> \o part
             q == [i \in 1 .. Len(part) + 1 |-> IF i = 1 THEN j0 ELSE pick[i - 1]]
  <2>1. /\ p \in Seq(Names) /\ Len(p) = Len(part) + 1 /\ p[1] = d
        /\ \A i \in 2 .. Len(part) + 1 : p[i] = part[i - 1] /\ i - 1 \in 1 .. Len(part)
    BY <1>3, <1>5
  <2>2. next = p \o l
    BY <1>1, <1>3, <1>5, <1>8
  <2> HIDE DEF p
  <2>3. ASSUME NEW i \in 1 .. Len(part) + 1
        PROVE  /\ (IF i = 1 THEN j0 ELSE pick[i - 1]) \in All
               /\ i # 1 => i \in 2 .. Len(part) + 1 /\ i - 1 \in 1 .. Len(part) /\ q[i] = pick[i - 1] /\ pick[i - 1] \in Old
               /\ i = 1 => q[i] = j0
    BY <1>4, <1>5, <1>6, SMTT(60)
  <2>4. q \in [1 .. Len(part) + 1 -> All]
    BY <2>3
  <2> HIDE DEF q
  <2>5. \A i, j \in 1 .. Len(p) : i < j => q[i] < q[j]
    <3> SUFFICES ASSUME NEW i \in 1 .. Len(part) + 1, NEW j \in 1 .. Len(part) + 1, i < j PROVE q[i] < q[j]
      BY <2>1
    <3>1. j # 1 /\ q[j] = pick[j - 1] /\ pick[j - 1] \in Old /\ j - 1 \in 1 .. Len(part)
      BY <1>6, <2>3
    <3>2. CASE i = 1
      BY <1>4, <1>8, <2>3, <3>1, <3>2
    <3>3. CASE i # 1
      <4>1. q[i] = pick[i - 1] /\ i - 1 \in 1 .. Len(part) /\ i - 1 < j - 1
        BY <1>6, <2>3, <3>3
      <4> QED
        BY <1>5, <3>1, <4>1
    <3> QED
      BY <3>2, <3>3
  <2>6. \A i \in 1 .. Len(p) : p[i] = dirs[q[i]] /\ p[i] # Empty
    <3> SUFFICES ASSUME NEW i \in 1 .. Len(part) + 1 PROVE p[i] = dirs[q[i]] /\ p[i] # Empty
      BY <2>1
    <3>1. CASE i = 1
      <4>1. d # Empty
        BY <1>8, PathSearchAssumption
      <4> QED
        BY <2>1, <2>3, <3>1, <4>1 DEF d
    <3>2. CASE i # 1
      BY <1>5, <2>1, <2>3, <3>2
    <3> QED
      BY <3>1, <3>2
  <2>7. \A j \in All : dirs[j] = Empty \/ dirs[j] \in ToSet(next)
    <3>1. ToSet(next) = {d} \cup ToSet(more)
      BY <1>3, <1>6, <1>8, ToSetMore
    <3> QED
      BY <1>4, <1>5, <3>1 DEF d
  <2>8. PartOf(l, next, dirs, before, k, p, q)
    BY <1>8, <2>1, <2>2, <2>4, <2>5, <2>6, <2>7 DEF PartOf, All
  <2> QED
    BY <2>8 DEF ListMade
<1>9. CASE d \in Dirs /\ d \notin ToSet(more) /\ ~before /\ next = Append(more, d)
  <2> DEFINE p == Append(part, d)
             q == [i \in 1 .. Len(part) + 1 |-> IF i = Len(part) + 1 THEN j0 ELSE pick[i]]
  <2>1. /\ p \in Seq(Names) /\ Len(p) = Len(part) + 1 /\ p[Len(part) + 1] = d
        /\ \A i \in 1 .. Len(part) : p[i] = part[i]
    BY <1>3, <1>5
  <2>2. next = l \o p
    BY <1>1, <1>3, <1>5, <1>9, SMTT(60)
  <2> HIDE DEF p
  <2>3. ASSUME NEW i \in 1 .. Len(part) + 1
        PROVE  /\ (IF i = Len(part) + 1 THEN j0 ELSE pick[i]) \in All
               /\ i # Len(part) + 1 => i \in 1 .. Len(part) /\ q[i] = pick[i] /\ pick[i] \in Old
               /\ i = Len(part) + 1 => q[i] = j0
    <3>1. q[i] = IF i = Len(part) + 1 THEN j0 ELSE pick[i]
      OBVIOUS
    <3> HIDE DEF q
    <3>2. i # Len(part) + 1 => i \in 1 .. Len(part)
      BY <1>6
    <3>3. i # Len(part) + 1 => pick[i] \in Old
      BY <1>5, <3>2
    <3> QED
      BY <1>4, <3>1, <3>2, <3>3
  <2>4. q \in [1 .. Len(part) + 1 -> All]
    BY <2>3
  <2> HIDE DEF q
  <2>5. \A i, j \in 1 .. Len(p) : i < j => q[i] < q[j]
    <3> SUFFICES ASSUME NEW i \in 1 .. Len(part) + 1, NEW j \in 1 .. Len(part) + 1, i < j PROVE q[i] < q[j]
      BY <2>1
    <3>1. i # Len(part) + 1 /\ q[i] = pick[i] /\ pick[i] \in Old /\ i \in 1 .. Len(part)
      BY <1>6, <2>3
    <3>2. CASE j = Len(part) + 1
      BY <1>4, <1>9, <2>3, <3>1, <3>2
    <3>3. CASE j # Len(part) + 1
      <4>1. q[j] = pick[j] /\ j \in 1 .. Len(part)
        BY <1>6, <2>3, <3>3
      <4> QED
        BY <1>5, <3>1, <4>1
    <3> QED
      BY <3>2, <3>3
  <2>6. \A i \in 1 .. Len(p) : p[i] = dirs[q[i]] /\ p[i] # Empty
    <3> SUFFICES ASSUME NEW i \in 1 .. Len(part) + 1 PROVE p[i] = dirs[q[i]] /\ p[i] # Empty
      BY <2>1
    <3>1. CASE i = Len(part) + 1
      <4>1. d # Empty
        BY <1>9, PathSearchAssumption
      <4> QED
        BY <2>1, <2>3, <3>1, <4>1 DEF d
    <3>2. CASE i # Len(part) + 1
      BY <1>5, <2>1, <2>3, <3>2
    <3> QED
      BY <3>1, <3>2
  <2>7. \A j \in All : dirs[j] = Empty \/ dirs[j] \in ToSet(next)
    <3>1. ToSet(next) = {d} \cup ToSet(more)
      BY <1>3, <1>6, <1>9, ToSetMore
    <3> QED
      BY <1>4, <1>5, <3>1 DEF d
  <2>8. IsFiniteSet(ToSet(p) \ ToSet(l)) /\ Cardinality(ToSet(p) \ ToSet(l)) = Len(p)
    <3> DEFINE S == ToSet(part) \ ToSet(l)
    <3>1. IsFiniteSet(S) /\ Cardinality(S) = Len(part)
      BY <1>5, <1>9
    <3>2. ToSet(p) = {d} \cup ToSet(part)
      BY <1>3, <1>5, ToSetMore DEF p
    <3>3. d \notin ToSet(l) /\ d \notin ToSet(part)
      <4>1. more = l \o part
        BY <1>5, <1>9
      <4>2. ASSUME NEW i \in 1 .. Len(l) PROVE l[i] \in ToSet(more)
        <5>1. i \in DOMAIN more /\ more[i] = l[i]
          BY <1>1, <1>5, <4>1
        <5> QED
          BY <5>1 DEF ToSet
      <4>3. ASSUME NEW i \in 1 .. Len(part) PROVE part[i] \in ToSet(more)
        <5>1. Len(l) + i \in DOMAIN more /\ more[Len(l) + i] = part[i]
          BY <1>1, <1>5, <4>1
        <5> QED
          BY <5>1 DEF ToSet
      <4>4. DOMAIN l = 1 .. Len(l) /\ DOMAIN part = 1 .. Len(part)
        BY <1>1, <1>5
      <4> QED
        BY <1>9, <4>2, <4>3, <4>4 DEF ToSet
    <3>4. ToSet(p) \ ToSet(l) = S \cup {d} /\ d \notin S
      BY <3>2, <3>3
    <3> HIDE DEF S
    <3>5. IsFiniteSet(S \cup {d}) /\ Cardinality(S \cup {d}) = Cardinality(S) + 1
      BY <3>1, <3>4, FS_AddElement
    <3> QED
      BY <2>1, <3>1, <3>4, <3>5
  <2>9. PartOf(l, next, dirs, before, k, p, q)
    BY <1>9, <2>1, <2>2, <2>4, <2>5, <2>6, <2>7, <2>8 DEF PartOf, All
  <2> QED
    BY <2>9 DEF ListMade
<1> QED
  BY <1>1, <1>7, <1>8, <1>9 DEF ListAdded
(* What a memory keeps in two steps.                                       *)
LEMMA PreservedTwice ==
  ASSUME NEW a, NEW b, NEW c, Preserved(a, b), Preserved(b, c)
  PROVE  Preserved(a, c)
BY DEF Preserved, Common

(* A list w that is to receive directories.                                *)
CanMake(w, E, dirs, before) ==
  Working(w, E) /\ ~w.failed /\ dirs \in Seq(Names) /\ before \in BOOLEAN

(* What make has done of it after k items.                                 *)
MadeOf(w, E, dirs, before, k, v) ==
  /\ Working(v, E) /\ Preserved(w.heap, v.heap)
  /\ ~v.failed => ListMade(ListedIn(w.heap.node, w.head), ListedIn(v.heap.node, v.head), dirs, before, k)

(* The items that are taken, in the order in which they are.               *)
LEMMA ItemsAre ==
  ASSUME NEW dirs \in Seq(Names), NEW before \in BOOLEAN
  PROVE  LET items == IF before THEN Reverse(dirs) ELSE dirs
         IN  /\ Len(items) = Len(dirs)
             /\ \A k \in 1 .. Len(dirs) :
                  items[k] = dirs[IF before THEN Len(dirs) + 1 - k ELSE k] /\ items[k] \in Names
<1>1. CASE before
  <2> DEFINE r == Reverse(dirs)
  <2>1. r = [i \in 1 .. Len(dirs) |-> dirs[(Len(dirs) - i) + 1]]
    BY DEF Reverse
  <2> HIDE DEF r
  <2>2. Len(r) = Len(dirs)
    BY <2>1
  <2>3. ASSUME NEW k \in 1 .. Len(dirs)
        PROVE  r[k] = dirs[Len(dirs) + 1 - k] /\ r[k] \in Names
    <3>1. (Len(dirs) - k) + 1 = Len(dirs) + 1 - k /\ Len(dirs) + 1 - k \in 1 .. Len(dirs)
      OBVIOUS
    <3> QED
      BY <2>1, <3>1
  <2> QED
    BY <1>1, <2>2, <2>3 DEF r
<1>2. CASE ~before
  BY <1>2
<1> QED
  BY <1>1, <1>2

(* make adds the items one by one.                                         *)
LEMMA MakeSteps ==
  ASSUME NEW w, NEW E, NEW dirs, NEW before, CanMake(w, E, dirs, before)
  PROVE  \E f : /\ f[0] = w /\ make(w, dirs, before) = f[Len(dirs)]
                /\ \A k \in 1 .. Len(dirs) :
                     f[k] = add_dir(f[k - 1], dirs[IF before THEN Len(dirs) + 1 - k ELSE k], before)
<1> DEFINE items == IF before THEN Reverse(dirs) ELSE dirs
           n == Len(dirs)
           M == CHOOSE g : g = [k \in 0 .. Len(items) |->
                     IF k = 0 THEN w ELSE LET v == g[k - 1] IN add_dir(v, items[k], before)]
           Step == [p \in (1 .. n) \X WorkRec |-> add_dir(p[2], items[p[1]], before)]
<1>1. w \in WorkRec /\ dirs \in Seq(Names) /\ before \in BOOLEAN /\ n \in Nat
  BY DEF CanMake, Working
<1>2. Len(items) = n /\ \A k \in 1 .. n : items[k] = dirs[IF before THEN n + 1 - k ELSE k] /\ items[k] \in Names
  BY <1>1, ItemsAre
<1>3. make(w, dirs, before) = M[Len(items)]
  BY DEF make
<1> HIDE DEF items, n
<1>4. Step \in [(1 .. n) \X WorkRec -> WorkRec]
  BY <1>1, <1>2, AddDirTyped
<1>5. \E f \in [0 .. n -> WorkRec] : Recursive(f, n, w, Step)
  <2> HIDE DEF Step
  <2> QED
    BY <1>1, <1>4, Recursion
<1>6. PICK f \in [0 .. n -> WorkRec] : Recursive(f, n, w, Step)
  BY <1>5
<1>7. f[0] = w /\ \A k \in 1 .. n : f[k] = add_dir(f[k - 1], items[k], before)
  <2>1. \A k \in 1 .. n : k - 1 \in 0 .. n
    BY <1>1
  <2>2. \A k \in 1 .. n : <<k, f[k - 1]>> \in (1 .. n) \X WorkRec
    BY <1>6, <2>1
  <2>3. \A k \in 1 .. n : Step[<<k, f[k - 1]>>] = add_dir(f[k - 1], items[k], before)
    BY <2>2
  <2> HIDE DEF Step
  <2> QED
    BY <1>6, <2>3 DEF Recursive
<1>8. f = [k \in 0 .. Len(items) |-> IF k = 0 THEN w ELSE LET v == f[k - 1] IN add_dir(v, items[k], before)]
  <2>1. \A k \in 0 .. n : f[k] = IF k = 0 THEN w ELSE add_dir(f[k - 1], items[k], before)
    <3>1. \A k \in 0 .. n : k # 0 => k \in 1 .. n
      BY <1>1
    <3> QED
      BY <1>7, <3>1, Zenon
  <2>2. f = [k \in 0 .. n |-> f[k]]
    BY <1>6
  <2>3. f = [k \in 0 .. n |-> IF k = 0 THEN w ELSE add_dir(f[k - 1], items[k], before)]
    BY <2>1, <2>2, Zenon
  <2> QED
    BY <1>2, <2>3
<1>9. M = [k \in 0 .. Len(items) |-> IF k = 0 THEN w ELSE LET v == M[k - 1] IN add_dir(v, items[k], before)]
  BY <1>8, Zenon
<1> HIDE DEF M
<1>10. M[0] = w
  <2>1. 0 \in 0 .. n
    BY <1>1
  <2> QED
    BY <1>2, <1>9, <2>1
<1>11. ASSUME NEW k \in 1 .. n
       PROVE  M[k] = add_dir(M[k - 1], dirs[IF before THEN n + 1 - k ELSE k], before)
  <2>1. k \in 0 .. n /\ k # 0
    BY <1>1
  <2>2. M[k] = add_dir(M[k - 1], items[k], before)
    BY <1>2, <1>9, <2>1
  <2> QED
    BY <1>2, <2>2
<1>12. make(w, dirs, before) = M[n]
  BY <1>2, <1>3 DEF M
<1> QED
  BY <1>10, <1>11, <1>12 DEF n

LEMMA MakeIs ==
  ASSUME NEW w, NEW E, NEW dirs, NEW before, CanMake(w, E, dirs, before)
  PROVE  MadeOf(w, E, dirs, before, Len(dirs), make(w, dirs, before))
<1> DEFINE n == Len(dirs)
           At(k) == IF before THEN n + 1 - k ELSE k
           l == ListedIn(w.heap.node, w.head)
<1>1. /\ Working(w, E) /\ ~w.failed /\ dirs \in Seq(Names) /\ before \in BOOLEAN /\ n \in Nat
      /\ Acyclic(w.heap.node) /\ w.head \in Pointer /\ l \in Seq(Names)
  <2>1. Acyclic(w.heap.node) /\ w.head \in Pointer
    BY DEF CanMake, Working, WorkRec, Counted
  <2> QED
    BY <2>1, ListedInIs DEF CanMake
<1>2. PICK f : /\ f[0] = w /\ make(w, dirs, before) = f[n]
               /\ \A k \in 1 .. n : f[k] = add_dir(f[k - 1], dirs[At(k)], before)
  BY MakeSteps
<1> DEFINE S == {k \in 0 .. n : MadeOf(w, E, dirs, before, k, f[k])}
<1>3. 0 \in S
  <2>1. Preserved(w.heap, w.heap)
    BY <1>1, CommonSelf DEF Working
  <2>2. ListMade(l, l, dirs, before, 0)
    <3> DEFINE e == [i \in 1 .. 0 |-> 0]
    <3>1. /\ << >> \in Seq(Names) /\ Len(<< >>) = 0 /\ l \o << >> = l /\ << >> \o l = l
      BY <1>1
    <3>2. Places(dirs, before, 0) = {} /\ 1 .. 0 = {}
      BY <1>1 DEF Places
    <3>3. e \in [1 .. 0 -> Places(dirs, before, 0)]
      BY <3>2
    <3>4. ToSet(<< >>) = {}
      BY DEF ToSet
    <3>5. IsFiniteSet(ToSet(<< >>) \ ToSet(l)) /\ Cardinality(ToSet(<< >>) \ ToSet(l)) = 0
      BY <3>4, FS_EmptySet
    <3> HIDE DEF e, l
    <3>6. PartOf(l, l, dirs, before, 0, << >>, e)
      BY <3>1, <3>2, <3>3, <3>5 DEF PartOf
    <3> QED
      BY <3>6 DEF ListMade
  <2>3. MadeOf(w, E, dirs, before, 0, w)
    BY <1>1, <2>1, <2>2 DEF MadeOf
  <2> QED
    BY <1>1, <1>2, <2>3
<1>4. ASSUME NEW k \in 1 .. n, k - 1 \in S PROVE k \in S
  <2> DEFINE u == f[k - 1]
             v == f[k]
             d == dirs[At(k)]
  <2>1. MadeOf(w, E, dirs, before, k - 1, u) /\ k \in 0 .. n
    BY <1>1, <1>4
  <2>2. v = add_dir(u, d, before) /\ d \in Names
    <3>1. At(k) \in 1 .. n
      BY <1>1
    <3> HIDE DEF At
    <3> QED
      BY <1>1, <1>2, <3>1
  <2> HIDE DEF u, v, d
  <2>3. CanAddDir(u, E, d, before)
    BY <1>1, <2>1, <2>2 DEF CanAddDir, MadeOf
  <2>4. /\ Working(v, E) /\ Preserved(u.heap, v.heap)
        /\ ~v.failed => ~u.failed /\ ListAdded(ListedIn(u.heap.node, u.head), d, before,
                                               ListedIn(v.heap.node, v.head))
    BY <2>2, <2>3, AddDirIs
  <2>5. Preserved(w.heap, v.heap)
    BY <2>1, <2>4, PreservedTwice DEF MadeOf
  <2>6. ASSUME ~v.failed PROVE ListMade(l, ListedIn(v.heap.node, v.head), dirs, before, k)
    <3>1. MadeMore(l, ListedIn(u.heap.node, u.head), dirs, before, k, ListedIn(v.heap.node, v.head))
      BY <1>1, <2>1, <2>4, <2>6 DEF MadeMore, MadeOf, d
    <3> QED
      BY <3>1, ListMadeStep
  <2>7. MadeOf(w, E, dirs, before, k, v)
    BY <2>4, <2>5, <2>6 DEF MadeOf
  <2> QED
    BY <2>1, <2>7 DEF v
<1>5. n \in S
  <2>1. n \in 0 .. n
    BY <1>1
  <2>2. \A k \in 1 .. n : k - 1 \in S => k \in S
    BY <1>4
  <2> HIDE DEF S
  <2>3. 0 .. n \subseteq S
    BY <1>1, <1>3, <2>2, UpTo
  <2> QED
    BY <2>1, <2>3
<1> QED
  BY <1>2, <1>5
-----------------------------------------------------------------------------
(* The whole calls.                                                        *)

(* The lists that something outside designates are not changed.            *)
SameLists(heap, after, E) ==
  \A n \in Nodes : E[n] > 0 => /\ n \in heap.live /\ n \in after.live
                               /\ ListedIn(after.node, n) = ListedIn(heap.node, n)

(* A reference that is taken changes no list.                              *)
LEMMA SameAfterMore ==
  ASSUME NEW heap, NEW after, NEW E, NEW F, Counted(heap, E), Counted(after, F), Preserved(heap, after)
  PROVE  SameLists(heap, after, E)
<1> SUFFICES ASSUME NEW n \in Nodes, E[n] > 0
             PROVE  /\ n \in heap.live /\ n \in after.live
                    /\ ListedIn(after.node, n) = ListedIn(heap.node, n)
  BY DEF SameLists
<1>1. n \in heap.live
  BY DEF Counted
<1>2. Acyclic(heap.node) /\ Acyclic(after.node) /\ Common(heap.node, after.node, heap.live)
  BY DEF Counted, Preserved
<1>3. ListedIn(after.node, n) = ListedIn(heap.node, n)
  BY <1>1, <1>2, CommonLists
<1> QED
  BY <1>1, <1>3 DEF Preserved

(* A reference that is released changes no list that is still designated.  *)
LEMMA SameAfterUnref ==
  ASSUME NEW heap, NEW E, NEW x, MayUnref(heap, E, x)
  PROVE  SameLists(heap, unref(heap, x), Less(E, x))
<1> DEFINE u == unref(heap, x)
           L == Less(E, x)
<1>1. Counted(heap, E) /\ Counted(u, L) /\ u.live \subseteq heap.live /\ Common(heap.node, u.node, u.live)
  BY UnrefIs DEF MayUnref
<1> HIDE DEF u, L
<1>2. SameLists(heap, u, L)
  <2> SUFFICES ASSUME NEW n \in Nodes, L[n] > 0
               PROVE  /\ n \in heap.live /\ n \in u.live
                      /\ ListedIn(u.node, n) = ListedIn(heap.node, n)
    BY DEF SameLists
  <2>1. n \in u.live
    BY <1>1 DEF Counted
  <2>2. Acyclic(heap.node) /\ Acyclic(u.node)
    BY <1>1 DEF Counted
  <2>3. ListedIn(u.node, n) = ListedIn(heap.node, n)
    BY <1>1, <2>1, <2>2, CommonLists
  <2> QED
    BY <1>1, <2>1, <2>3
<1> QED
  BY <1>2 DEF u, L

(* A pointer more, then one less.                                          *)
LEMMA PlusLess ==
  ASSUME NEW E \in [Nodes -> Nat], NEW x, NEW y
  PROVE  /\ Less(Plus(E, x), x) = E
         /\ Less(Plus(E, x), y) = Plus(Less(E, y), x)
         /\ \A n \in Nodes : Plus(E, x)[n] \in Nat /\ Plus(E, x)[n] >= E[n]
         /\ x \in Nodes => Plus(E, x)[x] > 0
<1>1. \A n \in Nodes : Plus(E, x)[n] = IF n = x THEN E[n] + 1 ELSE E[n]
  BY DEF Plus
<1>2. \A n \in Nodes : Less(E, y)[n] = IF n = y THEN E[n] - 1 ELSE E[n]
  BY DEF Less
<1>3. \A n \in Nodes : E[n] \in Nat
  OBVIOUS
<1>4. \A n \in Nodes : (IF n = x THEN Plus(E, x)[n] - 1 ELSE Plus(E, x)[n]) = E[n]
  BY <1>1, <1>3
<1>5. \A n \in Nodes : (IF n = y THEN Plus(E, x)[n] - 1 ELSE Plus(E, x)[n])
                     = (IF n = x THEN Less(E, y)[n] + 1 ELSE Less(E, y)[n])
  BY <1>1, <1>2, <1>3
<1>6. Less(Plus(E, x), x) = E
  <2>1. E = [n \in Nodes |-> E[n]]
    OBVIOUS
  <2>2. Less(Plus(E, x), x) = [n \in Nodes |-> IF n = x THEN Plus(E, x)[n] - 1 ELSE Plus(E, x)[n]]
    BY DEF Less
  <2>3. [n \in Nodes |-> IF n = x THEN Plus(E, x)[n] - 1 ELSE Plus(E, x)[n]] = [n \in Nodes |-> E[n]]
    BY <1>4, Zenon
  <2> QED
    BY <2>1, <2>2, <2>3, Zenon
<1>7. Less(Plus(E, x), y) = Plus(Less(E, y), x)
  <2>1. Less(Plus(E, x), y) = [n \in Nodes |-> IF n = y THEN Plus(E, x)[n] - 1 ELSE Plus(E, x)[n]]
    BY DEF Less
  <2>2. Plus(Less(E, y), x) = [n \in Nodes |-> IF n = x THEN Less(E, y)[n] + 1 ELSE Less(E, y)[n]]
    BY DEF Plus
  <2> QED
    BY <1>5, <2>1, <2>2, Zenon
<1> QED
  BY <1>1, <1>3, <1>6, <1>7

(* add_dir_expanded is called on a list of which a reference may be taken. *)
MayExpand(heap, E, parent, dirs, before, room) ==
  /\ Counted(heap, E) /\ parent \in heap.live \cup {Null}
  /\ parent # Null => E[parent] + Cardinality(Nodes) + 1 < RefMod
  /\ dirs \in Seq(Names) /\ before \in BOOLEAN /\ room \in Nat

(* What it returns: a list, or NULL and a memory with the same pointers.   *)
Expanded(heap, E, parent, dirs, before, w) ==
  /\ SameLists(heap, w.heap, E) /\ w.heap \in HeapRec
  /\ IF w.failed THEN Counted(w.heap, E) /\ w.head = Null
     ELSE /\ Counted(w.heap, Plus(E, w.head)) /\ w.head \in w.heap.live \cup {Null}
          /\ ListMade(ListedIn(heap.node, parent), ListedIn(w.heap.node, w.head), dirs, before, Len(dirs))

LEMMA ExpandedIs ==
  ASSUME NEW heap, NEW E, NEW parent, NEW dirs, NEW before, NEW room,
         MayExpand(heap, E, parent, dirs, before, room)
  PROVE  Expanded(heap, E, parent, dirs, before, add_dir_expanded(heap, dirs, before, parent, room))
<1> DEFINE a == addref(heap, parent)
           start == [heap |-> a, head |-> parent, room |-> room, failed |-> FALSE]
           work == make(start, dirs, before)
           w == add_dir_expanded(heap, dirs, before, parent, room)
<1>1. /\ Counted(heap, E) /\ parent \in heap.live \cup {Null} /\ E \in [Nodes -> Nat]
      /\ dirs \in Seq(Names) /\ before \in BOOLEAN /\ room \in Nat /\ heap \in HeapRec
  BY DEF MayExpand, Counted
<1>2. /\ Counted(a, Plus(E, parent)) /\ a.live = heap.live
      /\ Common(heap.node, a.node, heap.live)
  BY <1>1, AddrefIs DEF MayExpand
<1>3. Preserved(heap, a) /\ a \in HeapRec
  BY <1>2 DEF Preserved, Counted
<1>4. /\ start \in WorkRec /\ start.heap = a /\ start.head = parent /\ ~start.failed
  BY <1>1, <1>3 DEF WorkRec, Pointer, HeapRec
<1>5. CanMake(start, E, dirs, before)
  BY <1>1, <1>2, <1>4 DEF CanMake, Working
<1>6. MadeOf(start, E, dirs, before, Len(dirs), work)
  BY <1>5, MakeIs
<1>7. w = IF ~work.failed THEN work ELSE [work EXCEPT !.heap = unref(work.heap, work.head), !.head = Null]
  BY DEF add_dir_expanded
<1> HIDE DEF w, work, start, a
<1>8. /\ work \in WorkRec /\ Counted(work.heap, Plus(E, work.head))
      /\ work.head \in work.heap.live \cup {Null} /\ Preserved(a, work.heap)
  BY <1>4, <1>6 DEF MadeOf, Working
<1>9. Preserved(heap, work.heap)
  BY <1>3, <1>8, PreservedTwice
<1>10. SameLists(heap, work.heap, E)
  BY <1>1, <1>8, <1>9, SameAfterMore
<1>11. ASSUME ~work.failed PROVE Expanded(heap, E, parent, dirs, before, w)
  <2>1. w = work /\ w.heap \in HeapRec
    BY <1>7, <1>8, <1>11 DEF WorkRec
  <2>2. ListedIn(a.node, parent) = ListedIn(heap.node, parent)
    <3>1. Acyclic(heap.node) /\ Acyclic(a.node)
      BY <1>1, <1>2 DEF Counted
    <3> QED
      BY <1>1, <1>2, <3>1, CommonLists
  <2>3. ListMade(ListedIn(heap.node, parent), ListedIn(work.heap.node, work.head), dirs, before, Len(dirs))
    BY <1>4, <1>6, <1>11, <2>2 DEF MadeOf
  <2> QED
    BY <1>8, <1>10, <1>11, <2>1, <2>3 DEF Expanded
<1>12. ASSUME work.failed PROVE Expanded(heap, E, parent, dirs, before, w)
  <2> DEFINE u == unref(work.heap, work.head)
  <2>1. MayUnref(work.heap, Plus(E, work.head), work.head)
    BY <1>1, <1>8, PlusLess DEF MayUnref, Counted, HeapRec
  <2>2. Less(Plus(E, work.head), work.head) = E
    BY <1>1, PlusLess
  <2>3. Counted(u, E) /\ SameLists(work.heap, u, E)
    BY <2>1, <2>2, UnrefIs, SameAfterUnref
  <2> HIDE DEF u
  <2>4. w.heap = u /\ w.head = Null /\ w.failed
    BY <1>7, <1>8, <1>12 DEF WorkRec, u
  <2>5. SameLists(heap, u, E)
    <3>1. ASSUME NEW n \in Nodes, E[n] > 0
          PROVE  n \in heap.live /\ n \in u.live /\ ListedIn(u.node, n) = ListedIn(heap.node, n)
      BY <1>10, <2>3, <3>1, Zenon DEF SameLists
    <3> QED
      BY <3>1 DEF SameLists
  <2>6. u \in HeapRec
    BY <2>3 DEF Counted
  <2> QED
    BY <2>3, <2>4, <2>5, <2>6 DEF Expanded
<1>13. work.failed \in BOOLEAN
  BY <1>8 DEF WorkRec
<1> QED
  BY <1>11, <1>12 DEF w
-----------------------------------------------------------------------------
(* The pointers of the clients.                                            *)

(* How many clients hold each node.                                        *)
Uses(p) == [n \in Nodes |-> Cardinality({s \in Slots : p[s] = n})]

LEMMA UsesAre ==
  ASSUME NEW p
  PROVE  /\ Uses(p) \in [Nodes -> Nat] /\ Cardinality(Slots) \in Nat
         /\ \A n \in Nodes : Uses(p)[n] = Cardinality({s \in Slots : p[s] = n})
                             /\ Uses(p)[n] <= Cardinality(Slots)
         /\ \A s \in Slots : p[s] \in Nodes => Uses(p)[p[s]] > 0
<1>1. IsFiniteSet(Slots)
  BY PathSearchAssumption
<1>2. ASSUME NEW n
      PROVE  /\ IsFiniteSet({s \in Slots : p[s] = n}) /\ Cardinality({s \in Slots : p[s] = n}) \in Nat
             /\ Cardinality({s \in Slots : p[s] = n}) <= Cardinality(Slots)
             /\ \A s \in Slots : p[s] = n => Cardinality({u \in Slots : p[u] = n}) > 0
  <2> DEFINE U == {s \in Slots : p[s] = n}
  <2>1. U \subseteq Slots
    OBVIOUS
  <2>2. \A s \in Slots : p[s] = n => U # {}
    OBVIOUS
  <2> HIDE DEF U
  <2>3. IsFiniteSet(U) /\ Cardinality(U) \in Nat /\ Cardinality(U) <= Cardinality(Slots)
    BY <1>1, <2>1, FS_Subset, FS_CardinalityType
  <2>4. U # {} => Cardinality(U) > 0
    BY <2>3, FS_EmptySet
  <2>5. \A s \in Slots : p[s] = n => Cardinality(U) > 0
    BY <2>2, <2>4
  <2> QED
    BY <2>3, <2>5 DEF U
<1>3. \A n \in Nodes : Uses(p)[n] = Cardinality({s \in Slots : p[s] = n})
  BY DEF Uses
<1>4. Uses(p) \in [Nodes -> Nat]
  BY <1>2 DEF Uses
<1>5. Cardinality(Slots) \in Nat
  BY <1>1, FS_CardinalityType
<1>6. \A s \in Slots : p[s] \in Nodes => Uses(p)[p[s]] > 0
  <2> SUFFICES ASSUME NEW s \in Slots, p[s] \in Nodes PROVE Uses(p)[p[s]] > 0
    OBVIOUS
  <2>1. Uses(p)[p[s]] = Cardinality({u \in Slots : p[u] = p[s]})
    BY <1>3
  <2>2. Cardinality({u \in Slots : p[u] = p[s]}) > 0
    BY <1>2
  <2> QED
    BY <2>1, <2>2
<1> QED
  BY <1>2, <1>3, <1>4, <1>5, <1>6

(* A client holds x instead of what it held.                               *)
LEMMA UsesMoved ==
  ASSUME NEW p, NEW S, p \in [Slots -> S], NEW t \in Slots, NEW x
  PROVE  Uses([p EXCEPT ![t] = x]) = Plus(Less(Uses(p), p[t]), x)
<1> DEFINE q == [p EXCEPT ![t] = x]
           Of(n) == {s \in Slots : p[s] = n}
           Off(n) == {s \in Slots : q[s] = n}
           Rest(n) == {s \in Slots \ {t} : p[s] = n}
<1>1. q[t] = x /\ \A s \in Slots \ {t} : q[s] = p[s]
  OBVIOUS
<1>2. IsFiniteSet(Slots)
  BY PathSearchAssumption
<1> HIDE DEF q
<1>3. ASSUME NEW n \in Nodes
      PROVE  Uses(q)[n] = Plus(Less(Uses(p), p[t]), x)[n]
  <2>1. Rest(n) \subseteq Slots /\ t \notin Rest(n)
    OBVIOUS
  <2>2. Of(n) = IF n = p[t] THEN Rest(n) \cup {t} ELSE Rest(n)
    OBVIOUS
  <2>3. Off(n) = IF n = x THEN Rest(n) \cup {t} ELSE Rest(n)
    BY <1>1
  <2>4. Uses(p)[n] = Cardinality(Of(n)) /\ Uses(q)[n] = Cardinality(Off(n))
    BY UsesAre
  <2> DEFINE R == Rest(n)
             A == Of(n)
             B == Off(n)
  <2> HIDE DEF Rest, Of, Off
  <2>5. IsFiniteSet(R) /\ Cardinality(R) \in Nat
    BY <1>2, <2>1, FS_Subset, FS_CardinalityType DEF R
  <2>6. Cardinality(R \cup {t}) = Cardinality(R) + 1
    BY <2>1, <2>5, FS_AddElement DEF R
  <2>7. Cardinality(A) = IF n = p[t] THEN Cardinality(R) + 1 ELSE Cardinality(R)
    BY <2>2, <2>6 DEF A, R
  <2>8. Cardinality(B) = IF n = x THEN Cardinality(R) + 1 ELSE Cardinality(R)
    BY <2>3, <2>6 DEF B, R
  <2>9. Less(Uses(p), p[t])[n] = IF n = p[t] THEN Uses(p)[n] - 1 ELSE Uses(p)[n]
    BY DEF Less
  <2>10. Plus(Less(Uses(p), p[t]), x)[n] = IF n = x THEN Less(Uses(p), p[t])[n] + 1 ELSE Less(Uses(p), p[t])[n]
    BY DEF Plus
  <2>11. Less(Uses(p), p[t])[n] = Cardinality(R)
    BY <2>4, <2>5, <2>7, <2>9 DEF A
  <2> QED
    BY <2>4, <2>5, <2>8, <2>10, <2>11 DEF B
<1>4. Uses(q) = [n \in Nodes |-> Uses(q)[n]]
  BY DEF Uses
<1>5. Plus(Less(Uses(p), p[t]), x) = [n \in Nodes |-> Plus(Less(Uses(p), p[t]), x)[n]]
  BY DEF Plus
<1>6. Uses(q) = Plus(Less(Uses(p), p[t]), x)
  BY <1>3, <1>4, <1>5, Zenon
<1> QED
  BY <1>6 DEF q

(* The pointer NULL is not counted.                                        *)
LEMMA NullIsNotCounted ==
  ASSUME NEW E \in [Nodes -> Int]
  PROVE  Less(E, Null) = E /\ Plus(E, Null) = E
<1>1. \A n \in Nodes : n # Null
  BY PathSearchAssumption
<1>2. E = [n \in Nodes |-> E[n]]
  OBVIOUS
<1>3. [n \in Nodes |-> IF n = Null THEN E[n] - 1 ELSE E[n]] = [n \in Nodes |-> E[n]]
  BY <1>1
<1>4. [n \in Nodes |-> IF n = Null THEN E[n] + 1 ELSE E[n]] = [n \in Nodes |-> E[n]]
  BY <1>1
<1> QED
  BY <1>2, <1>3, <1>4 DEF Less, Plus

-----------------------------------------------------------------------------
(* The calls of the clients.                                               *)

(* The pointers p of the clients and the memory agree.                     *)
Fine(p, heap) == p \in [Slots -> heap.live \cup {Null}] /\ Counted(heap, Uses(p))

Reads(p, heap, s) == ListedIn(heap.node, p[s])

(* A call after which q and after agree, and where only t may list         *)
(* something else, which is the list l.                                    *)
Called(p, heap, q, after, t, l) ==
  /\ Fine(q, after) /\ Reads(q, after, t) = l
  /\ \A s \in Slots \ {t} : Reads(q, after, s) = Reads(p, heap, s)

(* What a call does to the other lists.                                    *)
Moving(p, heap, t, x, after, E) ==
  /\ Fine(p, heap) /\ t \in Slots
  /\ x \in after.live \cup {Null} /\ Counted(after, Uses([p EXCEPT ![t] = x]))
  /\ E \in [Nodes -> Int] /\ SameLists(heap, after, E)
  /\ \A s \in Slots \ {t} : p[s] # Null => E[p[s]] > 0

LEMMA CallIs ==
  ASSUME NEW p, NEW heap, NEW t, NEW x, NEW after, NEW E, Moving(p, heap, t, x, after, E)
  PROVE  Called(p, heap, [p EXCEPT ![t] = x], after, t, ListedIn(after.node, x))
<1> DEFINE q == [p EXCEPT ![t] = x]
<1>1. /\ p \in [Slots -> heap.live \cup {Null}] /\ t \in Slots /\ heap.live \subseteq Nodes
      /\ x \in after.live \cup {Null} /\ Counted(after, Uses(q)) /\ SameLists(heap, after, E)
      /\ Acyclic(heap.node) /\ Acyclic(after.node)
  BY DEF Moving, Fine, Counted, HeapRec
<1>2. q[t] = x /\ \A s \in Slots \ {t} : q[s] = p[s]
  BY <1>1
<1>3. q = [s \in Slots |-> q[s]]
  BY <1>1
<1> HIDE DEF q
<1>4. ASSUME NEW s \in Slots \ {t}
      PROVE  q[s] \in after.live \cup {Null} /\ Reads(q, after, s) = Reads(p, heap, s)
  <2>1. CASE p[s] = Null
    <3>1. ListedIn(after.node, Null) = << >> /\ ListedIn(heap.node, Null) = << >>
      BY <1>1, ListedInIs
    <3> QED
      BY <1>2, <2>1, <3>1 DEF Reads
  <2>2. CASE p[s] # Null
    <3>1. p[s] \in Nodes /\ E[p[s]] > 0
      BY <1>1, <2>2 DEF Moving
    <3>2. p[s] \in after.live /\ ListedIn(after.node, p[s]) = ListedIn(heap.node, p[s])
      BY <1>1, <3>1 DEF SameLists
    <3> QED
      BY <1>2, <3>2 DEF Reads
  <2> QED
    BY <2>1, <2>2
<1>5. q \in [Slots -> after.live \cup {Null}]
  BY <1>1, <1>2, <1>3, <1>4
<1>6. Reads(q, after, t) = ListedIn(after.node, x)
  BY <1>2 DEF Reads
<1>7. Called(p, heap, q, after, t, ListedIn(after.node, x))
  BY <1>1, <1>4, <1>5, <1>6 DEF Called, Fine
<1> QED
  BY <1>7 DEF q
(* What the pointers count, and what an additional reference may count to. *)
LEMMA FineIs ==
  ASSUME NEW p, NEW heap, Fine(p, heap)
  PROVE  /\ p \in [Slots -> heap.live \cup {Null}] /\ Counted(heap, Uses(p)) /\ heap.live \subseteq Nodes
         /\ Uses(p) \in [Nodes -> Nat] /\ Acyclic(heap.node) /\ heap \in HeapRec
         /\ \A s \in Slots : p[s] # Null => p[s] \in heap.live /\ Uses(p)[p[s]] > 0
         /\ CountsFit => \A s \in Slots : p[s] # Null => Uses(p)[p[s]] + Cardinality(Nodes) + 1 < RefMod
<1>1. /\ p \in [Slots -> heap.live \cup {Null}] /\ Counted(heap, Uses(p)) /\ heap.live \subseteq Nodes
      /\ Uses(p) \in [Nodes -> Nat] /\ Acyclic(heap.node) /\ heap \in HeapRec
  BY DEF Fine, Counted, HeapRec
<1>2. \A s \in Slots : p[s] # Null => p[s] \in heap.live /\ p[s] \in Nodes
  BY <1>1
<1>3. \A s \in Slots : p[s] # Null => Uses(p)[p[s]] > 0
  BY <1>2, UsesAre
<1>4. ASSUME CountsFit, NEW s \in Slots, p[s] # Null
      PROVE  Uses(p)[p[s]] + Cardinality(Nodes) + 1 < RefMod
  <2> DEFINE u == Uses(p)[p[s]]
             c == Cardinality(Slots)
             k == Cardinality(Nodes)
  <2>1. u \in Nat /\ c \in Nat /\ u <= c
    BY <1>1, <1>2, <1>4, UsesAre
  <2>2. k \in Nat
    BY PathSearchAssumption, FS_CardinalityType
  <2>3. c + k + 1 < RefMod /\ RefMod \in Nat
    BY <1>4, PathSearchAssumption DEF CountsFit
  <2> HIDE DEF u, c, k
  <2>4. u + k + 1 < RefMod
    BY <2>1, <2>2, <2>3
  <2> QED
    BY <2>4 DEF u, k
<1> QED
  BY <1>1, <1>2, <1>3, <1>4

(* rp_path_search_addref.                                                  *)
MayAddref(p, heap, s, t) == CountsFit /\ Fine(p, heap) /\ s \in Slots /\ t \in Slots /\ p[t] = Null

LEMMA AddrefCall ==
  ASSUME NEW p, NEW heap, NEW s, NEW t, MayAddref(p, heap, s, t)
  PROVE  Called(p, heap, [p EXCEPT ![t] = p[s]], addref(heap, p[s]), t, Reads(p, heap, s))
<1> DEFINE x == p[s]
           U == Uses(p)
           after == addref(heap, x)
<1>1. /\ p \in [Slots -> heap.live \cup {Null}] /\ Counted(heap, U) /\ heap.live \subseteq Nodes
      /\ U \in [Nodes -> Nat] /\ Acyclic(heap.node) /\ s \in Slots /\ t \in Slots /\ p[t] = Null
      /\ \A u \in Slots : p[u] # Null => p[u] \in heap.live /\ U[p[u]] > 0
      /\ x # Null => U[x] + Cardinality(Nodes) + 1 < RefMod
      /\ x \in heap.live \cup {Null} /\ Fine(p, heap)
  BY FineIs DEF MayAddref
<1> HIDE DEF x, U
<1>2. /\ Counted(after, Plus(U, x)) /\ after.live = heap.live /\ Common(heap.node, after.node, heap.live)
  BY <1>1, AddrefIs
<1>3. Uses([p EXCEPT ![t] = x]) = Plus(U, x)
  <2>1. Uses([p EXCEPT ![t] = x]) = Plus(Less(U, Null), x)
    BY <1>1, UsesMoved DEF U
  <2> QED
    BY <1>1, <2>1, NullIsNotCounted
<1> HIDE DEF after
<1>4. SameLists(heap, after, U)
  BY <1>1, <1>2, SameAfterMore DEF Preserved
<1>5. Moving(p, heap, t, x, after, U)
  BY <1>1, <1>2, <1>3, <1>4 DEF Moving
<1>6. Called(p, heap, [p EXCEPT ![t] = x], after, t, ListedIn(after.node, x))
  BY <1>5, CallIs
<1>7. ListedIn(after.node, x) = ListedIn(heap.node, x)
  <2>1. Acyclic(after.node)
    BY <1>2 DEF Counted
  <2> QED
    BY <1>1, <1>2, <2>1, CommonLists
<1> QED
  BY <1>6, <1>7 DEF Reads, x, after

(* rp_path_search_unref.                                                   *)
MayRelease(p, heap, s) == Fine(p, heap) /\ s \in Slots

LEMMA UnrefCall ==
  ASSUME NEW p, NEW heap, NEW s, MayRelease(p, heap, s)
  PROVE  Called(p, heap, [p EXCEPT ![s] = Null], unref(heap, p[s]), s, << >>)
<1> DEFINE x == p[s]
           U == Uses(p)
           after == unref(heap, x)
           q == [p EXCEPT ![s] = Null]
           E == Less(U, x)
<1>1. /\ p \in [Slots -> heap.live \cup {Null}] /\ Counted(heap, U) /\ heap.live \subseteq Nodes
      /\ U \in [Nodes -> Nat] /\ s \in Slots /\ Fine(p, heap)
      /\ \A u \in Slots : p[u] # Null => p[u] \in Nodes
      /\ x = Null \/ (x \in heap.live /\ U[x] > 0)
  BY FineIs DEF MayRelease
<1>2. MayUnref(heap, U, x)
  BY <1>1 DEF MayUnref
<1>3. \A u \in Slots \ {s} : q[u] = p[u]
  BY <1>1
<1>4. Uses(q) = Plus(E, Null)
  BY <1>1, UsesMoved
<1>5. E \in [Nodes -> Int]
  BY <1>1 DEF Less
<1>6. Counted(after, E) /\ SameLists(heap, after, E)
  BY <1>2, UnrefIs, SameAfterUnref
<1> HIDE DEF x, U, E, q, after
<1>7. Uses(q) = E
  BY <1>4, <1>5, NullIsNotCounted
<1>8. \A u \in Slots \ {s} : p[u] # Null => E[p[u]] > 0
  <2> SUFFICES ASSUME NEW u \in Slots \ {s}, p[u] # Null PROVE E[p[u]] > 0
    OBVIOUS
  <2>1. q[u] \in Nodes /\ q[u] = p[u]
    BY <1>1, <1>3
  <2>2. Uses(q)[q[u]] > 0
    BY <2>1, UsesAre
  <2> QED
    BY <1>7, <2>1, <2>2
<1>9. Moving(p, heap, s, Null, after, E)
  BY <1>1, <1>5, <1>6, <1>7, <1>8 DEF Moving, q
<1>10. Called(p, heap, q, after, s, ListedIn(after.node, Null))
  BY <1>9, CallIs DEF q
<1>11. ListedIn(after.node, Null) = << >>
  BY <1>6, ListedInIs DEF Counted
<1> QED
  BY <1>10, <1>11 DEF x, q, after

(* rp_path_search_add_dirs: t gets the list of s with directories, or NULL.*)
MayAdd(p, heap, s, t, dirs, before, room) ==
  /\ CountsFit /\ Fine(p, heap) /\ s \in Slots /\ t \in Slots /\ p[t] = Null
  /\ dirs \in Seq(Names) /\ before \in BOOLEAN /\ room \in Nat

AddedTo(p, heap, s, t, dirs, before, w) ==
  /\ Called(p, heap, [p EXCEPT ![t] = w.head], w.heap, t, ListedIn(w.heap.node, w.head))
  /\ \/ ListedIn(w.heap.node, w.head) = << >>
     \/ ListMade(Reads(p, heap, s), ListedIn(w.heap.node, w.head), dirs, before, Len(dirs))

LEMMA AddCall ==
  ASSUME NEW p, NEW heap, NEW s, NEW t, NEW dirs, NEW before, NEW room,
         MayAdd(p, heap, s, t, dirs, before, room)
  PROVE  AddedTo(p, heap, s, t, dirs, before, add_dir_expanded(heap, dirs, before, p[s], room))
<1> DEFINE x == p[s]
           U == Uses(p)
           w == add_dir_expanded(heap, dirs, before, x, room)
<1>1. /\ p \in [Slots -> heap.live \cup {Null}] /\ Counted(heap, U) /\ heap.live \subseteq Nodes
      /\ U \in [Nodes -> Nat] /\ s \in Slots /\ t \in Slots /\ p[t] = Null /\ Fine(p, heap)
      /\ \A u \in Slots : p[u] # Null => p[u] \in heap.live /\ U[p[u]] > 0
      /\ x # Null => U[x] + Cardinality(Nodes) + 1 < RefMod
      /\ x \in heap.live \cup {Null}
  BY FineIs DEF MayAdd
<1> HIDE DEF x, U
<1>2. MayExpand(heap, U, x, dirs, before, room)
  BY <1>1 DEF MayExpand, MayAdd
<1>3. Expanded(heap, U, x, dirs, before, w)
  BY <1>2, ExpandedIs
<1> HIDE DEF w
<1> DEFINE h == w.head
<1>4. Less(U, Null) = U /\ Plus(U, Null) = U
  BY <1>1, NullIsNotCounted
<1>5. Uses([p EXCEPT ![t] = h]) = Plus(U, h)
  <2>1. Uses([p EXCEPT ![t] = h]) = Plus(Less(U, p[t]), h)
    BY <1>1, UsesMoved DEF U
  <2> QED
    BY <1>1, <1>4, <2>1
<1>6. Counted(w.heap, Plus(U, h)) /\ h \in w.heap.live \cup {Null} /\ SameLists(heap, w.heap, U)
  BY <1>3, <1>4 DEF Expanded
<1>7. Moving(p, heap, t, h, w.heap, U)
  BY <1>1, <1>5, <1>6 DEF Moving
<1>8. Called(p, heap, [p EXCEPT ![t] = h], w.heap, t, ListedIn(w.heap.node, h))
  BY <1>7, CallIs
<1>9. ListedIn(w.heap.node, Null) = << >>
  BY <1>6, ListedInIs DEF Counted
<1>10. AddedTo(p, heap, s, t, dirs, before, w)
  BY <1>3, <1>8, <1>9 DEF AddedTo, Expanded, Reads, x
<1> QED
  BY <1>10 DEF w, x
(* rp_path_search_extend_dirs: the list of s becomes the one it derives    *)
(* to, or is kept when memory lacks.                                       *)
MayExtend(p, heap, s, dirs, before, room) ==
  /\ CountsFit /\ Fine(p, heap) /\ s \in Slots
  /\ dirs \in Seq(Names) /\ before \in BOOLEAN /\ room \in Nat

Extended(p, heap, s, dirs, before, w) ==
  IF w.failed THEN Called(p, heap, p, w.heap, s, Reads(p, heap, s))
  ELSE \E l : /\ ListMade(Reads(p, heap, s), l, dirs, before, Len(dirs))
              /\ Called(p, heap, [p EXCEPT ![s] = w.head], unref(w.heap, p[s]), s, l)

LEMMA ExtendCall ==
  ASSUME NEW p, NEW heap, NEW s, NEW dirs, NEW before, NEW room,
         MayExtend(p, heap, s, dirs, before, room)
  PROVE  Extended(p, heap, s, dirs, before, add_dir_expanded(heap, dirs, before, p[s], room))
<1> DEFINE x == p[s]
           U == Uses(p)
           w == add_dir_expanded(heap, dirs, before, x, room)
<1>1. /\ p \in [Slots -> heap.live \cup {Null}] /\ Counted(heap, U) /\ heap.live \subseteq Nodes
      /\ U \in [Nodes -> Nat] /\ s \in Slots /\ Fine(p, heap) /\ Acyclic(heap.node)
      /\ \A u \in Slots : p[u] # Null => p[u] \in heap.live /\ U[p[u]] > 0
      /\ x # Null => U[x] + Cardinality(Nodes) + 1 < RefMod
      /\ x \in heap.live \cup {Null} /\ x # Null => x \in Nodes /\ U[x] > 0
  BY FineIs DEF MayExtend
<1>2. MayExpand(heap, U, x, dirs, before, room)
  BY <1>1 DEF MayExpand, MayExtend
<1>3. Expanded(heap, U, x, dirs, before, w)
  BY <1>2, ExpandedIs
<1> DEFINE h == w.head
           g == w.heap
<1>4. ASSUME w.failed PROVE Extended(p, heap, s, dirs, before, w)
  <2> HIDE DEF w, U
  <2>1. Counted(g, U) /\ SameLists(heap, g, U)
    BY <1>3, <1>4 DEF Expanded
  <2>2. [p EXCEPT ![s] = x] = p
    BY <1>1
  <2>3. x \in g.live \cup {Null} /\ ListedIn(g.node, x) = ListedIn(heap.node, x)
    <3>1. CASE x = Null
      <4>1. ListedIn(g.node, Null) = << >> /\ ListedIn(heap.node, Null) = << >>
        BY <1>1, <2>1, ListedInIs DEF Counted
      <4> QED
        BY <3>1, <4>1
    <3>2. CASE x # Null
      <4>1. x \in Nodes /\ U[x] > 0
        BY <1>1, <3>2
      <4> HIDE DEF x, g
      <4> QED
        BY <2>1, <4>1 DEF SameLists
    <3> QED
      BY <3>1, <3>2
  <2>4. Moving(p, heap, s, x, g, U)
    <3>1. Counted(g, Uses([p EXCEPT ![s] = x]))
      BY <2>1, <2>2 DEF U
    <3>2. U \in [Nodes -> Int] /\ \A u \in Slots \ {s} : p[u] # Null => U[p[u]] > 0
      BY <1>1
    <3> HIDE DEF x, g
    <3> QED
      BY <1>1, <2>1, <2>3, <3>1, <3>2 DEF Moving
  <2>5. Called(p, heap, [p EXCEPT ![s] = x], g, s, ListedIn(g.node, x))
    BY <2>4, CallIs
  <2>6. Called(p, heap, p, g, s, Reads(p, heap, s))
    BY <2>2, <2>3, <2>5 DEF Reads
  <2> QED
    BY <1>4, <2>6 DEF Extended
<1>5. ASSUME ~w.failed PROVE Extended(p, heap, s, dirs, before, w)
  <2> DEFINE q == [p EXCEPT ![s] = h]
             after == unref(g, x)
             E == Less(U, x)
  <2>1. /\ Counted(g, Plus(U, h)) /\ h \in g.live \cup {Null} /\ SameLists(heap, g, U)
        /\ ListMade(ListedIn(heap.node, x), ListedIn(g.node, h), dirs, before, Len(dirs))
    BY <1>3, <1>5 DEF Expanded
  <2>2. /\ Less(Plus(U, h), x) = Plus(E, h)
        /\ \A n \in Nodes : Plus(U, h)[n] \in Nat /\ Plus(U, h)[n] >= U[n]
    BY <1>1, PlusLess
  <2>3. Uses(q) = Plus(E, h)
    BY <1>1, UsesMoved
  <2> HIDE DEF w, U
  <2>4. MayUnref(g, Plus(U, h), x)
    <3>1. CASE x = Null
      BY <2>1, <3>1 DEF MayUnref
    <3>2. CASE x # Null
      <4>1. x \in Nodes /\ U[x] > 0 /\ U[x] \in Nat
        BY <1>1, <3>2
      <4>2. x \in g.live
        <5> HIDE DEF x, g
        <5> QED
          BY <2>1, <4>1 DEF SameLists
      <4>3. Plus(U, h)[x] > 0
        <5> HIDE DEF x, h
        <5> QED
          BY <2>2, <4>1
      <4> QED
        BY <2>1, <4>2, <4>3 DEF MayUnref
    <3> QED
      BY <3>1, <3>2
  <2>5. Counted(after, Uses(q)) /\ SameLists(g, after, Uses(q))
    <3>1. Counted(after, Less(Plus(U, h), x)) /\ SameLists(g, after, Less(Plus(U, h), x))
      BY <2>4, UnrefIs, SameAfterUnref
    <3> QED
      BY <2>2, <2>3, <3>1
  <2>6. /\ E \in [Nodes -> Int]
        /\ \A n \in Nodes : E[n] <= U[n] /\ Plus(E, h)[n] >= E[n]
    <3>1. E \in [Nodes -> Int]
      BY <1>1 DEF Less
    <3>2. \A n \in Nodes : E[n] = (IF n = x THEN U[n] - 1 ELSE U[n]) /\ U[n] \in Nat
      BY <1>1 DEF Less
    <3>3. \A n \in Nodes : Plus(E, h)[n] = IF n = h THEN E[n] + 1 ELSE E[n]
      BY DEF Plus
    <3> HIDE DEF E, x, h
    <3> QED
      BY <3>1, <3>2, <3>3
  <2> HIDE DEF q, after, E, x, g, h
  <2>7. SameLists(heap, after, E)
    <3> SUFFICES ASSUME NEW n \in Nodes, E[n] > 0
                 PROVE  /\ n \in heap.live /\ n \in after.live
                        /\ ListedIn(after.node, n) = ListedIn(heap.node, n)
      BY DEF SameLists
    <3>1. U[n] > 0 /\ Plus(E, h)[n] > 0
      <4>1. E[n] \in Int /\ U[n] \in Nat /\ E[n] <= U[n] /\ Plus(E, h)[n] >= E[n]
        BY <1>1, <2>6
      <4>2. Plus(E, h)[n] \in Int
        BY <2>6 DEF Plus
      <4> QED
        BY <4>1, <4>2
    <3>2. Uses(q)[n] > 0
      BY <2>3, <3>1
    <3>3. n \in heap.live /\ ListedIn(g.node, n) = ListedIn(heap.node, n)
      BY <2>1, <3>1 DEF SameLists
    <3>4. n \in after.live /\ ListedIn(after.node, n) = ListedIn(g.node, n)
      BY <2>5, <3>2 DEF SameLists
    <3> QED
      BY <3>3, <3>4
  <2>8. \A u \in Slots \ {s} : p[u] # Null => E[p[u]] > 0
    <3> SUFFICES ASSUME NEW u \in Slots \ {s}, p[u] # Null PROVE E[p[u]] > 0
      OBVIOUS
    <3> DEFINE r == [p EXCEPT ![s] = Null]
    <3>1. r[u] = p[u] /\ p[u] \in Nodes
      BY <1>1
    <3>2. Uses(r) = Plus(Less(U, x), Null)
      BY <1>1, UsesMoved DEF U, x
    <3> HIDE DEF r
    <3>3. Uses(r) = E
      BY <2>6, <3>2, NullIsNotCounted DEF E
    <3>4. Uses(r)[r[u]] > 0
      BY <3>1, UsesAre
    <3> QED
      BY <3>1, <3>3, <3>4
  <2>9. h \in after.live \cup {Null} /\ ListedIn(after.node, h) = ListedIn(g.node, h)
    <3>1. CASE h = Null
      <4>1. ListedIn(g.node, Null) = << >> /\ ListedIn(after.node, Null) = << >>
        BY <2>1, <2>5, ListedInIs DEF Counted
      <4> QED
        BY <3>1, <4>1
    <3>2. CASE h # Null
      <4>1. h \in Nodes
        BY <2>1, <3>2 DEF Counted, HeapRec
      <4>2. q[s] = h
        BY <1>1 DEF q
      <4>3. Uses(q)[h] > 0
        BY <1>1, <4>1, <4>2, UsesAre
      <4> QED
        BY <2>5, <4>1, <4>3 DEF SameLists
    <3> QED
      BY <3>1, <3>2
  <2>10. Moving(p, heap, s, h, after, E)
    BY <1>1, <2>5, <2>6, <2>7, <2>8, <2>9 DEF Moving, q
  <2>11. Called(p, heap, q, after, s, ListedIn(after.node, h))
    BY <2>10, CallIs DEF q
  <2>12. Called(p, heap, q, after, s, ListedIn(g.node, h))
    BY <2>9, <2>11
  <2> QED
    BY <1>5, <2>1, <2>12 DEF Extended, Reads, q, after, x, g, h
<1>6. w.failed \/ ~w.failed
  OBVIOUS
<1> QED
  BY <1>4, <1>5, <1>6 DEF w, x
-----------------------------------------------------------------------------
(* The counts are exact.                                                   *)

(* The inductive invariant.                                                *)
PathInv == Fine(paths, Heap)

LEMMA PathInvInit ==
  ASSUME PathInit
  PROVE  PathInv
<1>1. /\ Null \notin Nodes /\ RefMod \in Nat \ {0, 1}
      /\ paths = [s \in Slots |-> Null] /\ node = [n \in Nodes |-> NoNode] /\ live = {}
  BY PathSearchAssumption DEF PathInit
<1>2. NoNode \in NodeRec /\ NoNode.parent = Null
  BY <1>1 DEF NoNode, Node, NodeRec, Pointer
<1>3. node \in [Nodes -> NodeRec] /\ \A n \in Nodes : node[n] = NoNode
  BY <1>1, <1>2
<1>4. Acyclic(node)
  <2> DEFINE r == [m \in Pointer |-> IF m = Null THEN 0 ELSE 1]
  <2>1. r \in [Pointer -> 0 .. 1]
    OBVIOUS
  <2>2. \A n \in Nodes : r[Null] < r[n] /\ r[node[n].parent] < r[n]
    BY <1>1, <1>2, <1>3 DEF Pointer
  <2> HIDE DEF r
  <2>3. Ranked(node, 1, r)
    BY <2>1, <2>2 DEF Ranked
  <2> QED
    BY <1>3, <2>3 DEF Acyclic
<1>5. Heap \in HeapRec /\ Heap.node = node /\ Heap.live = {}
  BY <1>1, <1>3 DEF Heap, HeapRec
<1>6. \A n \in Nodes : Uses(paths)[n] = 0
  <2> SUFFICES ASSUME NEW n \in Nodes PROVE Uses(paths)[n] = 0
    OBVIOUS
  <2>1. Uses(paths)[n] = Cardinality({s \in Slots : paths[s] = n})
    BY UsesAre
  <2>2. {s \in Slots : paths[s] = n} = {}
    BY <1>1
  <2> QED
    BY <2>1, <2>2, FS_EmptySet
<1>7. Uses(paths) \in [Nodes -> Nat]
  BY UsesAre
<1>8. Counted(Heap, Uses(paths))
  BY <1>3, <1>4, <1>5, <1>6, <1>7 DEF Counted
<1>9. paths \in [Slots -> Heap.live \cup {Null}]
  BY <1>1
<1> QED
  BY <1>8, <1>9 DEF PathInv, Fine

(* What a step of a client does: the lists of the others are the same, and *)
(* its own one is emptied, kept, copied from one or made of one.           *)
Derives(t) ==
  \/ Reads(paths, Heap, t)' = << >>
  \/ Reads(paths, Heap, t)' = Reads(paths, Heap, t)
  \/ \E s \in Slots :
       /\ paths[t] = Null \/ s = t
       /\ \/ Reads(paths, Heap, t)' = Reads(paths, Heap, s)
          \/ \E dirs \in DirSeqs, before \in BOOLEAN :
               ListMade(Reads(paths, Heap, s), Reads(paths, Heap, t)', dirs, before, Len(dirs))

PathStep ==
  /\ PathInv'
  /\ \E t \in Slots :
       /\ \A u \in Slots \ {t} : Reads(paths, Heap, u)' = Reads(paths, Heap, u)
       /\ Derives(t)

(* A call whose result is the next state.                                  *)
LEMMA CallStep ==
  ASSUME NEW after, NEW q, NEW t \in Slots, NEW l,
         Called(paths, Heap, q, after, t, l), Becomes(after), paths' = q
  PROVE  /\ PathInv' /\ Reads(paths, Heap, t)' = l
         /\ \A u \in Slots \ {t} : Reads(paths, Heap, u)' = Reads(paths, Heap, u)
<1>1. after \in HeapRec
  BY DEF Called, Fine, Counted
<1>2. after = [node |-> after.node, live |-> after.live]
  BY <1>1 DEF HeapRec
<1>3. Heap' = after
  BY <1>2 DEF Heap, Becomes
<1>4. PathInv'
  BY <1>3 DEF PathInv, Called
<1>5. Reads(paths, Heap, t)' = l
  BY <1>3 DEF Reads, Called
<1>6. \A u \in Slots \ {t} : Reads(paths, Heap, u)' = Reads(paths, Heap, u)
  <2> SUFFICES ASSUME NEW u \in Slots \ {t} PROVE Reads(paths, Heap, u)' = Reads(paths, Heap, u)
    OBVIOUS
  <2>1. Reads(q, after, u) = Reads(paths, Heap, u)
    BY DEF Called
  <2> QED
    BY <1>3, <2>1 DEF Reads
<1> QED
  BY <1>4, <1>5, <1>6

LEMMA PathInvNext ==
  ASSUME CountsFit, PathInv, [PathNext]_pathVars
  PROVE  PathInv' /\ (PathNext => PathStep)
<1>1. ASSUME NEW s \in Slots, rp_path_search_unref(s) PROVE PathStep
  <2>1. MayRelease(paths, Heap, s)
    BY DEF MayRelease, PathInv
  <2>2. Called(paths, Heap, [paths EXCEPT ![s] = Null], unref(Heap, paths[s]), s, << >>)
    BY <2>1, UnrefCall
  <2>3. /\ PathInv' /\ Reads(paths, Heap, s)' = << >>
        /\ \A u \in Slots \ {s} : Reads(paths, Heap, u)' = Reads(paths, Heap, u)
    BY <1>1, <2>2, CallStep DEF rp_path_search_unref
  <2> QED
    BY <2>3 DEF PathStep, Derives
<1>2. ASSUME NEW s \in Slots, NEW t \in Slots, rp_path_search_addref(s, t) PROVE PathStep
  <2>1. MayAddref(paths, Heap, s, t)
    BY <1>2 DEF MayAddref, PathInv, rp_path_search_addref
  <2>2. Called(paths, Heap, [paths EXCEPT ![t] = paths[s]], addref(Heap, paths[s]), t, Reads(paths, Heap, s))
    BY <2>1, AddrefCall
  <2>3. /\ Becomes(addref(Heap, paths[s])) /\ paths' = [paths EXCEPT ![t] = paths[s]]
        /\ paths[t] = Null
    BY <1>2 DEF rp_path_search_addref
  <2>4. /\ PathInv' /\ Reads(paths, Heap, t)' = Reads(paths, Heap, s)
        /\ \A u \in Slots \ {t} : Reads(paths, Heap, u)' = Reads(paths, Heap, u)
    BY <2>2, <2>3, CallStep, Zenon
  <2> QED
    BY <2>3, <2>4 DEF PathStep, Derives
<1>3. ASSUME NEW dirs \in DirSeqs, NEW room \in 0 .. Len(dirs)
      PROVE  dirs \in Seq(Names) /\ room \in Nat
  BY PathSearchAssumption DEF Names
<1>4. ASSUME NEW s \in Slots, NEW t \in Slots, NEW dirs \in DirSeqs, NEW before \in BOOLEAN,
             rp_path_search_add_dirs(s, t, dirs, before)
      PROVE  PathStep
  <2>1. PICK room \in 0 .. Len(dirs) :
          LET w == add_dir_expanded(Heap, dirs, before, paths[s], room)
          IN Becomes(w.heap) /\ paths' = [paths EXCEPT ![t] = w.head]
    BY <1>4 DEF rp_path_search_add_dirs
  <2> DEFINE w == add_dir_expanded(Heap, dirs, before, paths[s], room)
  <2>2. Becomes(w.heap) /\ paths' = [paths EXCEPT ![t] = w.head] /\ paths[t] = Null
    BY <1>4, <2>1 DEF rp_path_search_add_dirs
  <2>3. MayAdd(paths, Heap, s, t, dirs, before, room)
    BY <1>3, <2>2 DEF MayAdd, PathInv
  <2>4. AddedTo(paths, Heap, s, t, dirs, before, w)
    BY <2>3, AddCall
  <2> HIDE DEF w
  <2> DEFINE l == ListedIn(w.heap.node, w.head)
  <2>5. /\ Called(paths, Heap, [paths EXCEPT ![t] = w.head], w.heap, t, l)
        /\ l = << >> \/ ListMade(Reads(paths, Heap, s), l, dirs, before, Len(dirs))
    BY <2>4 DEF AddedTo
  <2> HIDE DEF l
  <2>6. /\ PathInv' /\ Reads(paths, Heap, t)' = l
        /\ \A u \in Slots \ {t} : Reads(paths, Heap, u)' = Reads(paths, Heap, u)
    BY <2>2, <2>5, CallStep
  <2> QED
    BY <2>2, <2>5, <2>6 DEF PathStep, Derives
<1>5. ASSUME NEW s \in Slots, NEW dirs \in DirSeqs, NEW before \in BOOLEAN,
             rp_path_search_extend_dirs(s, dirs, before)
      PROVE  PathStep
  <2>1. PICK room \in 0 .. Len(dirs) :
          LET w == add_dir_expanded(Heap, dirs, before, paths[s], room)
          IN IF ~w.failed
             THEN Becomes(unref(w.heap, paths[s])) /\ paths' = [paths EXCEPT ![s] = w.head]
             ELSE Becomes(w.heap) /\ UNCHANGED paths
    BY <1>5 DEF rp_path_search_extend_dirs
  <2> DEFINE w == add_dir_expanded(Heap, dirs, before, paths[s], room)
  <2>2. IF ~w.failed
        THEN Becomes(unref(w.heap, paths[s])) /\ paths' = [paths EXCEPT ![s] = w.head]
        ELSE Becomes(w.heap) /\ UNCHANGED paths
    BY <2>1
  <2>3. MayExtend(paths, Heap, s, dirs, before, room)
    BY <1>3 DEF MayExtend, PathInv
  <2>4. Extended(paths, Heap, s, dirs, before, w)
    BY <2>3, ExtendCall
  <2> HIDE DEF w
  <2>5. CASE w.failed
    <3>1. Called(paths, Heap, paths, w.heap, s, Reads(paths, Heap, s))
      BY <2>4, <2>5 DEF Extended
    <3>2. Becomes(w.heap) /\ paths' = paths
      BY <2>2, <2>5
    <3>3. /\ PathInv' /\ Reads(paths, Heap, s)' = Reads(paths, Heap, s)
          /\ \A u \in Slots \ {s} : Reads(paths, Heap, u)' = Reads(paths, Heap, u)
      BY <3>1, <3>2, CallStep
    <3> QED
      BY <3>3 DEF PathStep, Derives
  <2>6. CASE ~w.failed
    <3>1. PICK l : /\ ListMade(Reads(paths, Heap, s), l, dirs, before, Len(dirs))
                   /\ Called(paths, Heap, [paths EXCEPT ![s] = w.head], unref(w.heap, paths[s]), s, l)
      BY <2>4, <2>6 DEF Extended
    <3>2. Becomes(unref(w.heap, paths[s])) /\ paths' = [paths EXCEPT ![s] = w.head]
      BY <2>2, <2>6
    <3>3. /\ PathInv' /\ Reads(paths, Heap, s)' = l
          /\ \A u \in Slots \ {s} : Reads(paths, Heap, u)' = Reads(paths, Heap, u)
      BY <3>1, <3>2, CallStep
    <3> QED
      BY <3>1, <3>3 DEF PathStep, Derives
  <2> QED
    BY <2>5, <2>6
<1>6. ASSUME PathNext PROVE PathStep
  BY <1>1, <1>2, <1>4, <1>5, <1>6 DEF PathNext
<1>7. ASSUME UNCHANGED pathVars PROVE PathInv'
  BY <1>7 DEF pathVars, PathInv, Heap
<1> QED
  BY <1>6, <1>7 DEF PathStep

(* What the counts of nodes say, from the invariant.                       *)
LEMMA PathInvCounts ==
  ASSUME PathInv
  PROVE  CountsAreExact
<1>1. /\ paths \in [Slots -> live \cup {Null}] /\ Counted(Heap, Uses(paths)) /\ live \subseteq Nodes
      /\ Heap.live = live /\ Heap.node = node
  BY FineIs DEF PathInv, Heap
<1>2. ASSUME NEW n \in live
      PROVE  /\ node[n].parent \in live \cup {Null}
             /\ node[n].refcount = Cardinality({s \in Slots : paths[s] = n})
                                 + Cardinality({m \in live : node[m].parent = n})
             /\ node[n].refcount # 0
  <2>1. /\ node[n].parent \in live \cup {Null} /\ node[n].refcount # 0
        /\ node[n].refcount = Uses(paths)[n] + Cardinality(Preds(Heap, n))
    BY <1>1 DEF Counted
  <2>2. Uses(paths)[n] = Cardinality({s \in Slots : paths[s] = n})
    BY <1>1, UsesAre
  <2>3. Preds(Heap, n) = {m \in live : node[m].parent = n}
    BY <1>1 DEF Preds
  <2> QED
    BY <2>1, <2>2, <2>3
<1> QED
  BY <1>1, <1>2 DEF CountsAreExact, PointersAreLive, CountsOfNodes

(* The count of a node is the number of clients and of nodes that point to *)
(* it, and what they point to is allocated, after any calls and any lack   *)
(* of memory, as long as no count can reach the end of an unsigned short.  *)
THEOREM CountsCorrect ==
  ASSUME CountsFit
  PROVE  PathSpec => []CountsAreExact
<1>1. PathInit => PathInv
  BY PathInvInit
<1>2. PathInv /\ [PathNext]_pathVars => PathInv'
  BY PathInvNext
<1>3. PathInv => CountsAreExact
  BY PathInvCounts
<1> QED
  BY <1>1, <1>2, <1>3, PTL DEF PathSpec
(* The elements of two lists put one after the other.                      *)
LEMMA ToSetBoth ==
  ASSUME NEW S, NEW s \in Seq(S), NEW t \in Seq(S)
  PROVE  ToSet(s \o t) = ToSet(s) \cup ToSet(t)
<1>1. /\ s \o t \in Seq(S) /\ Len(s \o t) = Len(s) + Len(t) /\ Len(s) \in Nat /\ Len(t) \in Nat
      /\ \A i \in 1 .. Len(s) : (s \o t)[i] = s[i]
      /\ \A i \in (Len(s) + 1) .. (Len(s) + Len(t)) : (s \o t)[i] = t[i - Len(s)]
  BY ConcatIs
<1> DEFINE u == s \o t
<1>2. /\ ToSet(s) = {s[i] : i \in 1 .. Len(s)} /\ ToSet(t) = {t[i] : i \in 1 .. Len(t)}
      /\ ToSet(u) = {u[i] : i \in 1 .. Len(u)}
  <2>1. DOMAIN s = 1 .. Len(s) /\ DOMAIN t = 1 .. Len(t) /\ DOMAIN u = 1 .. Len(u)
    BY <1>1
  <2> HIDE DEF u
  <2> QED
    BY <2>1 DEF ToSet
<1> HIDE DEF u
<1>3. ASSUME NEW i \in 1 .. Len(u) PROVE u[i] \in ToSet(s) \cup ToSet(t)
  <2>1. CASE i <= Len(s)
    BY <1>1, <1>2, <2>1 DEF u
  <2>2. CASE i > Len(s)
    <3>1. i - Len(s) \in 1 .. Len(t) /\ i \in (Len(s) + 1) .. (Len(s) + Len(t))
      BY <1>1, <2>2 DEF u
    <3>2. u[i] = t[i - Len(s)]
      BY <1>1, <3>1 DEF u
    <3> QED
      BY <1>2, <3>1, <3>2
  <2> QED
    BY <1>1, <2>1, <2>2
<1>4. ASSUME NEW i \in 1 .. Len(s) PROVE s[i] \in ToSet(u)
  <2>1. i \in 1 .. Len(u) /\ u[i] = s[i]
    BY <1>1 DEF u
  <2> QED
    BY <1>2, <2>1
<1>5. ASSUME NEW i \in 1 .. Len(t) PROVE t[i] \in ToSet(u)
  <2>1. i + Len(s) \in 1 .. Len(u) /\ i + Len(s) \in (Len(s) + 1) .. (Len(s) + Len(t)) /\ (i + Len(s)) - Len(s) = i
    BY <1>1 DEF u
  <2>2. u[i + Len(s)] = t[i]
    BY <1>1, <2>1 DEF u
  <2> QED
    BY <1>2, <2>1, <2>2
<1>6. ToSet(u) \subseteq ToSet(s) \cup ToSet(t)
  BY <1>2, <1>3
<1>7. ToSet(s) \subseteq ToSet(u) /\ ToSet(t) \subseteq ToSet(u)
  BY <1>2, <1>4, <1>5
<1> QED
  BY <1>6, <1>7 DEF u

-----------------------------------------------------------------------------
(* The sequences of DirLists.                                              *)

(* What make has added to the list l, in the words of DirLists: c is the   *)
(* text of directories without its empty items.                            *)
PartIn(l, more, dirs, before, part, pick) ==
  /\ l \in Seq(Names) /\ dirs \in Seq(Names) /\ before \in BOOLEAN
  /\ PartOf(l, more, dirs, before, Len(dirs), part, pick)

Clean(dirs) == Without(dirs, {Empty})

PartTaken(l, more, dirs, part) ==
  /\ Len(part) \in 0 .. Len(Clean(dirs)) /\ ToSet(more) = ToSet(l) \cup ToSet(Clean(dirs))
  /\ DL!TakenFrom(part, Clean(dirs))

LEMMA PartIsTaken ==
  ASSUME NEW l, NEW more, NEW dirs, NEW before, NEW part, NEW pick,
         PartIn(l, more, dirs, before, part, pick)
  PROVE  PartTaken(l, more, dirs, part)
<1> DEFINE c == Clean(dirs)
           n == Len(dirs)
           k == Len(part)
<1>1. /\ l \in Seq(Names) /\ dirs \in Seq(Names) /\ n \in Nat /\ k \in Nat /\ part \in Seq(Names)
      /\ more = IF before THEN part \o l ELSE l \o part
      /\ \A i, j \in 1 .. k : i < j => pick[i] < pick[j]
      /\ \A i \in 1 .. k : part[i] = dirs[pick[i]] /\ part[i] # Empty
  BY DEF PartIn, PartOf
<1>2. Places(dirs, before, n) = 1 .. n
  BY <1>1 DEF Places, PartIn
<1>3. /\ pick \in [1 .. k -> 1 .. n]
      /\ \A j \in 1 .. n : dirs[j] = Empty \/ dirs[j] \in ToSet(more)
  BY <1>2 DEF PartIn, PartOf
<1>4. c \in Seq(Names)
  BY <1>1, WithoutKeeps DEF Clean
<1>5. PICK m : Keeps(dirs, {Empty}, n, c, m)
  BY <1>1, WithoutKeeps DEF Clean
<1> HIDE DEF c, n, k
<1>6. /\ m \in [1 .. Len(c) -> 1 .. n] /\ Len(c) \in Nat
      /\ \A i \in 1 .. Len(c) : c[i] = dirs[m[i]] /\ dirs[m[i]] # Empty
      /\ \A i, j \in 1 .. Len(c) : i < j => m[i] < m[j]
      /\ \A j \in 1 .. n : dirs[j] # Empty => \E i \in 1 .. Len(c) : m[i] = j
  BY <1>4, <1>5 DEF Keeps
<1> DEFINE r == [i \in 1 .. k |-> CHOOSE q \in 1 .. Len(c) : m[q] = pick[i]]
<1>7. ASSUME NEW i \in 1 .. k PROVE r[i] \in 1 .. Len(c) /\ m[r[i]] = pick[i]
  <2>1. pick[i] \in 1 .. n /\ dirs[pick[i]] # Empty
    BY <1>1, <1>3
  <2>2. \E q \in 1 .. Len(c) : m[q] = pick[i]
    BY <1>6, <2>1
  <2>3. r[i] = CHOOSE q \in 1 .. Len(c) : m[q] = pick[i]
    OBVIOUS
  <2> HIDE DEF r
  <2> QED
    BY <2>2, <2>3
<1>8. r \in [1 .. k -> 1 .. Len(c)]
  BY <1>7
<1> HIDE DEF r
<1>9. \A i \in 1 .. k : c[r[i]] = part[i]
  <2> SUFFICES ASSUME NEW i \in 1 .. k PROVE c[r[i]] = part[i]
    OBVIOUS
  <2>1. r[i] \in 1 .. Len(c) /\ m[r[i]] = pick[i]
    BY <1>7
  <2>2. c[r[i]] = dirs[m[r[i]]]
    BY <1>6, <2>1
  <2>3. part[i] = dirs[pick[i]]
    BY <1>1
  <2> QED
    BY <2>1, <2>2, <2>3
<1>10. ASSUME NEW i \in 1 .. k, NEW j \in 1 .. k, i < j PROVE r[i] < r[j]
  <2>1. pick[i] < pick[j] /\ pick[i] \in 1 .. n /\ pick[j] \in 1 .. n
    BY <1>1, <1>3, <1>10
  <2> DEFINE a == r[i]
             b == r[j]
  <2>2. a \in 1 .. Len(c) /\ b \in 1 .. Len(c) /\ m[a] = pick[i] /\ m[b] = pick[j]
    BY <1>7
  <2> HIDE DEF a, b
  <2>3. b < a => m[b] < m[a]
    BY <1>6, <2>2
  <2>4. a # b
    BY <1>6, <2>1, <2>2
  <2>5. ~(b < a)
    <3> DEFINE x == m[a]
               y == m[b]
    <3>1. x < y /\ x \in Int /\ y \in Int /\ (b < a => y < x)
      BY <1>6, <2>1, <2>2, <2>3
    <3> HIDE DEF x, y
    <3> QED
      BY <3>1
  <2>6. a < b
    BY <1>6, <2>2, <2>4, <2>5
  <2> QED
    BY <2>6 DEF a, b
<1>11. k \in 0 .. Len(c)
  <2> DEFINE S == {i \in 0 .. k : i = 0 \/ i <= r[i]}
  <2>1. 0 \in S
    BY <1>1 DEF k
  <2>2. ASSUME NEW i \in 1 .. k, i - 1 \in S PROVE i \in S
    <3>1. CASE i = 1
      <4>1. r[1] \in 1 .. Len(c)
        BY <1>8, <3>1
      <4> QED
        BY <1>6, <3>1, <4>1
    <3>2. CASE i # 1
      <4> DEFINE a == r[i - 1]
                 b == r[i]
      <4>1. i - 1 \in 1 .. k /\ i - 1 < i /\ i - 1 # 0
        BY <1>1, <3>2 DEF k
      <4>2. a < b
        BY <1>10, <4>1
      <4>3. i - 1 <= a /\ a \in 1 .. Len(c) /\ b \in 1 .. Len(c)
        BY <1>8, <2>2, <4>1
      <4> HIDE DEF a, b
      <4>4. i <= b
        BY <1>6, <4>2, <4>3
      <4> QED
        BY <4>4 DEF b
    <3> QED
      BY <3>1, <3>2
  <2>3. k \in Nat
    BY <1>1 DEF k
  <2> HIDE DEF S
  <2>4. 0 .. k \subseteq S
    <3>1. \A i \in 1 .. k : i - 1 \in S => i \in S
      BY <2>2
    <3> QED
      BY <2>1, <2>3, <3>1, UpTo
  <2>5. k \in S
    BY <2>3, <2>4
  <2>6. k = 0 \/ k <= r[k]
    BY <2>5 DEF S
  <2>7. CASE k = 0
    BY <1>6, <2>7
  <2>8. CASE k # 0
    <3> DEFINE b == r[k]
    <3>1. b \in 1 .. Len(c) /\ k <= b
      BY <1>8, <2>3, <2>6, <2>8
    <3> HIDE DEF b
    <3> QED
      BY <1>6, <2>3, <3>1
  <2> QED
    BY <2>7, <2>8
<1>12. ToSet(more) = ToSet(part) \cup ToSet(l)
  BY <1>1, ToSetBoth
<1>13. ToSet(part) = {part[i] : i \in 1 .. k} /\ ToSet(c) = {c[i] : i \in 1 .. Len(c)}
  BY <1>1, <1>4 DEF ToSet, k
<1>14. ToSet(part) \subseteq ToSet(c)
  <2>1. \A i \in 1 .. k : \E q \in 1 .. Len(c) : part[i] = c[q]
    BY <1>8, <1>9
  <2> QED
    BY <1>13, <2>1
<1>15. ToSet(c) \subseteq ToSet(more)
  <2>1. \A i \in 1 .. Len(c) : m[i] \in 1 .. n /\ c[i] = dirs[m[i]] /\ dirs[m[i]] # Empty
    BY <1>6
  <2>2. \A i \in 1 .. Len(c) : c[i] \in ToSet(more)
    BY <1>3, <2>1
  <2> QED
    BY <1>13, <2>2
<1>16. ToSet(more) = ToSet(l) \cup ToSet(c)
  BY <1>12, <1>14, <1>15
<1>17. DL!TakenFrom(part, c)
  <2>1. DOMAIN part = 1 .. k /\ DOMAIN c = 1 .. Len(c)
    BY <1>1, <1>4 DEF k
  <2>2. r \in [DOMAIN part -> DOMAIN c]
    BY <1>8, <2>1
  <2>3. \A i, j \in DOMAIN part : i < j => r[i] < r[j]
    BY <1>10, <2>1
  <2>4. \A i \in DOMAIN part : part[i] = c[r[i]]
    BY <1>9, <2>1
  <2> QED
    BY <2>2, <2>3, <2>4 DEF DL!TakenFrom
<1> QED
  BY <1>11, <1>16, <1>17 DEF PartTaken, c, k
(* The two parts of a list made of two lists.                              *)
LEMMA ConcatParts ==
  ASSUME NEW S, NEW s \in Seq(S), NEW t \in Seq(S)
  PROVE  /\ Len(s \o t) = Len(s) + Len(t) /\ Len(s) \in Nat /\ Len(t) \in Nat
         /\ SubSeq(s \o t, 1, Len(s)) = s
         /\ SubSeq(s \o t, Len(s) + 1, Len(s \o t)) = t
<1> DEFINE j == Len(s)
           k == Len(t)
           w == s \o t
<1>1. /\ w \in Seq(S) /\ Len(w) = j + k /\ k \in Nat /\ j \in Nat
      /\ \A i \in 1 .. j : w[i] = s[i]
      /\ \A i \in (j + 1) .. (j + k) : w[i] = t[i - j]
  BY ConcatIs
<1> HIDE DEF k, j, w
<1>2. SubSeq(w, 1, j) = s
  <2> DEFINE u == SubSeq(w, 1, j)
  <2>1. 1 \in Nat /\ 1 <= 1 /\ 1 <= j + 1 /\ j <= Len(w) /\ j + 1 - 1 = j
    BY <1>1
  <2>2. /\ u \in Seq(S) /\ Len(u) = j + 1 - 1
        /\ \A i \in 1 .. (j + 1 - 1) : u[i] = w[1 + i - 1]
    BY <1>1, <2>1, SubSeqIs
  <2> HIDE DEF u
  <2>3. \A i \in 1 .. j : u[i] = s[i]
    <3> SUFFICES ASSUME NEW i \in 1 .. j PROVE u[i] = s[i]
      OBVIOUS
    <3>1. 1 + i - 1 = i /\ i \in 1 .. (j + 1 - 1)
      BY <1>1
    <3> QED
      BY <1>1, <2>2, <3>1
  <2>4. Len(u) = Len(s)
    BY <2>1, <2>2 DEF j
  <2>5. u = s
    BY <2>2, <2>3, <2>4, SameSeq DEF j
  <2> QED
    BY <2>5 DEF u
<1>3. SubSeq(w, j + 1, Len(w)) = t
  <2> DEFINE a == j + 1
             b == Len(w)
             u == SubSeq(w, a, b)
  <2>1. a \in Nat /\ b \in Nat /\ 1 <= a /\ a <= b + 1 /\ b <= Len(w) /\ b + 1 - a = k
    BY <1>1
  <2>2. \A i \in 1 .. k : a + i - 1 \in (j + 1) .. (j + k) /\ (a + i - 1) - j = i
    BY <1>1
  <2> HIDE DEF a, b
  <2>3. /\ u \in Seq(S) /\ Len(u) = b + 1 - a
        /\ \A i \in 1 .. (b + 1 - a) : u[i] = w[a + i - 1]
    BY <1>1, <2>1, SubSeqIs
  <2> HIDE DEF u
  <2>4. \A i \in 1 .. k : u[i] = t[i]
    <3> SUFFICES ASSUME NEW i \in 1 .. k PROVE u[i] = t[i]
      OBVIOUS
    <3>1. u[i] = w[a + i - 1]
      BY <2>1, <2>3
    <3>2. w[a + i - 1] = t[(a + i - 1) - j]
      BY <1>1, <2>2
    <3> QED
      BY <2>2, <3>1, <3>2
  <2>5. Len(u) = Len(t)
    BY <2>1, <2>3 DEF k
  <2>6. u = t
    BY <2>3, <2>4, <2>5, SameSeq DEF k
  <2> QED
    BY <2>6 DEF u, a, b
<1> QED
  BY <1>1, <1>2, <1>3 DEF j, k, w

(* What is made of a list by prepending and by appending.                  *)
Making(l, more, dirs, before) ==
  /\ l \in Seq(Names) /\ dirs \in Seq(Names) /\ before \in BOOLEAN
  /\ ListMade(l, more, dirs, before, Len(dirs))

LEMMA MadeIsAdded ==
  ASSUME NEW l, NEW more, NEW dirs, NEW before, Making(l, more, dirs, before)
  PROVE  IF before THEN DL!Prepends(l, more, Clean(dirs)) ELSE DL!Appends(l, more, Clean(dirs))
<1>1. PICK part, pick : PartOf(l, more, dirs, before, Len(dirs), part, pick)
  BY DEF Making, ListMade
<1>2. PartIn(l, more, dirs, before, part, pick)
  BY <1>1 DEF Making, PartIn
<1>3. PartTaken(l, more, dirs, part)
  BY <1>2, PartIsTaken
<1> DEFINE k == Len(part)
           added == Len(more) - Len(l)
<1>4. /\ k \in 0 .. Len(Clean(dirs)) /\ ToSet(more) = ToSet(l) \cup ToSet(Clean(dirs))
      /\ DL!TakenFrom(part, Clean(dirs))
  BY <1>3 DEF PartTaken
<1>5. /\ more = (IF before THEN part \o l ELSE l \o part) /\ part \in Seq(Names) /\ l \in Seq(Names)
      /\ ~before => Cardinality(ToSet(part) \ ToSet(l)) = Len(part)
  BY <1>1 DEF PartOf, Making
<1>6. ASSUME before PROVE DL!Prepends(l, more, Clean(dirs))
  <2>1. added = k /\ SubSeq(more, 1, k) = part /\ SubSeq(more, k + 1, Len(more)) = l
    <3>1. /\ Len(more) = k + Len(l) /\ k \in Nat /\ Len(l) \in Nat
          /\ SubSeq(more, 1, k) = part /\ SubSeq(more, k + 1, Len(more)) = l
      BY <1>5, <1>6, ConcatParts
    <3> HIDE DEF k
    <3> QED
      BY <3>1
  <2> HIDE DEF k, added
  <2>2. /\ added \in 0 .. Len(Clean(dirs)) /\ SubSeq(more, added + 1, Len(more)) = l
        /\ ToSet(more) = ToSet(l) \cup ToSet(Clean(dirs))
        /\ DL!TakenFrom(SubSeq(more, 1, added), Clean(dirs))
    BY <1>4, <2>1, Zenon
  <2> QED
    BY <2>2, Zenon DEF DL!Prepends, DL!ToSet, ToSet, added
<1>7. ASSUME ~before PROVE DL!Appends(l, more, Clean(dirs))
  <2>1. added = k /\ SubSeq(more, 1, Len(l)) = l /\ SubSeq(more, Len(l) + 1, Len(more)) = part
    <3>1. /\ Len(more) = Len(l) + k /\ k \in Nat /\ Len(l) \in Nat
          /\ SubSeq(more, 1, Len(l)) = l /\ SubSeq(more, Len(l) + 1, Len(more)) = part
      BY <1>5, <1>7, ConcatParts
    <3> HIDE DEF k
    <3> QED
      BY <3>1
  <2>2. Cardinality(ToSet(part) \ ToSet(l)) = k
    BY <1>5, <1>7
  <2> HIDE DEF k, added
  <2>3. /\ added \in 0 .. Len(Clean(dirs)) /\ SubSeq(more, 1, Len(l)) = l
        /\ ToSet(more) = ToSet(l) \cup ToSet(Clean(dirs))
        /\ Cardinality(ToSet(SubSeq(more, Len(l) + 1, Len(more))) \ ToSet(l)) = added
        /\ DL!TakenFrom(SubSeq(more, Len(l) + 1, Len(more)), Clean(dirs))
    BY <1>4, <2>1, <2>2, Zenon
  <2> QED
    BY <2>3, Zenon DEF DL!Appends, DL!ToSet, ToSet, DL!Cardinality, Cardinality, added
<1> QED
  BY <1>6, <1>7

(* What a client lists is what its pointer designates.                     *)
LEMMA ListedIsReads ==
  \A s : Listed(paths[s]) = Reads(paths, Heap, s)
BY DEF Listed, ListedIn, Reads, Heap

(* Each client has the list of DirLists that rp_path_search_list reads, so *)
(* a call is a step of DirLists, or changes no list.                       *)
LEMMA StepIsDirLists ==
  ASSUME PathInv, PathStep
  PROVE  DL!Next
<1> DEFINE L == [s \in Slots |-> Listed(paths[s])]
           R(s) == Reads(paths, Heap, s)
<1>0. ASSUME NEW s PROVE Listed(paths[s])' = Reads(paths, Heap, s)'
  BY DEF Listed, ListedIn, Reads, Heap
<1>1. \A s \in Slots : L[s] = R(s)
  BY ListedIsReads
<1>2. \A s \in Slots : L'[s] = R(s)'
  BY <1>0
<1>3. DOMAIN L' = Slots
  OBVIOUS
<1>4. PICK t \in Slots : (\A u \in Slots \ {t} : R(u)' = R(u)) /\ Derives(t)
  BY DEF PathStep
<1>5. \A u \in Slots \ {t} : L'[u] = L[u]
  BY <1>1, <1>2, <1>4
<1>6. DL!Step(t)
  <2>1. CASE R(t)' = << >>
    <3>1. L'[t] = << >>
      BY <1>2, <2>1
    <3> QED
      BY <3>1 DEF DL!Step
  <2>2. CASE R(t)' = R(t)
    <3>1. L'[t] = L[t]
      BY <1>1, <1>2, <2>2
    <3> QED
      BY <3>1 DEF DL!Step
  <2>3. ASSUME NEW s \in Slots, paths[t] = Null \/ s = t PROVE L[t] = << >> \/ s = t
    <3>1. paths[t] = Null => R(t) = << >>
      BY FineIs, ListedInIs DEF PathInv, Reads
    <3> QED
      BY <1>1, <2>3, <3>1
  <2>4. ASSUME NEW s \in Slots, paths[t] = Null \/ s = t, R(t)' = R(s) PROVE DL!Step(t)
    <3>1. L'[t] = L[s]
      BY <1>1, <1>2, <2>4
    <3>2. L[t] = << >> \/ s = t
      BY <2>3, <2>4
    <3> HIDE DEF L
    <3> QED
      BY <3>1, <3>2 DEF DL!Step, L
  <2>5. ASSUME NEW s \in Slots, paths[t] = Null \/ s = t, NEW dirs \in DirSeqs, NEW before \in BOOLEAN,
               ListMade(R(s), R(t)', dirs, before, Len(dirs))
        PROVE  DL!Step(t)
    <3>1. dirs \in Seq(Names)
      BY PathSearchAssumption DEF Names
    <3>2. R(s) \in Seq(Names)
      <4>1. paths[s] \in Pointer /\ Acyclic(Heap.node)
        BY FineIs DEF PathInv, Pointer
      <4> QED
        BY <4>1, ListedInIs DEF Reads
    <3>3. Making(R(s), R(t)', dirs, before)
      BY <2>5, <3>1, <3>2 DEF Making
    <3>4. DL!Prepends(R(s), R(t)', Clean(dirs)) \/ DL!Appends(R(s), R(t)', Clean(dirs))
      <4>1. IF before THEN DL!Prepends(R(s), R(t)', Clean(dirs)) ELSE DL!Appends(R(s), R(t)', Clean(dirs))
        BY <3>3, MadeIsAdded
      <4> QED
        BY <4>1
    <3>5. DL!Prepends(L[s], L'[t], Clean(dirs)) \/ DL!Appends(L[s], L'[t], Clean(dirs))
      BY <1>1, <1>2, <3>4
    <3>6. L[t] = << >> \/ s = t
      BY <2>3, <2>5
    <3>7. Clean(dirs) \in {Without(d, {Empty}) : d \in DirSeqs}
      BY DEF Clean
    <3> QED
      BY <3>5, <3>6, <3>7 DEF DL!Step
  <2> QED
    BY <1>4, <2>1, <2>2, <2>4, <2>5 DEF Derives
<1> QED
  BY <1>3, <1>5, <1>6 DEF DL!Next
(* The lists that share their nodes behave as sequences of their own: what *)
(* a client lists changes by its own calls only, and then to what          *)
(* DirLists allows; memory that lacks changes nothing.                     *)
THEOREM ListsCorrect ==
  ASSUME CountsFit
  PROVE  PathSpec => ImplementsDirLists
<1>1. PathInit => PathInv
  BY PathInvInit
<1>2. PathInv /\ [PathNext]_pathVars => PathInv'
  BY PathInvNext
<1>3. PathInit => DL!Init
  <2> SUFFICES ASSUME PathInit PROVE DL!Init
    OBVIOUS
  <2>1. \A s \in Slots : Listed(paths[s]) = << >>
    <3>1. Acyclic(Heap.node)
      BY <1>1, FineIs DEF PathInv
    <3>2. \A s \in Slots : paths[s] = Null
      BY DEF PathInit
    <3>3. ListedIn(Heap.node, Null) = << >>
      BY <3>1, ListedInIs
    <3> QED
      BY <3>2, <3>3, ListedIsReads DEF Reads
  <2> QED
    BY <2>1 DEF DL!Init
<1>4. PathInv /\ [PathNext]_pathVars => [DL!Next]_([s \in Slots |-> Listed(paths[s])])
  <2>1. ASSUME PathInv, PathNext PROVE DL!Next
    <3>1. PathStep
      BY <2>1, PathInvNext
    <3> QED
      BY <2>1, <3>1, StepIsDirLists
  <2>2. ASSUME UNCHANGED pathVars PROVE UNCHANGED [s \in Slots |-> Listed(paths[s])]
    <3>1. paths' = paths /\ node' = node
      BY <2>2 DEF pathVars
    <3> QED
      BY <3>1 DEF Listed
  <2> QED
    BY <2>1, <2>2
<1> QED
  BY <1>1, <1>2, <1>3, <1>4, PTL DEF PathSpec, ImplementsDirLists, DL!Spec
=============================================================================
