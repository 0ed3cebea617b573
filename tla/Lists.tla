------------------------------- MODULE Lists -------------------------------
(***************************************************************************)
(* Lists of which elements are removed, with the laws of the removal, and  *)
(* what these laws and other proofs rest on: the elements of a sequence,   *)
(* and two inductions.                                                     *)
(***************************************************************************)
EXTENDS Integers, Sequences, WellFoundedInduction, TLAPS

(* The list without the elements of D.                                     *)
Without(list, D) ==
  LET kept[k \in 0 .. Len(list)] ==
        IF k = 0 THEN <<>>
        ELSE IF list[k] \in D THEN kept[k - 1] ELSE Append(kept[k - 1], list[k])
  IN  kept[Len(list)]

-----------------------------------------------------------------------------
(* A tuple of n elements is a sequence of length n.                        *)
LEMMA TupleIsSeq ==
  ASSUME NEW S, NEW n \in Nat, NEW g \in [1..n -> S]
  PROVE  g \in Seq(S) /\ Len(g) = n
OBVIOUS

(* A sequence is the tuple of its elements.                                *)
LEMMA SeqIsTuple ==
  ASSUME NEW S, NEW s \in Seq(S)
  PROVE  s = [i \in 1..Len(s) |-> s[i]]
OBVIOUS

(* The elements of two sequences put one after the other.                  *)
LEMMA ConcatIs ==
  ASSUME NEW S, NEW s \in Seq(S), NEW t \in Seq(S)
  PROVE  /\ s \o t \in Seq(S) /\ Len(s \o t) = Len(s) + Len(t)
         /\ \A i \in 1..Len(s) : (s \o t)[i] = s[i]
         /\ \A i \in (Len(s) + 1)..(Len(s) + Len(t)) : (s \o t)[i] = t[i - Len(s)]
OBVIOUS

(* Sequences with the same elements are the same.                          *)
LEMMA SameSeq ==
  ASSUME NEW S, NEW s \in Seq(S), NEW t \in Seq(S), Len(s) = Len(t),
         \A i \in 1..Len(s) : s[i] = t[i]
  PROVE  s = t
OBVIOUS

(* A piece of a sequence.                                                  *)
LEMMA SubSeqIs ==
  ASSUME NEW S, NEW s \in Seq(S), NEW a \in Nat, NEW b \in Nat, 1 <= a, a <= b + 1, b <= Len(s)
  PROVE  /\ SubSeq(s, a, b) \in Seq(S) /\ Len(SubSeq(s, a, b)) = b + 1 - a
         /\ \A i \in 1..(b + 1 - a) : SubSeq(s, a, b)[i] = s[a + i - 1]
OBVIOUS

-----------------------------------------------------------------------------
(* Induction up to n, on a set.                                            *)
LEMMA UpTo ==
  ASSUME NEW n \in Nat, NEW S, 0 \in S, \A k \in 1..n : k - 1 \in S => k \in S
  PROVE  0..n \subseteq S
<1> DEFINE U == {k \in 0..n : k \notin S}
<1> SUFFICES ASSUME U # {} PROVE FALSE
  OBVIOUS
<1>1. U \subseteq Nat
  OBVIOUS
<1>2. PICK x \in U : \A y \in U : ~(<<y, x>> \in OpToRel(<, Nat))
  BY <1>1, NatLessThanWellFounded, WFMin
<1>3. x \in 1..n /\ x - 1 \in 0..n /\ x \notin S
  <2>1. x \in 0..n /\ x \notin S
    OBVIOUS
  <2>2. x # 0
    BY <2>1
  <2> QED
    BY <2>1, <2>2
<1>4. x - 1 \in U
  BY <1>3
<1> QED
  <2>1. <<x - 1, x>> \in OpToRel(<, Nat)
    <3> HIDE DEF U
    <3>1. x - 1 \in Nat /\ x \in Nat /\ x - 1 < x
      BY <1>3
    <3> QED
      BY <3>1 DEF OpToRel
  <2> QED
    BY <1>2, <1>4, <2>1

(* What is defined from its predecessor is defined.                        *)
Recursive(f, n, base, Step) ==
  f[0] = base /\ \A k \in 1..n : f[k] = Step[<<k, f[k - 1]>>]

(* A step function defines one function from 0 to n.                       *)
LEMMA Recursion ==
  ASSUME NEW n \in Nat, NEW V, NEW base \in V, NEW Step \in [(1..n) \X V -> V]
  PROVE  \E f \in [0..n -> V] : Recursive(f, n, base, Step)
<1> DEFINE Is(f, m) == f[0] = base /\ \A k \in 1..m : f[k] = Step[<<k, f[k - 1]>>]
           S == {m \in 0..n : \E f \in [0..m -> V] : Is(f, m)}
<1>1. 0 \in S
  <2> DEFINE f == [k \in 0..0 |-> base]
  <2>1. f \in [0..0 -> V] /\ f[0] = base /\ 1..0 = {} /\ 0 \in 0..n
    OBVIOUS
  <2>2. Is(f, 0)
    BY <2>1
  <2> HIDE DEF f, Is
  <2> QED
    BY <2>1, <2>2
<1>2. ASSUME NEW m \in 1..n, m - 1 \in S PROVE m \in S
  <2>1. PICK f \in [0..(m - 1) -> V] : Is(f, m - 1)
    BY <1>2
  <2> DEFINE g == [k \in 0..m |-> IF k = m THEN Step[<<m, f[m - 1]>>] ELSE f[k]]
  <2>2. m - 1 \in 0..(m - 1) /\ m \in 0..n
    OBVIOUS
  <2>3. Step[<<m, f[m - 1]>>] \in V
    BY <2>2
  <2>4. g \in [0..m -> V]
    <3>1. \A k \in 0..m : k # m => k \in 0..(m - 1)
      OBVIOUS
    <3>2. \A k \in 0..m : k # m => f[k] \in V
      BY <3>1, Zenon
    <3>3. \A k \in 0..m : (IF k = m THEN Step[<<m, f[m - 1]>>] ELSE f[k]) \in V
      BY <2>3, <3>2, Zenon
    <3> QED
      BY <3>3, Zenon
  <2>5. \A k \in 0..(m - 1) : k \in 0..m /\ k # m /\ g[k] = f[k]
    OBVIOUS
  <2>6. Is(g, m)
    <3>1. g[0] = base
      <4>1. 0 \in 0..(m - 1)
        OBVIOUS
      <4> QED
        BY <2>1, <2>5, <4>1, Zenon
    <3>2. ASSUME NEW k \in 1..m PROVE g[k] = Step[<<k, g[k - 1]>>]
      <4>1. k - 1 \in 0..(m - 1)
        OBVIOUS
      <4>2. g[k - 1] = f[k - 1]
        BY <2>5, <4>1, Zenon
      <4>3. CASE k = m
        <5>1. g[m] = Step[<<m, f[m - 1]>>]
          OBVIOUS
        <5> QED
          BY <4>2, <4>3, <5>1, Zenon
      <4>4. CASE k # m
        <5>1. k \in 1..(m - 1) /\ k \in 0..(m - 1)
          BY <4>4
        <5>2. f[k] = Step[<<k, f[k - 1]>>]
          BY <2>1, <5>1, Zenon
        <5> QED
          BY <2>5, <4>2, <5>1, <5>2, Zenon
      <4> QED
        BY <4>3, <4>4
    <3> HIDE DEF g
    <3> QED
      BY <3>1, <3>2
  <2> HIDE DEF g, Is
  <2> QED
    BY <2>2, <2>4, <2>6
<1>3. 0..n \subseteq S
  <2> HIDE DEF S
  <2> QED
    BY <1>1, <1>2, UpTo
<1>4. n \in S
  BY <1>3
<1> QED
  BY <1>4 DEF Recursive

(* The lists that Without goes through, one for each beginning of list.    *)
Filters(kept, list, D) ==
  /\ kept[0] = << >>
  /\ \A k \in 1..Len(list) :
       kept[k] = IF list[k] \in D THEN kept[k - 1] ELSE Append(kept[k - 1], list[k])

(* Without is what its recursive function says.                            *)
LEMMA WithoutFilters ==
  ASSUME NEW V, NEW list \in Seq(V), NEW D
  PROVE  \E kept \in [0..Len(list) -> Seq(V)] :
           Filters(kept, list, D) /\ Without(list, D) = kept[Len(list)]
<1> DEFINE n == Len(list)
           kept == CHOOSE f : f = [k \in 0..n |-> IF k = 0 THEN <<>> ELSE
                     IF list[k] \in D THEN f[k - 1] ELSE Append(f[k - 1], list[k])]
           Step == [x \in (1..n) \X Seq(V) |->
                     IF list[x[1]] \in D THEN x[2] ELSE Append(x[2], list[x[1]])]
<1>1. n \in Nat /\ \A k \in 1..n : list[k] \in V
  OBVIOUS
<1>2. kept = [k \in 0..n |-> IF k = 0 THEN <<>> ELSE
                IF list[k] \in D THEN kept[k - 1] ELSE Append(kept[k - 1], list[k])]
  <2>1. Step \in [(1..n) \X Seq(V) -> Seq(V)]
    <3>1. \A x \in (1..n) \X Seq(V) :
            (IF list[x[1]] \in D THEN x[2] ELSE Append(x[2], list[x[1]])) \in Seq(V)
      BY <1>1
    <3> QED
      BY <3>1, Zenon
  <2>2. <<>> \in Seq(V)
    OBVIOUS
  <2>3. PICK f \in [0..n -> Seq(V)] : Recursive(f, n, <<>>, Step)
    <3> HIDE DEF Step, n
    <3> QED
      BY <1>1, <2>1, <2>2, Recursion
  <2>4. f = [k \in 0..n |-> IF k = 0 THEN <<>> ELSE
               IF list[k] \in D THEN f[k - 1] ELSE Append(f[k - 1], list[k])]
    <3>1. \A k \in 0..n : k # 0 => k \in 1..n /\ k - 1 \in 0..n
      BY <1>1
    <3>2. \A k \in 1..n : f[k - 1] \in Seq(V)
      BY <3>1
    <3>3. \A k \in 1..n : Step[<<k, f[k - 1]>>]
             = IF list[k] \in D THEN f[k - 1] ELSE Append(f[k - 1], list[k])
      BY <3>2
    <3>4. f = [k \in 0..n |-> f[k]]
      BY Zenon
    <3> HIDE DEF Step
    <3> QED
      BY <2>3, <3>1, <3>3, <3>4, Zenon DEF Recursive
  <2> QED
    BY <2>4, Zenon
<1>3. Without(list, D) = kept[n]
  BY DEF Without
<1> HIDE DEF kept
<1>4. kept[0] = << >> /\ \A k \in 1..n :
        kept[k] = IF list[k] \in D THEN kept[k - 1] ELSE Append(kept[k - 1], list[k])
  <2>1. \A k \in 1..n : k \in 0..n /\ k # 0
    BY <1>1
  <2>2. 0 \in 0..n
    BY <1>1
  <2> QED
    BY <1>2, <2>1, <2>2, Zenon
<1> DEFINE S == {k \in 0..n : kept[k] \in Seq(V)}
<1>5. 0..n \subseteq S
  <2>1. 0 \in S
    <3>1. << >> \in Seq(V) /\ 0 \in 0..n
      BY <1>1
    <3> QED
      BY <1>4, <3>1
  <2>2. ASSUME NEW k \in 1..n, k - 1 \in S PROVE k \in S
    <3>1. kept[k - 1] \in Seq(V) /\ list[k] \in V /\ k \in 0..n
      BY <1>1, <2>2
    <3>2. Append(kept[k - 1], list[k]) \in Seq(V)
      BY <3>1
    <3> QED
      BY <1>4, <3>1, <3>2
  <2> HIDE DEF S
  <2> QED
    BY <1>1, <2>1, <2>2, UpTo
<1>6. kept \in [0..n -> Seq(V)]
  <2>1. kept = [k \in 0..n |-> kept[k]]
    BY <1>2, Zenon
  <2> QED
    BY <1>5, <2>1, Zenon
<1> QED
  BY <1>3, <1>4, <1>6, Zenon DEF Filters

(* What Without keeps of a list: the elements that are not in D, in their  *)
(* order.                                                                  *)
Keeps(list, D, k, s, m) ==
  /\ m \in [1..Len(s) -> 1..k]
  /\ \A i \in 1..Len(s) : s[i] = list[m[i]] /\ list[m[i]] \notin D
  /\ \A i, j \in 1..Len(s) : i < j => m[i] < m[j]
  /\ \A j \in 1..k : list[j] \notin D => \E i \in 1..Len(s) : m[i] = j

(* Without keeps the elements out of D and their order: what the removals  *)
(* of objects from the lists of ev-mgr.c rest on.                          *)
LEMMA WithoutKeeps ==
  ASSUME NEW V, NEW list \in Seq(V), NEW D
  PROVE  /\ Without(list, D) \in Seq(V)
         /\ \E m : Keeps(list, D, Len(list), Without(list, D), m)
<1> DEFINE n == Len(list)
<1>1. n \in Nat /\ \A k \in 1..n : list[k] \in V
  OBVIOUS
<1>2. PICK kept \in [0..n -> Seq(V)] : Filters(kept, list, D) /\ Without(list, D) = kept[n]
  BY WithoutFilters
<1> DEFINE Good(k) == kept[k] \in Seq(V) /\ \E m : Keeps(list, D, k, kept[k], m)
           S == {k \in 0..n : Good(k)}
<1>3. Without(list, D) = kept[n]
  BY <1>2
<1>4. kept[0] = <<>> /\ Good(0)
  <2>1. kept[0] = <<>>
    BY <1>2 DEF Filters
  <2>2. <<>> \in Seq(V) /\ Keeps(list, D, 0, <<>>, [i \in 1..0 |-> 1])
    BY DEF Keeps
  <2> QED
    BY <2>1, <2>2
<1>5. ASSUME NEW k \in 1..n, k - 1 \in S PROVE k \in S
  <2>1. k \in 0..n /\ k - 1 \in 0..n /\ k # 0
    BY <1>1
  <2>2. kept[k] = IF list[k] \in D THEN kept[k - 1] ELSE Append(kept[k - 1], list[k])
    BY <1>2, Zenon DEF Filters
  <2>3. PICK m : Keeps(list, D, k - 1, kept[k - 1], m)
    BY <1>5
  <2> DEFINE s == kept[k - 1]
  <2>4. s \in Seq(V)
    BY <1>5
  <2> HIDE DEF s
  <2>5. CASE list[k] \in D
    <3>1. Keeps(list, D, k, s, m)
      BY <2>3, <2>4, <2>5 DEF Keeps, s
    <3> QED
      BY <2>1, <2>2, <2>4, <2>5, <3>1 DEF s
  <2>6. CASE list[k] \notin D
    <3> DEFINE t == Append(s, list[k])
               p == [i \in 1..Len(t) |-> IF i = Len(t) THEN k ELSE m[i]]
    <3>1. t \in Seq(V) /\ Len(t) = Len(s) + 1 /\ t[Len(t)] = list[k]
          /\ \A i \in 1..Len(s) : t[i] = s[i]
      BY <1>1, <2>4
    <3>2. Len(s) \in Nat
      BY <2>4
    <3>3. Keeps(list, D, k - 1, s, m)
      BY <2>3 DEF s
    <3> HIDE DEF t
    <3>4. p[Len(t)] = k /\ \A i \in 1..Len(s) : p[i] = m[i] /\ m[i] \in 1..(k - 1)
      BY <3>1, <3>2, <3>3 DEF Keeps
    <3>5. \A i \in 1..Len(t) : i = Len(t) \/ i \in 1..Len(s)
      BY <3>1, <3>2
    <3>6. p \in [1..Len(t) -> 1..k]
      <4>1. \A i \in 1..Len(s) : m[i] \in 1..k
        <5> SUFFICES ASSUME NEW i \in 1..Len(s) PROVE m[i] \in 1..k
          OBVIOUS
        <5>1. m[i] \in 1..(k - 1)
          BY <3>4
        <5>2. k \in Nat
          BY <1>1
        <5> QED
          BY <5>1, <5>2
      <4>2. k \in 1..k
        OBVIOUS
      <4>3. \A i \in 1..Len(t) : (IF i = Len(t) THEN k ELSE m[i]) \in 1..k
        BY <3>5, <4>1, <4>2, Zenon
      <4> QED
        BY <4>3, Zenon
    <3> HIDE DEF p
    <3>7. \A i \in 1..Len(t) : t[i] = list[p[i]] /\ list[p[i]] \notin D
      BY <3>1, <3>3, <3>4, <3>5, <2>6, Zenon DEF Keeps
    <3>8. \A i, j \in 1..Len(t) : i < j => p[i] < p[j]
      <4> SUFFICES ASSUME NEW i \in 1..Len(t), NEW j \in 1..Len(t), i < j PROVE p[i] < p[j]
        OBVIOUS
      <4>1. i \in 1..Len(s)
        BY <3>1, <3>2
      <4>2. CASE j = Len(t)
        BY <3>4, <4>1, <4>2
      <4>3. CASE j \in 1..Len(s)
        BY <3>3, <3>4, <4>1, <4>3 DEF Keeps
      <4> QED
        BY <3>5, <4>2, <4>3
    <3>9. \A j \in 1..k : list[j] \notin D => \E i \in 1..Len(t) : p[i] = j
      <4> SUFFICES ASSUME NEW j \in 1..k, list[j] \notin D PROVE \E i \in 1..Len(t) : p[i] = j
        OBVIOUS
      <4>1. CASE j = k
        BY <3>1, <3>2, <3>4, <4>1
      <4>2. CASE j # k
        <5>1. j \in 1..(k - 1)
          BY <4>2
        <5>2. PICK i \in 1..Len(s) : m[i] = j
          BY <3>3, <5>1 DEF Keeps
        <5>3. i \in 1..Len(t)
          BY <3>1, <3>2
        <5> QED
          BY <3>4, <5>2, <5>3
      <4> QED
        BY <4>1, <4>2
    <3>10. Keeps(list, D, k, t, p)
      BY <3>6, <3>7, <3>8, <3>9, Zenon DEF Keeps
    <3> QED
      BY <2>1, <2>2, <2>6, <3>1, <3>10 DEF t, s
  <2> QED
    BY <2>5, <2>6
<1>6. n \in S
  <2>1. 0 \in S
    <3>1. 0 \in 0..n
      BY <1>1
    <3> HIDE DEF Good
    <3> QED
      BY <1>4, <3>1
  <2> HIDE DEF S
  <2>2. 0..n \subseteq S
    BY <1>1, <1>5, <2>1, UpTo
  <2> QED
    BY <1>1, <2>2
<1> QED
  BY <1>3, <1>6 DEF S

(* The same lists, as what Without leaves of the beginnings of list.       *)
Beginnings(kept, list, D, V) ==
  /\ kept \in [0..Len(list) -> Seq(V)]
  /\ Filters(kept, list, D) /\ Without(list, D) = kept[Len(list)]
  /\ \A c \in 0..Len(list) : Without(SubSeq(list, 1, c), D) = kept[c]

(* Without goes through what it leaves of the beginnings of the list.      *)
LEMMA WithoutBeginnings ==
  ASSUME NEW V, NEW list \in Seq(V), NEW D
  PROVE  \E kept : Beginnings(kept, list, D, V)
<1>1. PICK f \in [0..Len(list) -> Seq(V)] : Filters(f, list, D) /\ Without(list, D) = f[Len(list)]
  BY WithoutFilters
<1>2. ASSUME NEW c \in 0..Len(list) PROVE Without(SubSeq(list, 1, c), D) = f[c]
  <2> DEFINE less == SubSeq(list, 1, c)
  <2>1. c \in Nat /\ less \in Seq(V) /\ Len(less) = c /\ \A k \in 1..c : less[k] = list[k]
    OBVIOUS
  <2> HIDE DEF less
  <2>2. PICK g \in [0..Len(less) -> Seq(V)] : Filters(g, less, D) /\ Without(less, D) = g[Len(less)]
    BY <2>1, WithoutFilters
  <2> DEFINE S == {k \in 0..c : g[k] = f[k]}
  <2>3. 0 \in S
    BY <1>1, <2>1, <2>2 DEF Filters
  <2>4. ASSUME NEW k \in 1..c, k - 1 \in S PROVE k \in S
    <3>1. k \in 1..Len(list) /\ k \in 1..Len(less) /\ k \in 0..c /\ less[k] = list[k]
      BY <2>1
    <3>2. f[k - 1] = g[k - 1]
      BY <2>4
    <3>3. f[k] = IF list[k] \in D THEN f[k - 1] ELSE Append(f[k - 1], list[k])
      BY <1>1, <3>1 DEF Filters
    <3>4. g[k] = IF less[k] \in D THEN g[k - 1] ELSE Append(g[k - 1], less[k])
      BY <2>2, <3>1 DEF Filters
    <3> QED
      BY <3>1, <3>2, <3>3, <3>4
  <2>5. 0..c \subseteq S
    <3> HIDE DEF S
    <3> QED
      BY <2>1, <2>3, <2>4, UpTo
  <2>6. c \in S
    BY <2>1, <2>5
  <2> QED
    BY <2>1, <2>2, <2>6 DEF less
<1> QED
  BY <1>1, <1>2, Zenon DEF Beginnings

(* An element more is one more at the end, or removed.                     *)
LEMMA WithoutAppend ==
  ASSUME NEW V, NEW list \in Seq(V), NEW x \in V, NEW D
  PROVE  Without(Append(list, x), D) =
           IF x \in D THEN Without(list, D) ELSE Append(Without(list, D), x)
<1> DEFINE n == Len(list)
           more == Append(list, x)
<1>1. n \in Nat /\ more \in Seq(V) /\ Len(more) = n + 1 /\ more[n + 1] = x
      /\ SubSeq(more, 1, n) = list
  OBVIOUS
<1> HIDE DEF more
<1>2. PICK g : Beginnings(g, more, D, V)
  BY <1>1, WithoutBeginnings
<1>3. n \in 0..Len(more) /\ n + 1 \in 1..Len(more) /\ (n + 1) - 1 = n
  BY <1>1
<1>4. Without(list, D) = g[n]
  <2>1. Without(SubSeq(more, 1, n), D) = g[n]
    BY <1>2, <1>3 DEF Beginnings
  <2> QED
    BY <1>1, <2>1
<1>5. g[n + 1] = IF x \in D THEN g[n] ELSE Append(g[n], x)
  BY <1>1, <1>2, <1>3 DEF Beginnings, Filters
<1>6. Without(more, D) = g[n + 1]
  BY <1>1, <1>2 DEF Beginnings
<1> QED
  BY <1>4, <1>5, <1>6 DEF more

(* What is left of a beginning of a list begins what is left of the list.  *)
LEMMA WithoutBegins ==
  ASSUME NEW V, NEW list \in Seq(V), NEW D, NEW c \in 0..Len(list)
  PROVE  LET s == Without(SubSeq(list, 1, c), D)
             t == Without(list, D)
         IN /\ s \in Seq(V) /\ t \in Seq(V) /\ Len(s) <= Len(t)
            /\ \A i \in 1..Len(s) : s[i] = t[i]
<1> DEFINE n == Len(list)
<1>1. n \in Nat /\ c \in Nat /\ c <= n
  OBVIOUS
<1>2. PICK f : Beginnings(f, list, D, V)
  BY WithoutBeginnings
<1> DEFINE Begins(k) == Len(f[c]) <= Len(f[k]) /\ \A i \in 1..Len(f[c]) : f[c][i] = f[k][i]
           S == {j \in 0..n : j >= c => Begins(j)}
<1>5. \A k \in 0..n : f[k] \in Seq(V)
  BY <1>2 DEF Beginnings
<1>6. 0 \in S
  BY <1>1, <1>5
<1>7. ASSUME NEW k \in 1..n, k - 1 \in S PROVE k \in S
  <2>1. k \in 0..n /\ k - 1 \in 0..n
    BY <1>1
  <2>2. CASE k < c
    BY <2>1, <2>2, <1>1
  <2>3. CASE k = c
    BY <2>1, <2>3, <1>1, <1>5
  <2>4. CASE k > c
    <3>1. Begins(k - 1)
      BY <1>1, <1>7, <2>1, <2>4
    <3>2. f[k] = IF list[k] \in D THEN f[k - 1] ELSE Append(f[k - 1], list[k])
      BY <1>2 DEF Beginnings, Filters
    <3>3. list[k] \in V
      OBVIOUS
    <3>4. f[k - 1] \in Seq(V) /\ f[c] \in Seq(V)
      BY <1>1, <1>5, <2>1
    <3>5. Begins(k)
      BY <3>1, <3>2, <3>3, <3>4
    <3> QED
      BY <2>1, <3>5
  <2> QED
    BY <1>1, <2>2, <2>3, <2>4
<1>8. 0..n \subseteq S
  <2> HIDE DEF S
  <2> QED
    BY <1>1, <1>6, <1>7, UpTo
<1>9. Begins(n)
  BY <1>1, <1>8
<1>10. Without(SubSeq(list, 1, c), D) = f[c] /\ n \in 0..n
  BY <1>1, <1>2 DEF Beginnings
<1>11. Without(list, D) = f[n]
  BY <1>2 DEF Beginnings
<1> QED
  BY <1>5, <1>9, <1>10, <1>11, Zenon
=============================================================================
