---------------------------- MODULE MachinesProofs ----------------------------
(***************************************************************************)
(* Proofs of what the runs of MCMachines check of five of its machines:    *)
(* the log of rp-verbose.c, the files of rp-file.c, the sockets of         *)
(* socket.c, the requests of curl-client.c and the buffers of ws.c.  Each  *)
(* part has an inductive invariant, its initial states, a lemma for its    *)
(* steps and the theorem.                                                  *)
(***************************************************************************)
EXTENDS Verbose, FileIO, Socket, HttpPool, Ws, Lists, FiniteSetTheorems, SequenceTheorems, TLAPS

-----------------------------------------------------------------------------
(* The mask always wants the errors; the answers kept are the right ones.  *)
VerboseType ==
  /\ MINIMAL_LOGMASK \subseteq logmask /\ logmask \subseteq MAXIMAL_LOGMASK
  /\ terminal \in BOOLEAN /\ tty \in {0, Cached(terminal)}
  /\ colorized \in 0..2 /\ (colorized = 2 => terminal)

(* The counter of contexts counts also those that the stack has no place   *)
(* for; the others are in their order.                                     *)
StackInv ==
  /\ pushed \in Seq(Contexts) /\ Len(pushed) <= MaxPushed /\ contextsDepth = Len(pushed)
  /\ contexts \in [1..CONTEXT_DEPTH -> Contexts \cup {"unset"}]
  /\ \A i \in 1..CONTEXT_DEPTH : i <= Len(pushed) => contexts[i] = pushed[i]

VerboseInv == VerboseType /\ StackInv

(* A number below the modulus.                                             *)
LEMMA SmallModulo ==
  ASSUME NEW m \in Nat, NEW k \in Nat, k < m
  PROVE  (k % m) = k
OBVIOUS

(* The counter of contexts is bounded.                                     *)
LEMMA UshortIsNat == USHRT_MAX \in Nat
BY SMT DEF USHRT_MAX

(* Min and Max of two integers.                                            *)
LEMMA MinOfTwo ==
  ASSUME NEW a \in Int, NEW b \in Int
  PROVE  Min({a, b}) = IF a <= b THEN a ELSE b
<1>1. \E x \in {a, b} : \A y \in {a, b} : x =< y
  OBVIOUS
<1> QED
  BY <1>1 DEF Min

LEMMA MaxOfTwo ==
  ASSUME NEW a \in Int, NEW b \in Int
  PROVE  Max({a, b}) = IF a >= b THEN a ELSE b
<1>1. \E x \in {a, b} : \A y \in {a, b} : x >= y
  OBVIOUS
<1> QED
  BY <1>1 DEF Max

(* The highest level of a mask.                                            *)
LEMMA HighestLevel ==
  ASSUME NEW S \in SUBSET (0..9), NEW e \in S
  PROVE  Max(S) \in S /\ \A x \in S : x <= Max(S)
<1>1. \E x \in S : \A y \in S : x >= y
  BY SMTT(30)
<1> QED
  BY <1>1 DEF Max

(* The mask of all the levels until h has h for its highest.               *)
LEMMA HighestOfFirst ==
  ASSUME NEW h \in 0..9
  PROVE  Max(0..h) = h
<1>1. Max(0..h) \in 0..h /\ \A x \in 0..h : x <= Max(0..h)
  BY HighestLevel
<1> QED
  BY <1>1

(* Nothing is pushed nor asked of the terminal at the start.               *)
LEMMA VerboseInitial == VerboseInit => VerboseInv
<1> SUFFICES ASSUME VerboseInit PROVE VerboseInv
  OBVIOUS
<1>1. VerboseType
  BY DEF VerboseInit, VerboseType, DEFAULT_LOGMASK, MINIMAL_LOGMASK, MAXIMAL_LOGMASK
<1>2. StackInv
  BY DepthAssumption, PushedAssumption, UshortIsNat DEF VerboseInit, StackInv
<1> QED
  BY <1>1, <1>2 DEF VerboseInv

(* Each operation of rp-verbose.c keeps the mask, the stack and the        *)
(* answers right.                                                          *)
LEMMA VerboseStep ==
  ASSUME VerboseInv, [VerboseNext]_verboseVars
  PROVE  VerboseInv'
<1>1. CASE SetLevels
  <2>1. MINIMAL_LOGMASK \subseteq logmask' /\ logmask' \subseteq MAXIMAL_LOGMASK
    <3>1. ASSUME NEW mask PROVE MINIMAL_LOGMASK \subseteq rp_set_logmask(mask) /\ rp_set_logmask(mask) \subseteq MAXIMAL_LOGMASK
      BY DEF rp_set_logmask, MINIMAL_LOGMASK, MAXIMAL_LOGMASK
    <3> QED
      BY <1>1, <3>1, Zenon DEF SetLevels, rp_verbose_dec, rp_verbose_inc, rp_verbose_clear, rp_verbose_add, rp_verbose_sub
  <2> QED
    BY <1>1, <2>1 DEF SetLevels, VerboseInv, VerboseType, StackInv
<1>2. ASSUME NEW c \in Contexts, rp_verbose_push(c) PROVE VerboseInv'
  <2>1. /\ pushed' = Append(pushed, c) /\ contextsDepth' = Len(pushed')
        /\ pushed' \in Seq(Contexts) /\ Len(pushed') = Len(pushed) + 1 /\ Len(pushed') <= MaxPushed
        /\ \A i \in 1..Len(pushed) : pushed'[i] = pushed[i]
        /\ pushed'[Len(pushed) + 1] = c
    <3>1. Len(pushed) < MaxPushed /\ pushed' = Append(pushed, c) /\ contextsDepth' = (contextsDepth + 1) % (USHRT_MAX + 1)
      BY <1>2, Zenon DEF rp_verbose_push, Pushed
    <3>2. pushed \in Seq(Contexts) /\ Len(pushed) \in Nat /\ contextsDepth = Len(pushed)
      BY DEF VerboseInv, StackInv
    <3>3. PICK n : n = Len(pushed)
      OBVIOUS
    <3>4. n \in Nat /\ n < MaxPushed /\ n < USHRT_MAX /\ USHRT_MAX \in Nat
      BY <3>1, <3>2, <3>3, PushedAssumption, UshortIsNat
    <3>5. (n + 1) % (USHRT_MAX + 1) = n + 1 /\ n + 1 <= MaxPushed
      <4>1. n + 1 \in Nat /\ USHRT_MAX + 1 \in Nat /\ n + 1 < USHRT_MAX + 1
        BY <3>4
      <4>2. MaxPushed \in Nat /\ n + 1 <= MaxPushed
        BY <3>4, PushedAssumption
      <4> QED
        BY <4>1, <4>2, SmallModulo
    <3>6. /\ pushed' \in Seq(Contexts) /\ Len(pushed') = Len(pushed) + 1
          /\ \A i \in 1..Len(pushed) : pushed'[i] = pushed[i]
          /\ pushed'[Len(pushed) + 1] = c
      BY <3>1, <3>2, AppendProperties, SMTT(60)
    <3> QED
      BY <3>1, <3>2, <3>3, <3>5, <3>6, Zenon
  <2>2. /\ contexts' = IF Len(pushed) < CONTEXT_DEPTH THEN [contexts EXCEPT ![Len(pushed) + 1] = c] ELSE contexts
        /\ UNCHANGED <<logmask, terminal, tty, colorized>>
    BY <1>2 DEF rp_verbose_push, Pushed, VerboseInv, StackInv
  <2>3. StackInv'
    BY <2>1, <2>2, DepthAssumption DEF VerboseInv, StackInv
  <2> QED
    BY <2>2, <2>3 DEF VerboseInv, VerboseType
<1>3. CASE rp_verbose_pop
  <2>1. /\ UNCHANGED <<logmask, contexts, terminal, tty, colorized>>
        /\ contextsDepth' = IF contextsDepth > 0 THEN contextsDepth - 1 ELSE 0
        /\ pushed' = IF pushed = << >> THEN << >> ELSE SubSeq(pushed, 1, Len(pushed) - 1)
    BY <1>3 DEF rp_verbose_pop, Front
  <2>2. /\ pushed' \in Seq(Contexts) /\ Len(pushed') <= Len(pushed) /\ contextsDepth' = Len(pushed')
        /\ \A i \in 1..Len(pushed') : pushed'[i] = pushed[i]
    <3>1. pushed \in Seq(Contexts) /\ Len(pushed) \in Nat /\ contextsDepth = Len(pushed)
      BY DEF VerboseInv, StackInv
    <3> QED
      BY <2>1, <3>1
  <2>3. StackInv'
    <3>1. contexts' = contexts /\ Len(pushed') \in Nat
      BY <2>1, <2>2
    <3> QED
      BY <2>2, <3>1, DepthAssumption, PushedAssumption, UshortIsNat DEF VerboseInv, StackInv
  <2> QED
    BY <2>1, <2>3 DEF VerboseInv, VerboseType
<1>4. CASE rp_vverbose
  BY <1>4 DEF rp_vverbose, VerboseInv, VerboseType, StackInv, Cached, is_tty, Colors
<1>5. ASSUME NEW value \in {-1, 0, 1}, rp_verbose_colorize(value) PROVE VerboseInv'
  BY <1>5 DEF rp_verbose_colorize, VerboseInv, VerboseType, StackInv, Cached, is_tty, Colors
<1>6. CASE UNCHANGED verboseVars
  BY <1>6 DEF verboseVars, VerboseInv, VerboseType, StackInv
<1> QED
  BY <1>1, <1>2, <1>3, <1>4, <1>5, <1>6 DEF VerboseNext

(* With the stack in order a message shows the contexts pushed first and   *)
(* fits in iov.                                                            *)
LEMMA FitsAsAsked == VerboseInv => MessagesFit
<1> SUFFICES ASSUME VerboseInv, NEW level \in {-1, 0, 4, 5, 8, 9}, NEW file \in BOOLEAN, NEW fmt \in BOOLEAN
             PROVE  LET msg == Message(level, file, fmt)
                    IN /\ msg.contexts = SubSeq(pushed, 1, Min({Len(pushed), CONTEXT_DEPTH}))
                       /\ msg.slots <= 20 + 2 * CONTEXT_DEPTH
                       /\ msg.level \in Levels
                       /\ msg.color => terminal
  BY Zenon DEF MessagesFit
<1>1. Shown = Min({Len(pushed), CONTEXT_DEPTH})
  BY DEF Shown, VerboseInv, StackInv
<1>2. Shown \in Nat /\ Shown <= Len(pushed) /\ Shown <= CONTEXT_DEPTH /\ pushed \in Seq(Contexts)
  <2>1. Len(pushed) \in Nat /\ pushed \in Seq(Contexts)
    BY DEF VerboseInv, StackInv
  <2> QED
    BY <1>1, <2>1, MinOfTwo, DepthAssumption
<1>3. [i \in 1..Shown |-> contexts[i]] = SubSeq(pushed, 1, Shown)
  <2>1. \A i \in 1..Shown : contexts[i] = pushed[i]
    BY <1>2, DepthAssumption DEF VerboseInv, StackInv
  <2> HIDE DEF Shown
  <2> QED
    BY <1>2, <2>1
<1>4. ASSUME NEW l \in Int PROVE Slots(l, file, fmt) <= 20 + 2 * CONTEXT_DEPTH
  <2> HIDE DEF Shown
  <2> QED
    BY <1>2, DepthAssumption DEF Slots
<1>5. CROP_LOGLEVEL(level) \in 0..8
  <2>1. Max(MAXIMAL_LOGMASK) = 8
    BY HighestOfFirst DEF MAXIMAL_LOGMASK
  <2>2. Min({level, 8}) \in Int /\ Min({level, 8}) <= 8
    BY MinOfTwo
  <2>3. Max({0, Min({level, 8})}) \in 0..8
    BY <2>2, MaxOfTwo
  <2> QED
    BY <2>1, <2>3 DEF CROP_LOGLEVEL
<1>6. Colors(-1) => terminal
  BY DEF Colors, is_tty, Cached, VerboseInv, VerboseType
<1> DEFINE msg == Message(level, file, fmt)
<1>7. /\ msg.contexts = [i \in 1..Shown |-> contexts[i]] /\ msg.slots = Slots(CROP_LOGLEVEL(level), file, fmt)
      /\ msg.level = CROP_LOGLEVEL(level) /\ msg.color = Colors(-1)
  BY Zenon DEF Message
<1>8. msg.slots <= 20 + 2 * CONTEXT_DEPTH
  BY <1>4, <1>5, <1>7
<1>9. msg.contexts = SubSeq(pushed, 1, Min({Len(pushed), CONTEXT_DEPTH}))
  BY <1>1, <1>3, <1>7, Zenon
<1>10. msg.level \in Levels /\ (msg.color => terminal)
  BY <1>5, <1>6, <1>7 DEF Levels, MAXIMAL_LOGMASK
<1> QED
  BY <1>8, <1>9, <1>10, Zenon

(* Raising the level adds the next one to the mask, lowering it takes the  *)
(* highest away.                                                           *)
LEMMA LevelsAsAsked == VerboseInv => LevelsGoByOne
<1> SUFFICES ASSUME VerboseInv PROVE LevelsGoByOne
  OBVIOUS
<1>1. logmask \in SUBSET (0..8) /\ 0..3 \subseteq logmask
  BY DEF VerboseInv, VerboseType, MAXIMAL_LOGMASK, MINIMAL_LOGMASK
<1>2. ASSUME NEW S \in SUBSET (0..8), 0..3 \subseteq S
      PROVE  Max(S) \in S /\ Max(S) \in 3..8 /\ \A x \in S : x <= Max(S)
  <2>1. 3 \in S /\ S \in SUBSET (0..9)
    BY <1>2
  <2>2. Max(S) \in S /\ \A x \in S : x <= Max(S)
    BY <2>1, HighestLevel
  <2>3. PICK m : m = Max(S)
    OBVIOUS
  <2> QED
    <3>1. m \in S /\ \A x \in S : x <= m
      BY <2>2, <2>3, Zenon
    <3>2. m \in 0..8 /\ 3 <= m
      BY <2>1, <3>1, <1>2
    <3>3. m \in 3..8
      BY <3>2
    <3> QED
      BY <2>3, <3>1, <3>3, Zenon
(* The mask of the first levels of a mask that has the errors.             *)
<1>3. ASSUME NEW S \in SUBSET (0..8), 0..3 \subseteq S
      PROVE  get_mask(S) = 0..Max(S) /\ Max(get_mask(S)) = Max(S)
  <2>1. S \cup MINIMAL_LOGMASK = S
    BY <1>3 DEF MINIMAL_LOGMASK
  <2>2. Max(S) \in 0..9
    BY <1>2, <1>3
  <2>3. Max(0..Max(S)) = Max(S)
    BY <2>2, HighestOfFirst
  <2> QED
    BY <2>1, <2>3, Zenon DEF get_mask
<1>4. ASSUME NEW S \in SUBSET (0..8), 0..3 \subseteq S, NEW m, m = Max(S)
      PROVE  /\ rp_verbose_inc(S) = S \cup ({m + 1} \cap (0..8))
             /\ rp_verbose_dec(S) = S \ (IF m > 3 THEN {m} ELSE {})
  <2>1. m \in S /\ m \in 3..8 /\ \A x \in S : x <= m
    BY <1>2, <1>4
  <2>2. get_mask(S) = 0..m /\ Max(get_mask(S)) = m
    BY <1>3, <1>4
  <2>3. rp_verbose_inc(S) = (S \cup {m + 1} \cup 0..3) \cap 0..8
    BY <2>2, Zenon DEF rp_verbose_inc, rp_set_logmask, MINIMAL_LOGMASK, MAXIMAL_LOGMASK
  <2>4. rp_verbose_dec(S) = ((S \cap ((0..m) \ {m})) \cup 0..3) \cap 0..8
    BY <2>2, Zenon DEF rp_verbose_dec, rp_set_logmask, MINIMAL_LOGMASK, MAXIMAL_LOGMASK
  <2>5. rp_verbose_inc(S) = S \cup ({m + 1} \cap (0..8))
    BY <1>4, <2>3
  <2>6. rp_verbose_dec(S) = S \ (IF m > 3 THEN {m} ELSE {})
    <3>1. CASE m > 3
      <4>1. rp_verbose_dec(S) = S \ {m}
        <5>1. ASSUME NEW x PROVE x \in ((S \cap ((0..m) \ {m})) \cup 0..3) \cap 0..8 <=> x \in S \ {m}
          <6>1. x \in S => x \in 0..8 /\ x <= m
            BY <1>4, <2>1
          <6>2. x \in 0..3 => x \in S /\ x \in 0..8 /\ x # m
            BY <1>4, <3>1
          <6>3. x \in S => x \in 0..m
            BY <6>1, <2>1
          <6> QED
            BY <6>1, <6>2, <6>3, Zenon
        <5> QED
          BY <2>4, <5>1, Zenon
      <4> QED
        BY <3>1, <4>1
    <3>2. CASE m = 3
      <4>1. S = 0..3 /\ rp_verbose_dec(S) = S
        <5>1. S = 0..3
          <6> DEFINE F == 0..3
          <6>1. ASSUME NEW x \in S PROVE x \in F
            <7>1. x \in 0..8 /\ x <= m
              BY <1>4, <2>1
            <7> QED
              BY <3>2, <7>1
          <6>2. F \subseteq S
            BY <1>4
          <6> HIDE DEF F
          <6>3. S = F
            BY <6>1, <6>2, Zenon
          <6> QED
            BY <6>3 DEF F
        <5>2. ((S \cap ((0..m) \ {m})) \cup 0..3) \cap 0..8 = S
          BY <1>4, <5>1
        <5> QED
          BY <2>4, <5>1, <5>2
      <4> QED
        BY <3>2, <4>1
    <3> QED
      BY <2>1, <3>1, <3>2
  <2> QED
    BY <2>5, <2>6
<1>5. PICK h : h = Max(logmask)
  OBVIOUS
<1>6. PICK up : up = rp_verbose_inc(logmask)
  OBVIOUS
<1>7. h \in logmask /\ h \in 3..8 /\ \A x \in logmask : x <= h
  BY <1>1, <1>2, <1>5
<1>8. up = logmask \cup ({h + 1} \cap (0..8)) /\ rp_verbose_dec(logmask) = logmask \ (IF h > 3 THEN {h} ELSE {})
  BY <1>1, <1>4, <1>5, <1>6
<1>9. h \in 3..7 => rp_verbose_dec(up) = logmask
  <2> SUFFICES ASSUME h \in 3..7 PROVE rp_verbose_dec(up) = logmask
    OBVIOUS
  <2>1. up = logmask \cup {h + 1} /\ up \in SUBSET (0..8) /\ 0..3 \subseteq up /\ h + 1 \notin logmask
    <3>1. {h + 1} \cap (0..8) = {h + 1}
      <4>1. h + 1 \in 0..8
        OBVIOUS
      <4> QED
        BY <4>1, Zenon
    <3>2. h + 1 \notin logmask
      BY <1>7
    <3> QED
      BY <1>1, <1>8, <3>1, <3>2
  <2>2. PICK m : m = Max(up)
    OBVIOUS
  <2>3. m \in up /\ \A x \in up : x <= m
    BY <1>2, <2>1, <2>2
  <2>4. m = h + 1
    BY <1>1, <1>7, <2>1, <2>3
  <2>5. rp_verbose_dec(up) = up \ (IF m > 3 THEN {m} ELSE {})
    BY <1>4, <2>1, <2>2
  <2> QED
    BY <1>7, <2>1, <2>4, <2>5
<1>10. /\ rp_verbose_inc(logmask) = logmask \cup ({h + 1} \cap Levels)
       /\ h \in 3..7 => rp_verbose_dec(rp_verbose_inc(logmask)) = logmask
       /\ h > 3 => rp_verbose_dec(logmask) = logmask \ {h}
  BY <1>6, <1>8, <1>9 DEF Levels, MAXIMAL_LOGMASK
<1>11. MINIMAL_LOGMASK \subseteq logmask /\ logmask \subseteq MAXIMAL_LOGMASK
  BY DEF VerboseInv, VerboseType
<1> QED
  BY <1>5, <1>10, <1>11, Zenon DEF LevelsGoByOne

(* Messages of rp-verbose.c show the outermost contexts, fit in iov and    *)
(* have a known level, and the levels go by one, for every depth of the    *)
(* stack and however many contexts are pushed while their counter does not *)
(* wrap.                                                                   *)
THEOREM VerboseCorrect == VerboseSpec => []LoggedAsAsked
<1>1. VerboseInv => LoggedAsAsked
  BY FitsAsAsked, LevelsAsAsked DEF LoggedAsAsked
<1> QED
  BY <1>1, VerboseInitial, VerboseStep, PTL DEF VerboseSpec

-----------------------------------------------------------------------------
(* What the allocated buffer has, and the contents put.                    *)
Chars == BytesPut \cup {JUNK}
Contents == ToSet(Puts)

(* The byte b is put at place k by one of the puts.                        *)
RealAt(b, k) == \E j \in DOMAIN Puts : k \in DOMAIN Puts[j] /\ b = Puts[j][k]
Real(c) == \A k \in 1..Len(c) : RealAt(c[k], k)

(* The types of the two calls.                                             *)
PutType == [pc : {"idle", "write", "done", "left", "refused"}, f : Inodes \cup {NoInode}, i : Nat,
            content : Contents \cup {<< >>}, rc : {0, -1}]
GetType == [pc : {"idle", "stat", "read", "done"}, f : Inodes \cup {NoInode}, sz : Nat, i : Nat, r : Seq(Chars), rc : {0, -1}]

FileType ==
  /\ inodes \in [Inodes -> Seq(BytesPut)] /\ \A n \in Inodes : Real(inodes[n])
  /\ name \in Inodes \cup {NoInode} /\ puts \in Seq(Contents)
  /\ putter \in PutType /\ getter \in GetType /\ met \in BOOLEAN

(* While rp_file_put_at writes, the file has the bytes written so far,     *)
(* from the start of the content.                                          *)
PutInv ==
  /\ putter.pc = "write" =>
       /\ name \in Inodes /\ putter.f = name /\ putter.rc = 0
       /\ putter.i <= Len(putter.content) /\ inodes[name] = SubSeq(putter.content, 1, putter.i)
  /\ PutIsWhole

(* As long as no put met the get, the name and the content stay what they  *)
(* were when the file was opened.                                          *)
GetInv ==
  /\ ~met => putter.pc # "write"
  /\ getter.pc \in {"stat", "read"} => getter.f \in Inodes /\ (~met => name = getter.f) /\ getter.rc = 0
  /\ getter.pc = "stat" => getter.i = 0
  /\ getter.pc = "read" =>
       /\ getter.i <= getter.sz /\ getter.sz <= Len(getter.r)
       /\ \A k \in 1..getter.i : RealAt(getter.r[k], k)
       /\ ~met => /\ getter.sz = Len(inodes[name])
                  /\ \A k \in 1..getter.i : getter.r[k] = inodes[name][k]
  /\ GetIsReal

FileInv == FileType /\ PutInv /\ GetInv

(* The first bytes of a content put are each at their place.               *)
LEMMA ContentsAreReal ==
  ASSUME NEW c \in Contents \cup {<< >>}, NEW n \in 0..Len(c)
  PROVE  /\ c \in Seq(BytesPut) /\ Len(c) \in Nat
         /\ SubSeq(c, 1, n) \in Seq(BytesPut) /\ Len(SubSeq(c, 1, n)) = n
         /\ Real(SubSeq(c, 1, n)) /\ SubSeq(c, 1, Len(c)) = c
<1>1. CASE c = << >>
  BY <1>1 DEF Real
<1>2. CASE c \in Contents
  <2>1. PICK j \in DOMAIN Puts : c = Puts[j]
    BY <1>2 DEF Contents, ToSet
  <2>2. c \in Seq(BytesPut) /\ DOMAIN Puts[j] = 1..Len(c)
    BY <2>1, PutsAssumption
  <2>3. SubSeq(c, 1, n) \in Seq(BytesPut) /\ Len(SubSeq(c, 1, n)) = n /\ \A k \in 1..n : SubSeq(c, 1, n)[k] = c[k]
    BY <2>2
  <2> QED
    BY <2>1, <2>2, <2>3, SubSeqFull DEF Real, RealAt
<1> QED
  BY <1>1, <1>2

(* At the start there is no file.                                          *)
LEMMA FileInitial == FileInit => FileInv
<1> SUFFICES ASSUME FileInit PROVE FileInv
  OBVIOUS
<1>1. Puts \in Seq(Contents)
  BY PutsAssumption DEF Contents, ToSet
<1>2. putter \in PutType /\ getter \in GetType
  BY DEF FileInit, PutType, GetType, PutIdle, GetIdle
<1>3. inodes \in [Inodes -> Seq(BytesPut)] /\ \A n \in Inodes : Real(inodes[n])
  BY DEF FileInit, Real
<1>4. putter.pc = "idle" /\ getter.pc = "idle"
  BY DEF FileInit, PutIdle, GetIdle
<1> QED
  BY <1>1, <1>2, <1>3, <1>4 DEF FileInit, FileInv, FileType, PutInv, GetInv, PutIsWhole, GetIsReal

(* What a step of the putter has to keep for the getter.                   *)
LEMMA PutterKeepsGet ==
  ASSUME FileInv, FileType', UNCHANGED getter,
         met' \/ (met' = met /\ UNCHANGED <<inodes, name>> /\ putter'.pc # "write")
  PROVE  GetInv'
BY DEF FileInv, FileType, GetInv, GetIsReal

(* Each step of rp_file_put_at keeps the invariant.                        *)
LEMMA PutStep ==
  ASSUME FileInv, PutOpen \/ PutWrite \/ PutError \/ PutClose
  PROVE  FileInv'
<1>1. CASE PutOpen
  <2>1. puts # << >> /\ puts' = Tail(puts) /\ getter' = getter /\ Head(puts) \in Contents /\ puts' \in Seq(Contents)
    <3>1. puts # << >> /\ puts' = Tail(puts) /\ getter' = getter /\ puts \in Seq(Contents)
      BY <1>1 DEF PutOpen, FileInv, FileType
    <3> QED
      BY <3>1, HeadTailProperties
  <2>2. CASE putter' = [PutIdle EXCEPT !.pc = "refused", !.rc = -1] /\ UNCHANGED <<inodes, name, met>>
    <3>1. putter' \in PutType /\ putter'.pc = "refused"
      BY <2>2, Zenon DEF PutIdle, PutType
    <3>2. FileType' /\ PutInv'
      BY <2>1, <2>2, <3>1 DEF FileInv, FileType, PutInv, PutIsWhole
    <3> QED
      BY <2>1, <2>2, <3>1, <3>2, PutterKeepsGet DEF FileInv
  <2>3. ASSUME NEW n \in Inodes, name' = n, inodes' = [inodes EXCEPT ![n] = << >>], met' = TRUE,
               putter' = [PutIdle EXCEPT !.pc = "write", !.f = n, !.content = Head(puts)]
        PROVE  FileInv'
    <3>1. /\ putter' \in PutType /\ putter'.pc = "write" /\ putter'.f = n /\ putter'.i = 0 /\ putter'.rc = 0
          /\ putter'.content = Head(puts)
      BY <2>1, <2>3 DEF PutIdle, PutType
    <3>2. FileType'
      BY <2>1, <2>3, <3>1 DEF FileInv, FileType, Real
    <3>3. PutInv'
      <4>1. SubSeq(Head(puts), 1, 0) = << >> /\ Len(Head(puts)) \in Nat
        BY <2>1, ContentsAreReal
      <4> QED
        BY <2>3, <3>1, <4>1 DEF FileInv, FileType, PutInv, PutIsWhole
    <3> QED
      BY <2>1, <2>3, <3>2, <3>3, PutterKeepsGet DEF FileInv
  <2> QED
    BY <1>1, <2>2, <2>3 DEF PutOpen, FileInv, FileType
<1>2. CASE PutWrite
  <2> DEFINE c == putter.content
  <2>1. PICK n \in 0..Len(c) - putter.i : /\ inodes' = [inodes EXCEPT ![putter.f] = SubSeq(c, 1, putter.i + n)]
                                         /\ putter' = [putter EXCEPT !.i = @ + n]
    BY <1>2 DEF PutWrite
  <2>2. /\ putter.pc = "write" /\ putter.i < Len(c) /\ UNCHANGED <<name, puts, getter, met>>
        /\ c \in Contents \cup {<< >>} /\ Len(c) \in Nat /\ putter.i \in Nat
    BY <1>2, ContentsAreReal DEF PutWrite, FileInv, FileType, PutType
  <2>3. /\ putter' \in PutType /\ putter'.pc = "write" /\ putter'.f = putter.f /\ putter'.i = putter.i + n
        /\ putter'.content = c /\ putter'.rc = putter.rc
    <3>1. PICK i : i = putter.i + n
      OBVIOUS
    <3>2. i \in Nat /\ putter \in PutType /\ putter' = [putter EXCEPT !.i = i]
      BY <2>1, <2>2, <3>1 DEF FileInv, FileType
    <3>3. putter' \in PutType /\ putter'.pc = putter.pc /\ putter'.f = putter.f /\ putter'.i = i
          /\ putter'.content = c /\ putter'.rc = putter.rc
      BY <3>2, Zenon DEF PutType
    <3> QED
      BY <2>2, <3>1, <3>3
  <2>4. putter.i + n \in 0..Len(c)
    BY <2>1, <2>2
  <2>5. SubSeq(c, 1, putter.i + n) \in Seq(BytesPut) /\ Real(SubSeq(c, 1, putter.i + n))
    BY <2>2, <2>4, ContentsAreReal
  <2>6. FileType'
    BY <2>1, <2>2, <2>3, <2>5 DEF FileInv, FileType, PutInv
  <2>7. PutInv'
    BY <2>1, <2>2, <2>3, <2>4, SMTT(60) DEF FileInv, FileType, PutInv, PutIsWhole
  <2>8. met' = TRUE
    BY <2>2 DEF FileInv, FileType, GetInv
  <2> QED
    BY <2>2, <2>6, <2>7, <2>8, PutterKeepsGet DEF FileInv
<1>3. CASE PutError
  <2>1. /\ putter.pc = "write" /\ UNCHANGED <<inodes, puts, getter, met>>
        /\ \/ name' = NoInode /\ putter' = [putter EXCEPT !.pc = "done", !.rc = -1, !.f = NoInode]
           \/ name' = name /\ putter' = [putter EXCEPT !.pc = "left", !.rc = -1, !.f = NoInode]
    BY <1>3 DEF PutError
  <2>2. putter' \in PutType /\ putter'.rc = -1 /\ putter'.pc \in {"done", "left"} /\ (putter'.pc = "done" => name' = NoInode)
    BY <2>1 DEF FileInv, FileType, PutType
  <2>3. FileType' /\ PutInv' /\ met' = TRUE
    BY <2>1, <2>2 DEF FileInv, FileType, PutInv, PutIsWhole, GetInv
  <2> QED
    BY <2>1, <2>3, PutterKeepsGet DEF FileInv
<1>4. CASE PutClose
  <2>1. /\ putter.pc = "write" /\ putter.i = Len(putter.content) /\ UNCHANGED <<inodes, name, puts, getter, met>>
        /\ putter' = [putter EXCEPT !.pc = "done", !.f = NoInode]
    BY <1>4 DEF PutClose
  <2>2. putter' \in PutType /\ putter'.rc = putter.rc /\ putter'.pc = "done" /\ putter'.content = putter.content
    BY <2>1 DEF FileInv, FileType, PutType
  <2>3. putter.content \in Contents \cup {<< >>}
    BY DEF FileInv, FileType, PutType
  <2>4. SubSeq(putter.content, 1, putter.i) = putter.content
    BY <2>1, <2>3, ContentsAreReal DEF FileInv, FileType, PutType
  <2>5. FileType' /\ PutInv' /\ met' = TRUE
    BY <2>1, <2>2, <2>4, InodesAssumption DEF FileInv, FileType, PutInv, PutIsWhole, GetInv
  <2> QED
    BY <2>1, <2>5, PutterKeepsGet DEF FileInv
<1> QED
  BY <1>1, <1>2, <1>3, <1>4

(* What a step of the getter has to establish: the rest does not change.   *)
LEMMA GetterKeepsPut ==
  ASSUME FileInv, UNCHANGED <<inodes, name, puts, putter>>, getter' \in GetType, met' \in BOOLEAN
  PROVE  FileType' /\ PutInv'
BY DEF FileInv, FileType, PutInv, PutIsWhole

(* A get that fails gives nothing.                                         *)
LEMMA FailedGet ==
  ASSUME FileInv, UNCHANGED <<inodes, name, puts, putter>>, met' = met,
         getter' \in GetType, getter'.pc = "done", getter'.rc = -1
  PROVE  FileInv'
BY GetterKeepsPut DEF FileInv, FileType, GetInv, GetIsReal

(* The records that a get starts and fails with.                           *)
LEMMA IdleGet ==
  /\ GetIdle \in GetType
  /\ \A c : c = [GetIdle EXCEPT !.pc = "done", !.rc = -1] => c \in GetType /\ c.pc = "done" /\ c.rc = -1
  /\ \A c : \A n \in Nat : c = [GetIdle EXCEPT !.pc = "done", !.rc = -1, !.sz = n] =>
                           c \in GetType /\ c.pc = "done" /\ c.rc = -1
  /\ \A c : \A f \in Inodes : c = [GetIdle EXCEPT !.pc = "stat", !.f = f] =>
                              c \in GetType /\ c.pc = "stat" /\ c.f = f /\ c.i = 0 /\ c.rc = 0
<1>1. GetIdle \in GetType /\ GetIdle.i = 0 /\ GetIdle.rc = 0
  BY DEF GetIdle, GetType
<1>2. PICK m : m = -1
  OBVIOUS
<1>3. m \in {0, -1}
  BY <1>2
<1>4. \A c : c = [GetIdle EXCEPT !.pc = "done", !.rc = m] => c \in GetType /\ c.pc = "done" /\ c.rc = m
  BY <1>1, <1>3, Zenon DEF GetType
<1>5. \A c : \A n \in Nat : c = [GetIdle EXCEPT !.pc = "done", !.rc = m, !.sz = n] =>
                          c \in GetType /\ c.pc = "done" /\ c.rc = m
  BY <1>1, <1>3, Zenon DEF GetType
<1>6. \A c : \A f \in Inodes : c = [GetIdle EXCEPT !.pc = "stat", !.f = f] =>
                              c \in GetType /\ c.pc = "stat" /\ c.f = f /\ c.i = 0 /\ c.rc = 0
  BY <1>1, Zenon DEF GetType
<1> QED
  BY <1>1, <1>2, <1>4, <1>5, <1>6, Zenon

(* Each step of rp_file_get_at keeps the invariant.                        *)
LEMMA GetStep ==
  ASSUME FileInv, GetOpen \/ GetStat \/ GetRead \/ GetError \/ GetClose
  PROVE  FileInv'
<1>1. CASE GetOpen
  <2>1. /\ UNCHANGED <<inodes, name, puts, putter>> /\ met' \in BOOLEAN
        /\ ~met' => putter.pc # "write"
        /\ IF name = NoInode THEN getter' = [GetIdle EXCEPT !.pc = "done", !.rc = -1]
           ELSE getter' = [GetIdle EXCEPT !.pc = "stat", !.f = name]
    BY <1>1 DEF GetOpen
  <2>2. CASE name = NoInode
    <3>1. getter' \in GetType /\ getter'.pc = "done" /\ getter'.rc = -1
      BY <2>1, <2>2, IdleGet
    <3> QED
      BY <2>1, <3>1, GetterKeepsPut DEF FileInv, GetInv, GetIsReal
  <2>3. CASE name # NoInode
    <3>1. name \in Inodes /\ inodes[name] \in Seq(BytesPut)
      BY <2>3 DEF FileInv, FileType
    <3>2. getter' \in GetType /\ getter'.pc = "stat" /\ getter'.rc = 0 /\ getter'.f = name /\ getter'.i = 0
      BY <2>1, <2>3, <3>1, IdleGet
    <3> QED
      BY <2>1, <3>1, <3>2, GetterKeepsPut DEF FileInv, GetInv, GetIsReal
  <2> QED
    BY <2>2, <2>3
<1>2. CASE GetStat
  <2> DEFINE sz == Len(inodes[getter.f])
             r == [k \in 1..sz |-> JUNK]
  <2>1. getter.pc = "stat" /\ UNCHANGED <<inodes, name, puts, putter, met>>
    BY <1>2 DEF GetStat
  <2>2. CASE getter' = [getter EXCEPT !.pc = "read", !.sz = sz, !.r = r]
    <3>1. /\ getter.f \in Inodes /\ (~met => name = getter.f) /\ getter.i = 0 /\ getter.rc = 0
          /\ getter \in GetType
      BY <2>1 DEF FileInv, FileType, GetInv
    <3>2. inodes[getter.f] \in Seq(BytesPut)
      BY <3>1 DEF FileInv, FileType
    <3>3. sz \in Nat /\ r \in Seq(Chars) /\ Len(r) = sz
      BY <3>2 DEF Chars
    <3>4. /\ getter' \in GetType /\ getter'.pc = "read" /\ getter'.rc = 0 /\ getter'.f = getter.f
          /\ getter'.i = 0 /\ getter'.sz = sz /\ getter'.r = r
      <4> HIDE DEF sz, r
      <4> QED
        BY <2>2, <3>1, <3>3, Zenon DEF GetType
    <3>5. FileType' /\ PutInv'
      BY <2>1, <3>4, GetterKeepsPut DEF FileInv, FileType
    <3>6. GetInv'
      BY <2>1, <3>1, <3>3, <3>4 DEF FileInv, GetInv, GetIsReal
    <3> QED
      BY <3>5, <3>6 DEF FileInv
  <2>3. CASE getter' = [GetIdle EXCEPT !.pc = "done", !.rc = -1]
    <3>1. getter' \in GetType /\ getter'.pc = "done" /\ getter'.rc = -1
      BY <2>3, IdleGet
    <3> QED
      BY <2>1, <3>1, FailedGet
  <2> QED
    BY <1>2, <2>2, <2>3 DEF GetStat
<1>3. CASE GetRead
  <2> DEFINE g == getter
             ahead == Len(inodes[g.f]) - g.i
  <2>1. g.pc = "read" /\ g.i < g.sz /\ UNCHANGED <<inodes, name, puts, putter, met>>
    BY <1>3, Zenon DEF GetRead
  <2>5. \/ ahead <= 0 /\ getter' = EndOfFile(g)
        \/ \E n \in 1..Min({ahead, g.sz - g.i}) :
             getter' = [g EXCEPT !.i = g.i + n,
                                 !.r = [k \in DOMAIN g.r |-> IF k \in g.i + 1..g.i + n THEN inodes[g.f][k] ELSE g.r[k]]]
    BY <1>3, Zenon DEF GetRead
  <2>2. /\ g.f \in Inodes /\ (~met => name = g.f) /\ g.rc = 0
        /\ g.i \in Nat /\ g.sz \in Nat /\ g.sz <= Len(g.r)
        /\ g.r \in Seq(Chars) /\ g \in GetType
        /\ inodes[g.f] \in Seq(BytesPut) /\ Real(inodes[g.f])
        /\ \A k \in 1..g.i : RealAt(g.r[k], k)
        /\ ~met => g.sz = Len(inodes[name]) /\ \A k \in 1..g.i : g.r[k] = inodes[name][k]
    BY <2>1 DEF FileInv, FileType, GetInv, GetType
  <2>3. CASE ahead <= 0 /\ getter' = EndOfFile(g)
    <3>1. met
      <4>1. Len(inodes[g.f]) - g.i <= 0 /\ g.i < g.sz /\ Len(inodes[g.f]) \in Nat
        BY <2>1, <2>2, <2>3
      <4> QED
        BY <2>2, <4>1
    <3>2. /\ getter' \in GetType /\ getter'.pc = "read" /\ getter'.rc = 0 /\ getter'.f = g.f
          /\ getter'.i = g.i /\ getter'.sz = g.i /\ getter'.r = g.r
      BY <2>1, <2>2, <2>3, Zenon DEF EndOfFile, GetType
    <3>3. FileType' /\ PutInv'
      BY <2>1, <3>2, GetterKeepsPut DEF FileInv, FileType
    <3>4. GetInv'
      <4>1. met' /\ getter'.i <= getter'.sz /\ getter'.sz <= Len(getter'.r)
        BY <2>1, <2>2, <3>1, <3>2
      <4> QED
        BY <2>1, <2>2, <3>2, <4>1 DEF FileInv, GetInv, GetIsReal
    <3> QED
      BY <3>3, <3>4 DEF FileInv
  <2>4. ASSUME NEW n \in 1..Min({ahead, g.sz - g.i}),
               getter' = [g EXCEPT !.i = g.i + n,
                                   !.r = [k \in DOMAIN g.r |-> IF k \in g.i + 1..g.i + n THEN inodes[g.f][k] ELSE g.r[k]]]
        PROVE  FileInv'
    <3>1. PICK r : r = [k \in DOMAIN g.r |-> IF k \in g.i + 1..g.i + n THEN inodes[g.f][k] ELSE g.r[k]]
      OBVIOUS
    <3>2. ahead \in Int /\ g.sz - g.i \in Int
      BY <2>2
    <3>3. n \in Nat /\ g.i + n \in Nat /\ g.i + n <= Len(inodes[g.f]) /\ g.i + n <= g.sz
      <4>1. Min({ahead, g.sz - g.i}) \in Int /\ Min({ahead, g.sz - g.i}) <= ahead /\ Min({ahead, g.sz - g.i}) <= g.sz - g.i
        BY <3>2, MinOfTwo
      <4> QED
        BY <2>2, <4>1
    <3>4. /\ r \in Seq(Chars) /\ Len(r) = Len(g.r)
          /\ \A k \in 1..Len(g.r) : r[k] = IF k \in g.i + 1..g.i + n THEN inodes[g.f][k] ELSE g.r[k]
      <4>1. DOMAIN g.r = 1..Len(g.r) /\ Len(g.r) \in Nat
        BY <2>2
      <4>2. \A k \in 1..Len(g.r) : /\ r[k] = IF k \in g.i + 1..g.i + n THEN inodes[g.f][k] ELSE g.r[k]
                                   /\ r[k] \in Chars
        BY <2>2, <3>1, <3>3, <4>1 DEF Chars
      <4>3. r \in [1..Len(g.r) -> Chars]
        BY <3>1, <4>1, <4>2
      <4> QED
        BY <4>1, <4>2, <4>3
    <3>5. /\ getter' \in GetType /\ getter'.pc = "read" /\ getter'.rc = 0 /\ getter'.f = g.f
          /\ getter'.i = g.i + n /\ getter'.sz = g.sz /\ getter'.r = r
      BY <2>1, <2>2, <2>4, <3>1, <3>3, <3>4, Zenon DEF GetType
    <3>6. FileType' /\ PutInv'
      BY <2>1, <3>5, GetterKeepsPut DEF FileInv, FileType
    <3>7. \A k \in 1..g.i + n : /\ RealAt(r[k], k)
                                /\ ~met => r[k] = inodes[name][k]
      <4> SUFFICES ASSUME NEW k \in 1..g.i + n
                   PROVE  RealAt(r[k], k) /\ (~met => r[k] = inodes[name][k])
        OBVIOUS
      <4>1. k \in 1..Len(g.r) /\ k \in 1..Len(inodes[g.f])
        BY <2>2, <3>3
      <4>2. CASE k \in g.i + 1..g.i + n
        <5>1. r[k] = inodes[g.f][k]
          BY <3>4, <4>1, <4>2
        <5> QED
          BY <2>2, <4>1, <5>1 DEF Real
      <4>3. CASE k \notin g.i + 1..g.i + n
        <5>1. r[k] = g.r[k] /\ k \in 1..g.i
          BY <2>2, <3>3, <3>4, <4>1, <4>3
        <5> QED
          BY <2>2, <5>1
      <4> QED
        BY <4>2, <4>3
    <3>8. GetInv'
      BY <2>1, <2>2, <3>3, <3>4, <3>5, <3>7 DEF FileInv, GetInv, GetIsReal
    <3> QED
      BY <3>6, <3>8 DEF FileInv
  <2> QED
    BY <2>3, <2>4, <2>5, Zenon
<1>4. CASE GetError
  <2>1. UNCHANGED <<inodes, name, puts, putter, met>> /\ getter' = [GetIdle EXCEPT !.pc = "done", !.rc = -1, !.sz = getter.sz]
    BY <1>4 DEF GetError
  <2>2. getter.sz \in Nat
    BY DEF FileInv, FileType, GetType
  <2>3. getter' \in GetType /\ getter'.pc = "done" /\ getter'.rc = -1
    BY <2>1, <2>2, IdleGet
  <2> QED
    BY <2>1, <2>3, FailedGet
<1>5. CASE GetClose
  <2>1. /\ getter.pc = "read" /\ getter.i >= getter.sz /\ UNCHANGED <<inodes, name, puts, putter, met>>
        /\ getter' = [getter EXCEPT !.pc = "done", !.f = NoInode]
    BY <1>5 DEF GetClose
  <2>2. /\ getter' \in GetType /\ getter'.pc = "done" /\ getter'.sz = getter.sz /\ getter'.r = getter.r
        /\ getter \in GetType
    BY <2>1 DEF FileInv, FileType, GetType
  <2>3. /\ getter.i = getter.sz /\ getter.sz \in Nat /\ getter.sz <= Len(getter.r) /\ getter.r \in Seq(Chars)
        /\ getter.f \in Inodes /\ (~met => name = getter.f)
        /\ \A k \in 1..getter.sz : RealAt(getter.r[k], k)
        /\ ~met => getter.sz = Len(inodes[name]) /\ \A k \in 1..getter.sz : getter.r[k] = inodes[name][k]
    BY <2>1, <2>2 DEF FileInv, GetInv, GetType
  <2>4. ~met => SubSeq(getter.r, 1, getter.sz) = inodes[name]
    <3> SUFFICES ASSUME ~met PROVE SubSeq(getter.r, 1, getter.sz) = inodes[name]
      OBVIOUS
    <3>1. inodes[name] \in Seq(BytesPut) /\ inodes[name] \in Seq(Chars)
      BY <2>3 DEF FileInv, FileType, Chars
    <3>2. /\ SubSeq(getter.r, 1, getter.sz) \in Seq(Chars) /\ Len(SubSeq(getter.r, 1, getter.sz)) = getter.sz
          /\ \A k \in 1..getter.sz : SubSeq(getter.r, 1, getter.sz)[k] = getter.r[k]
      BY <2>3
    <3> QED
      BY <2>3, <3>1, <3>2, SeqEqual
  <2>5. FileType' /\ PutInv'
    BY <2>1, <2>2, GetterKeepsPut DEF FileInv, FileType
  <2>6. GetInv'
    BY <2>1, <2>2, <2>3, <2>4 DEF FileInv, GetInv, GetIsReal, RealAt
  <2> QED
    BY <2>5, <2>6 DEF FileInv
<1> QED
  BY <1>1, <1>2, <1>3, <1>4, <1>5

(* rp_file_put_at leaves the whole content or an error, rp_file_get_at     *)
(* gives bytes that were put, each at its place, and the whole file when   *)
(* nothing is put meanwhile: for all contents, all inodes and all lengths  *)
(* of the reads and writes.                                                *)
THEOREM FileCorrect == FileSpec => []FilesAreWhole
<1>1. FileInv /\ [FileNext]_fileVars => FileInv'
  <2> SUFFICES ASSUME FileInv, [FileNext]_fileVars PROVE FileInv'
    OBVIOUS
  <2>1. CASE UNCHANGED fileVars
    BY <2>1 DEF fileVars, FileInv, FileType, PutInv, GetInv, PutIsWhole, GetIsReal
  <2> QED
    BY <2>1, PutStep, GetStep DEF FileNext
<1>2. FileInv => FilesAreWhole
  BY DEF FileInv, PutInv, GetInv, FilesAreWhole
<1> QED
  BY <1>1, <1>2, FileInitial, PTL DEF FileSpec

-----------------------------------------------------------------------------
(* What a socket of socket.c can be.                                       *)
FdKinds == {"none", "tcp", "sd", "unix", "char"}
FdType == [kind : FdKinds, named : BOOLEAN, reuse : BOOLEAN, cloexec : BOOLEAN,
           nonblock : BOOLEAN, listening : BOOLEAN]

(* The types of a call and of its steps; no descriptor leaked.             *)
SocketType ==
  /\ call \in [uri : Uris, server : BOOLEAN, scheme : Schemes]
  /\ pc \in {"entry", "socket", "bind", "address", "setup", "done"}
  /\ leaks = 0 /\ fd \in FdType
  /\ pc # "done" => result = ""

(* Before the settings nothing is open, but the socket of a unix address.  *)
BeforeSetup ==
  /\ pc \in {"entry", "socket", "address"} => fd = NoFd
  /\ pc \in {"socket", "bind"} => Type = "unix"
  /\ pc = "address" => Type = "tcp"
  /\ pc = "bind" => fd.kind = "unix" /\ ~fd.listening

(* The file that an URI of type t asks for, before and after its settings. *)
Begun(f, t, server) ==
  /\ f.kind = t /\ (f.named \/ f.kind = "char")
  /\ f.kind = "sd" => server

Finished(f, t, server) ==
  /\ Begun(f, t, server) /\ f.cloexec /\ f.nonblock
  /\ f.listening <=> (server /\ f.kind # "sd")
  /\ f.kind = "char" => ~server

(* What the settings and the end of a call find.                           *)
AtSetup == pc = "setup" => Begun(fd, Type, call.server) /\ ~fd.listening

AtEnd == pc = "done" => IF result = "fd" THEN Finished(fd, Type, call.server) ELSE fd = NoFd

SocketInv == SocketType /\ BeforeSetup /\ AtSetup /\ AtEnd

(* get_entry always finds one of the kinds of the table.                   *)
LEMMA TypeOfUri ==
  Type \in {"tcp", "sd", "unix", "char"}
BY DEF Type, get_entry, ToSet, Entries, Inet

(* A call that opened nothing has no descriptor.                           *)
LEMMA NoFdType == NoFd \in FdType /\ NoFd.kind = "none"
BY DEF NoFd, FdType, FdKinds

(* The files that the first steps open are what the URI asks for.          *)
Ready(f, t, server) == f \in FdType /\ Begun(f, t, server) /\ f.listening = FALSE

LEMMA FilesAreReady ==
  ASSUME NEW server \in BOOLEAN
  PROVE  /\ Ready(File("char"), "char", server)
         /\ Ready([File("sd") EXCEPT !.named = TRUE], "sd", TRUE)
         /\ Ready([File("tcp") EXCEPT !.named = TRUE, !.reuse = server], "tcp", server)
         /\ File("unix") \in FdType /\ File("unix").kind = "unix" /\ File("unix").listening = FALSE
BY DEF Ready, Begun, File, NoFd, FdType, FdKinds

(* bind or connect names the socket of a unix address.                     *)
LEMMA NamedIsReady ==
  ASSUME NEW f \in FdType, f.kind = "unix", ~f.listening, NEW server \in BOOLEAN
  PROVE  Ready([f EXCEPT !.named = TRUE], "unix", server)
<1>1. f.listening = FALSE
  BY DEF FdType
<1> QED
  BY <1>1 DEF Ready, Begun, FdType

(* The settings keep the kind of file and its name.                        *)
LEMMA SettingsKeep ==
  ASSUME NEW f \in FdType
  PROVE  LET set == [f EXCEPT !.cloexec = TRUE, !.nonblock = TRUE]
             listens == [set EXCEPT !.listening = TRUE]
         IN /\ set \in FdType /\ set.kind = f.kind /\ set.named = f.named
            /\ set.cloexec = TRUE /\ set.nonblock = TRUE /\ set.listening = f.listening
            /\ listens \in FdType /\ listens.kind = f.kind /\ listens.named = f.named
            /\ listens.cloexec = TRUE /\ listens.nonblock = TRUE /\ listens.listening = TRUE
BY DEF FdType

(* A call starts with nothing open.                                        *)
LEMMA SocketInitial == SocketInit => SocketInv
<1> SUFFICES ASSUME SocketInit PROVE SocketInv
  OBVIOUS
<1>1. fd \in FdType /\ fd = NoFd
  BY NoFdType DEF SocketInit
<1> QED
  BY <1>1 DEF SocketInit, SocketInv, SocketType, BeforeSetup, AtSetup, AtEnd

(* Each step of rp_socket_open_scheme keeps what the later ones rely on.   *)
LEMMA SocketStep == SocketInv /\ [SocketNext]_socketVars => SocketInv'
<1> SUFFICES ASSUME SocketInv, [SocketNext]_socketVars PROVE SocketInv'
  OBVIOUS
<1>0. /\ Type' = Type /\ Type \in {"tcp", "sd", "unix", "char"}
      /\ call' = call /\ call.server \in BOOLEAN
  <2>1. call' = call
    BY DEF SocketNext, Entry, UnixSocket, UnixBind, TcpAddress, TcpNone, Setup, socketVars
  <2> QED
    BY <2>1, TypeOfUri DEF Type, SocketInv, SocketType
<1>1. CASE Entry
  <2>1. result' # "fd" /\ fd = NoFd /\ leaks' = 0 /\ pc' \in {"socket", "setup", "address", "done"} /\ (pc' # "done" => result' = "")
    BY <1>1 DEF Entry, Goes, Returns, SocketInv, SocketType, BeforeSetup
  <2>2. CASE pc' = "setup"
    <3>1. Ready(fd', Type, call.server)
      BY <1>0, <1>1, <2>2, FilesAreReady DEF Entry, Goes, Returns, Inet
    <3> QED
      BY <1>0, <2>1, <2>2, <3>1 DEF Ready, SocketInv, SocketType, BeforeSetup, AtSetup, AtEnd, FdType
  <2>3. CASE pc' # "setup"
    <3>1. fd' = NoFd
      BY <1>1, <2>1, <2>3 DEF Entry, Goes, Returns
    <3>2. /\ pc' = "socket" => Type = "unix"
          /\ pc' = "address" => Type = "tcp"
      BY <1>1, <2>1, <2>3 DEF Entry, Goes, Returns, Inet
    <3> QED
      BY <1>0, <2>1, <2>3, <3>1, <3>2, NoFdType DEF SocketInv, SocketType, BeforeSetup, AtSetup, AtEnd
  <2> QED
    BY <2>2, <2>3
<1>2. CASE UnixSocket
  <2>1. /\ fd = NoFd /\ Type = "unix" /\ leaks' = 0 /\ result' # "fd"
        /\ \/ pc' = "bind" /\ fd' = File("unix") /\ result' = ""
           \/ pc' = "done" /\ fd' = NoFd
    BY <1>2 DEF UnixSocket, Goes, Returns, SocketInv, SocketType, BeforeSetup
  <2> QED
    BY <1>0, <2>1, NoFdType, FilesAreReady DEF SocketInv, SocketType, BeforeSetup, AtSetup, AtEnd
<1>3. CASE UnixBind
  <2>1. /\ Type = "unix" /\ leaks' = 0 /\ result' # "fd"
        /\ fd \in FdType /\ fd.kind = "unix" /\ ~fd.listening
        /\ \/ pc' = "setup" /\ fd' = [fd EXCEPT !.named = TRUE] /\ result' = ""
           \/ pc' = "done" /\ fd' = NoFd
    BY <1>3 DEF UnixBind, Goes, Returns, SocketInv, SocketType, BeforeSetup
  <2>2. Ready([fd EXCEPT !.named = TRUE], "unix", call.server)
    BY <1>0, <2>1, NamedIsReady
  <2> QED
    BY <1>0, <2>1, <2>2, NoFdType DEF Ready, SocketInv, SocketType, BeforeSetup, AtSetup, AtEnd, FdType
<1>4. CASE TcpAddress
  <2>1. /\ Type = "tcp" /\ leaks' = 0 /\ result' # "fd"
        /\ \/ pc' = "setup" /\ fd' = [File("tcp") EXCEPT !.named = TRUE, !.reuse = call.server] /\ result' = ""
           \/ pc' = "address" /\ fd' = NoFd /\ result' = ""
    BY <1>4 DEF TcpAddress, Goes, Returns, SocketInv, SocketType, BeforeSetup
  <2>2. Ready([File("tcp") EXCEPT !.named = TRUE, !.reuse = call.server], "tcp", call.server)
    BY <1>0, FilesAreReady
  <2> QED
    BY <1>0, <2>1, <2>2, NoFdType DEF Ready, SocketInv, SocketType, BeforeSetup, AtSetup, AtEnd, FdType
<1>5. CASE TcpNone
  BY <1>0, <1>5, NoFdType DEF TcpNone, Goes, Returns, SocketInv, SocketType, BeforeSetup, AtSetup, AtEnd
<1>6. CASE Setup
  <2> DEFINE set == [fd EXCEPT !.cloexec = TRUE, !.nonblock = TRUE]
             listens == call.server /\ Type # "sd"
  <2>1. fd \in FdType /\ Begun(fd, Type, call.server) /\ fd.listening = FALSE /\ leaks' = 0
    BY <1>6 DEF Setup, SocketInv, SocketType, AtSetup, FdType
  <2>2. /\ pc' = "done" /\ result' \in {"fd", "error"}
        /\ \/ ~listens /\ fd' = set /\ result' = "fd"
           \/ listens /\ set.kind # "char" /\ fd' = [set EXCEPT !.listening = TRUE] /\ result' = "fd"
           \/ fd' = NoFd /\ result' = "error"
    BY <1>6 DEF Setup, Returns
  <2>3. result' = "fd" => fd' \in FdType /\ Finished(fd', Type, call.server)
    BY <1>0, <2>1, <2>2, SettingsKeep DEF Finished, Begun
  <2> QED
    BY <1>0, <2>1, <2>2, <2>3, NoFdType DEF SocketInv, SocketType, BeforeSetup, AtSetup, AtEnd
<1>7. CASE UNCHANGED socketVars
  BY <1>0, <1>7 DEF SocketInv, SocketType, BeforeSetup, AtSetup, AtEnd, socketVars
<1> QED
  BY <1>1, <1>2, <1>3, <1>4, <1>5, <1>6, <1>7 DEF SocketNext

(* A descriptor that socket.c returns is of the kind that the URI or the   *)
(* default scheme asks for, named, with its flags set and listening only   *)
(* for a server; a call that fails leaves nothing open. For every set of   *)
(* URIs and schemes and any number of addresses.                           *)
THEOREM SocketCorrect == SocketSpec => []SocketAsAsked
<1>1. SocketInv => SocketIsReady
  BY NoFdType, TypeOfUri DEF SocketInv, SocketType, AtEnd, SocketIsReady, Finished, Begun
<1>2. SocketInv => KindIsAsked
  <2>1. Type = CASE call.uri.prefix \in ToSet(Entries) -> call.uri.prefix
                 [] call.uri.prefix \notin ToSet(Entries) /\ call.scheme \in ToSet(Entries) -> call.scheme
                 [] OTHER -> "tcp"
    <3>1. CASE call.uri.prefix \in ToSet(Entries)
      BY <3>1 DEF Type, get_entry
    <3>2. CASE call.uri.prefix \notin ToSet(Entries) /\ call.scheme \in ToSet(Entries)
      BY <3>2 DEF Type, get_entry
    <3>3. CASE call.uri.prefix \notin ToSet(Entries) /\ call.scheme \notin ToSet(Entries)
      BY <3>3 DEF Type, get_entry, Inet
    <3> QED
      BY <3>1, <3>2, <3>3
  <2>2. SocketInv /\ result = "fd" => Finished(fd, Type, call.server)
    BY DEF SocketInv, SocketType, AtEnd
  <2> QED
    BY <2>1, <2>2 DEF KindIsAsked, Finished, Begun
<1> QED
  BY <1>1, <1>2, SocketInitial, SocketStep, PTL DEF SocketSpec, SocketAsAsked

-----------------------------------------------------------------------------
(* A message of libcurl names a transfer and tells whether it went well.   *)
QueuedMessage == Requests \X BOOLEAN
(* The fields of a request.                                                *)
States == {"none", "running", "ended", "kept", "freed"}
Bodies == Seq(Blocks \cup {"message"})
Statuses == {0, 200, -1}
Rqt == [state : States, sent : Bodies, body : Bodies, status : Statuses, calls : Nat]

(* What the state of a request says of its calls and of its body.          *)
RqtInv(q) ==
  /\ q.state = "none" => q.calls = 0 /\ q.body = q.sent
  /\ q.state = "running" => q.calls = 0 /\ q.body = q.sent
  /\ q.state = "ended" => q.calls = 0
  /\ q.state = "kept" => q.calls = 1
  /\ q.calls <= 1 /\ (q.calls = 1 /\ q.status = 200 => q.body = q.sent)

(* A message is the only one of its request, which ended and waits for its *)
(* call, with the whole body when the transfer went well.                  *)
MessagesInv(all, msgs) ==
  /\ msgs \in Seq(QueuedMessage)
  /\ \A k \in 1..Len(msgs) : /\ all[msgs[k][1]].state = "ended"
                             /\ msgs[k][2] => all[msgs[k][1]].body = all[msgs[k][1]].sent
  /\ \A k, l \in 1..Len(msgs) : msgs[k][1] = msgs[l][1] => k = l

(* The invariant of the pool, of the requests and messages in any state of *)
(* their processing.                                                       *)
PoolGood(all, msgs) ==
  /\ all \in [Requests -> Rqt] /\ \A r \in Requests : RqtInv(all[r])
  /\ MessagesInv(all, msgs)

PoolInv == PoolGood(rqts, messages)

(* What a concatenation is.                                                *)
LEMMA Concatenated ==
  ASSUME NEW S, NEW s \in Seq(S), NEW t \in Seq(S)
  PROVE  /\ s \o t \in Seq(S) /\ Len(s \o t) = Len(s) + Len(t)
         /\ \A i \in 1..Len(s \o t) : (s \o t)[i] = IF i <= Len(s) THEN s[i] ELSE t[i - Len(s)]
OBVIOUS

(* A request with new values for the fields that change, and its type.     *)
Changed(q, state, status, body, calls) ==
  [q EXCEPT !.status = status, !.calls = calls, !.body = body, !.state = state]

LEMMA RqtChanged ==
  ASSUME NEW q \in Rqt, NEW state \in States, NEW status \in Statuses, NEW body \in Bodies, NEW calls \in Nat
  PROVE  /\ Changed(q, state, status, body, calls) \in Rqt
         /\ Changed(q, state, status, body, calls).status = status
         /\ Changed(q, state, status, body, calls).calls = calls
         /\ Changed(q, state, status, body, calls).body = body
         /\ Changed(q, state, status, body, calls).sent = q.sent
         /\ Changed(q, state, status, body, calls).state = state
BY Zenon DEF Rqt, Changed

(* A request called for the first time is as its state says.               *)
LEMMA CalledIsGood ==
  ASSUME NEW q \in Rqt, q.calls = 0, NEW ok \in BOOLEAN, NEW keep \in BOOLEAN,
         ok => q.body = q.sent
  PROVE  Called(q, ok, keep) \in Rqt /\ RqtInv(Called(q, ok, keep))
<1>1. PICK status \in {200, -1} : status = IF ok THEN 200 ELSE -1
  OBVIOUS
<1>2. PICK state \in {"kept", "freed"} : state = IF keep THEN "kept" ELSE "freed"
  OBVIOUS
<1>3. PICK body \in Bodies : body = IF ok THEN q.body ELSE <<"message">>
  <2>1. <<"message">> \in Bodies /\ q.body \in Bodies
    BY DEF Bodies, Rqt
  <2> QED
    BY <2>1, Zenon
<1>4. PICK calls \in Nat : calls = q.calls + 1
  BY DEF Rqt
<1>5. status = 200 => body = q.sent
  BY <1>1, <1>3
<1>6. Called(q, ok, keep) = Changed(q, state, status, body, calls)
  BY <1>1, <1>2, <1>3, <1>4, SMTT(60) DEF Called, Changed
<1>7. status \in Statuses /\ state \in States
  BY DEF States, Statuses
<1> QED
  BY <1>4, <1>5, <1>6, <1>7, RqtChanged DEF RqtInv

(* Reading a message calls a request that was not called.                  *)
LEMMA MessageIsRead ==
  ASSUME NEW all, NEW msgs, PoolGood(all, msgs), NEW keep \in BOOLEAN
  PROVE  LET after == multiCheckInfoCB(all, msgs, keep)
         IN PoolGood(after.rqts, after.messages)
<1> DEFINE r == msgs[1][1]
           new == [all EXCEPT ![r] = Called(@, msgs[1][2], keep)]
<1>1. CASE msgs = << >>
  BY <1>1 DEF multiCheckInfoCB
<1>2. CASE msgs # << >>
  <2>1. Len(msgs) \in Nat \ {0} /\ msgs \in Seq(QueuedMessage) /\ 1 \in 1..Len(msgs)
    BY <1>2 DEF PoolGood, MessagesInv
  <2>2. r \in Requests /\ msgs[1][2] \in BOOLEAN
    BY <2>1 DEF QueuedMessage
  <2>3. all[r] \in Rqt /\ all[r].calls = 0 /\ (msgs[1][2] => all[r].body = all[r].sent)
    BY <2>1, <2>2 DEF PoolGood, MessagesInv, RqtInv
  <2>4. new \in [Requests -> Rqt] /\ \A x \in Requests : RqtInv(new[x])
    BY <2>2, <2>3, CalledIsGood DEF PoolGood
  <2>5. /\ Tail(msgs) \in Seq(QueuedMessage) /\ Len(Tail(msgs)) = Len(msgs) - 1
        /\ \A i \in 1 .. Len(Tail(msgs)) : Tail(msgs)[i] = msgs[i+1]
    BY <1>2, <2>1, HeadTailProperties
  <2>6. \A i \in 1 .. Len(Tail(msgs)) : Tail(msgs)[i][1] # r /\ new[Tail(msgs)[i][1]] = all[Tail(msgs)[i][1]]
    BY <2>1, <2>2, <2>5 DEF PoolGood, MessagesInv
  <2>7. MessagesInv(new, Tail(msgs))
    BY <2>1, <2>5, <2>6 DEF PoolGood, MessagesInv
  <2> QED
    BY <1>2, <2>4, <2>7 DEF PoolGood, multiCheckInfoCB
<1> QED
  BY <1>1, <1>2

(* Transfers that end, each once, leave one message each.                  *)
LEMMA ActsKeepsInv ==
  ASSUME PoolInv, NEW all \in [Requests -> Rqt], NEW ending \in Seq(Requests), IsInjective(ending),
         NEW ok \in BOOLEAN, NEW keep \in BOOLEAN,
         \A r \in Requests \ ToSet(ending) : RqtInv(all[r]) /\ (rqts[r].state = "ended" => all[r] = rqts[r]),
         \A r \in ToSet(ending) : /\ rqts[r].state = "running" /\ all[r].state = "running" /\ all[r].calls = 0
                                  /\ ok => all[r].body = all[r].sent,
         Acts(all, ending, ok, keep)
  PROVE  PoolInv'
<1> DEFINE ended == [r \in Requests |-> IF r \in ToSet(ending) THEN [all[r] EXCEPT !.state = "ended"] ELSE all[r]]
           new == [k \in DOMAIN ending |-> <<ending[k], ok>>]
           msgs == messages \o new
<1>1. /\ Len(ending) \in Nat /\ DOMAIN ending = 1..Len(ending)
      /\ \A k \in 1..Len(ending) : ending[k] \in Requests /\ ending[k] \in ToSet(ending)
  BY DEF ToSet
<1>2. new \in Seq(QueuedMessage) /\ Len(new) = Len(ending)
  BY <1>1 DEF QueuedMessage
<1>3. messages \in Seq(QueuedMessage) /\ Len(messages) \in Nat
  BY DEF PoolInv, PoolGood, MessagesInv
<1>4. /\ msgs \in Seq(QueuedMessage) /\ Len(msgs) = Len(messages) + Len(ending)
      /\ \A i \in 1..Len(msgs) : msgs[i] = IF i <= Len(messages) THEN messages[i] ELSE new[i - Len(messages)]
  <2>1. \A n \in Seq(QueuedMessage) :
          /\ messages \o n \in Seq(QueuedMessage) /\ Len(messages \o n) = Len(messages) + Len(n)
          /\ \A i \in 1..Len(messages \o n) : (messages \o n)[i] = IF i <= Len(messages) THEN messages[i] ELSE n[i - Len(messages)]
    BY <1>3, Concatenated
  <2> HIDE DEF new, ended
  <2> QED
    BY <1>2, <2>1, Zenon
<1>5. ended \in [Requests -> Rqt] /\ \A r \in Requests : RqtInv(ended[r])
  <2> SUFFICES ASSUME NEW r \in Requests PROVE ended[r] \in Rqt /\ RqtInv(ended[r])
    OBVIOUS
  <2>1. CASE r \in ToSet(ending)
    <3>1. ended[r] = [all[r] EXCEPT !.state = "ended"] /\ all[r] \in Rqt
      BY <2>1
    <3> QED
      BY <2>1, <3>1 DEF Rqt, RqtInv, States
  <2>2. CASE r \notin ToSet(ending)
    BY <2>2
  <2> QED
    BY <2>1, <2>2
<1>6. \A i \in 1..Len(messages) : messages[i][1] \in Requests \ ToSet(ending) /\ all[messages[i][1]] = rqts[messages[i][1]]
  BY <1>3 DEF PoolInv, PoolGood, MessagesInv, QueuedMessage
<1>7. \A i \in 1..Len(msgs) : /\ i <= Len(messages) => msgs[i] = messages[i] /\ ended[msgs[i][1]] = rqts[messages[i][1]]
                              /\ i > Len(messages) => /\ i - Len(messages) \in 1..Len(ending)
                                                      /\ msgs[i] = <<ending[i - Len(messages)], ok>>
  BY <1>1, <1>3, <1>4, <1>6
<1>8. \A r \in ToSet(ending) : ended[r].state = "ended" /\ (ok => ended[r].body = ended[r].sent)
  <2>1. ToSet(ending) \subseteq Requests
    BY <1>1 DEF ToSet
  <2> QED
    BY <2>1 DEF Rqt
<1>9. MessagesInv(ended, msgs)
  <2>1. \A k \in 1..Len(msgs) : /\ ended[msgs[k][1]].state = "ended"
                                /\ msgs[k][2] => ended[msgs[k][1]].body = ended[msgs[k][1]].sent
    <3> SUFFICES ASSUME NEW k \in 1..Len(msgs)
                 PROVE  /\ ended[msgs[k][1]].state = "ended"
                        /\ msgs[k][2] => ended[msgs[k][1]].body = ended[msgs[k][1]].sent
      OBVIOUS
    <3> HIDE DEF ended, msgs
    <3>1. CASE k <= Len(messages)
      BY <1>3, <1>4, <1>7, <3>1, SMTT(60) DEF PoolInv, PoolGood, MessagesInv
    <3>2. CASE k > Len(messages)
      BY <1>1, <1>7, <1>8, <3>2
    <3> QED
      BY <1>3, <1>4, <3>1, <3>2
  <2>2. \A k, l \in 1..Len(msgs) : msgs[k][1] = msgs[l][1] => k = l
    <3> SUFFICES ASSUME NEW k \in 1..Len(msgs), NEW l \in 1..Len(msgs), msgs[k][1] = msgs[l][1]
                 PROVE  k = l
      OBVIOUS
    <3> HIDE DEF ended, msgs
    <3>1. CASE k <= Len(messages) /\ l <= Len(messages)
      BY <1>3, <1>4, <1>7, <3>1, SMTT(60) DEF PoolInv, PoolGood, MessagesInv
    <3>2. CASE k > Len(messages) /\ l > Len(messages)
      <4>1. /\ k - Len(messages) \in DOMAIN ending /\ l - Len(messages) \in DOMAIN ending
            /\ ending[k - Len(messages)] = ending[l - Len(messages)]
        BY <1>1, <1>7, <3>2, SMTT(60)
      <4>2. k - Len(messages) = l - Len(messages)
        BY <4>1 DEF IsInjective
      <4> QED
        BY <1>3, <1>4, <4>2
    <3> DEFINE Old(i) == i <= Len(messages)
    <3>5. \A i \in 1..Len(msgs) : /\ Old(i) => msgs[i][1] \notin ToSet(ending)
                                  /\ ~Old(i) => msgs[i][1] \in ToSet(ending)
      <4> SUFFICES ASSUME NEW i \in 1..Len(msgs)
                   PROVE  /\ Old(i) => msgs[i][1] \notin ToSet(ending)
                          /\ ~Old(i) => msgs[i][1] \in ToSet(ending)
        OBVIOUS
      <4>1. CASE Old(i)
        <5>1. i \in 1..Len(messages) /\ msgs[i] = messages[i]
          BY <1>3, <1>4, <1>7, <4>1
        <5> QED
          BY <1>6, <4>1, <5>1
      <4>2. CASE ~Old(i)
        <5>1. i - Len(messages) \in 1..Len(ending) /\ msgs[i][1] = ending[i - Len(messages)]
          BY <1>3, <1>4, <1>7, <4>2
        <5> QED
          BY <1>1, <4>2, <5>1
      <4> QED
        BY <4>1, <4>2
    <3>6. Old(k) <=> Old(l)
      <4> HIDE DEF Old
      <4> QED
        BY <3>5
    <3>3. CASE k <= Len(messages) /\ l > Len(messages)
      BY <1>3, <1>4, <3>3, <3>6
    <3>4. CASE k > Len(messages) /\ l <= Len(messages)
      BY <1>3, <1>4, <3>4, <3>6
    <3> QED
      BY <1>3, <1>4, <3>1, <3>2, <3>3, <3>4
  <2> HIDE DEF ended, msgs
  <2> QED
    BY <1>4, <2>1, <2>2 DEF MessagesInv
<1> QED
  BY <1>5, <1>9, MessageIsRead DEF Acts, PoolGood, PoolInv

(* SetToSeq puts each element of a finite set once in a sequence.          *)
LEMMA InSequence ==
  ASSUME NEW S, IsFiniteSet(S)
  PROVE  SetToSeq(S) \in Seq(S) /\ IsInjective(SetToSeq(S)) /\ ToSet(SetToSeq(S)) = S
<1> DEFINE n == Cardinality(S)
<1>1. n \in Nat /\ ExistsBijection(1..n, S)
  BY FS_CardinalityType
<1>2. PICK f \in [1..n -> S] : IsInjective(f)
  BY <1>1 DEF ExistsBijection, Bijection, Injection, IsInjective
<1>3. SetToSeq(S) \in [1..n -> S] /\ IsInjective(SetToSeq(S))
  BY <1>2 DEF SetToSeq
<1>4. \A x \in S : \E i \in 1..n : SetToSeq(S)[i] = x
  <2>1. SetToSeq(S) \in Injection(1..n, S)
    BY <1>3 DEF Injection, IsInjective
  <2>2. IsFiniteSet(1..n) /\ Cardinality(1..n) = n
    BY <1>1, FS_Interval
  <2>3. SetToSeq(S) \in Surjection(1..n, S)
    BY <2>1, <2>2, FS_Injection
  <2> QED
    BY <2>3 DEF Surjection
<1>5. PICK g \in [1..n -> S] : g = SetToSeq(S)
  BY <1>3
<1>6. g \in Seq(S)
  BY <1>1
<1>7. ToSet(g) = S
  BY <1>4, <1>5 DEF ToSet
<1> QED
  BY <1>3, <1>5, <1>6, <1>7

(* No request was sent at the start.                                       *)
LEMMA PoolInitial == PoolInit => PoolInv
<1> SUFFICES ASSUME PoolInit PROVE PoolInv
  OBVIOUS
<1>1. NoRqt \in Rqt /\ RqtInv(NoRqt)
  BY DEF NoRqt, Rqt, RqtInv, States, Bodies, Statuses
<1>2. MessagesInv(rqts, << >>)
  BY DEF MessagesInv
<1> QED
  BY <1>1, <1>2 DEF PoolInit, PoolInv, PoolGood

(* Sending a request, receiving blocks and the end of transfers keep the   *)
(* invariant.                                                              *)
LEMMA PoolStep == PoolInv /\ [PoolNext]_poolVars => PoolInv'
<1> SUFFICES ASSUME PoolInv, [PoolNext]_poolVars PROVE PoolInv'
  OBVIOUS
<1>0. rqts \in [Requests -> Rqt] /\ \A r \in Requests : RqtInv(rqts[r])
  BY DEF PoolInv, PoolGood
<1>1. ASSUME NEW r \in Requests, httpSendQuery(r) PROVE PoolInv'
  <2>1. PICK s \in {"running", "freed"} : rqts' = [rqts EXCEPT ![r].state = s]
    BY <1>1 DEF httpSendQuery
  <2>2. rqts[r].state = "none" /\ messages' = messages
    BY <1>1 DEF httpSendQuery
  <2>3. [rqts[r] EXCEPT !.state = s] \in Rqt /\ RqtInv([rqts[r] EXCEPT !.state = s])
    BY <1>0, <2>2 DEF Rqt, RqtInv, States
  <2>4. rqts' \in [Requests -> Rqt] /\ \A x \in Requests : RqtInv(rqts'[x])
    BY <1>0, <2>1, <2>3
  <2>5. \A k \in 1..Len(messages) : rqts'[messages[k][1]] = rqts[messages[k][1]]
    BY <1>0, <2>1, <2>2 DEF PoolInv, PoolGood, MessagesInv
  <2> QED
    BY <2>2, <2>4, <2>5 DEF PoolInv, PoolGood, MessagesInv
<1>2. ASSUME NEW r \in Requests, NEW b \in Blocks, NEW keep \in BOOLEAN, ReceivesBlock(r, b, keep) PROVE PoolInv'
  <2> DEFINE more == [rqts EXCEPT ![r] = httpBodyCB(@, b)]
             gone == [rqts EXCEPT ![r] = httpBodyLost(@)]
  <2>1. rqts[r].state = "running" /\ rqts[r].calls = 0 /\ rqts[r] \in Rqt
    BY <1>0, <1>2 DEF ReceivesBlock, Running, RqtInv
  <2>2. CASE Acts(more, << >>, TRUE, keep)
    <3>1. httpBodyCB(rqts[r], b) \in Rqt /\ RqtInv(httpBodyCB(rqts[r], b))
      <4>1. Append(rqts[r].sent, b) \in Bodies /\ Append(rqts[r].body, b) \in Bodies
        BY <2>1 DEF Rqt, Bodies
      <4> QED
        BY <1>0, <2>1, <4>1 DEF httpBodyCB, Rqt, RqtInv
    <3>2. more \in [Requests -> Rqt] /\ \A x \in Requests : RqtInv(more[x]) /\ (rqts[x].state = "ended" => more[x] = rqts[x])
      BY <1>0, <2>1, <3>1
    <3>3. << >> \in Seq(Requests) /\ IsInjective(<< >>) /\ ToSet(<< >>) = {}
      BY DEF IsInjective, ToSet
    <3> HIDE DEF more
    <3> QED
      BY <2>2, <3>2, <3>3, ActsKeepsInv
  <2>3. CASE Acts(gone, <<r>>, FALSE, keep)
    <3>1. httpBodyLost(rqts[r]) \in Rqt /\ httpBodyLost(rqts[r]).state = "running" /\ httpBodyLost(rqts[r]).calls = 0
      <4>1. << >> \in Bodies
        BY DEF Bodies
      <4> QED
        BY <2>1, <4>1 DEF httpBodyLost, Rqt
    <3>2. gone \in [Requests -> Rqt] /\ (\A x \in Requests \ {r} : RqtInv(gone[x]) /\ gone[x] = rqts[x]) /\ gone[r].state = "running" /\ gone[r].calls = 0
      BY <1>0, <3>1
    <3>3. <<r>> \in Seq(Requests) /\ IsInjective(<<r>>) /\ ToSet(<<r>>) = {r}
      BY DEF IsInjective, ToSet
    <3> HIDE DEF gone
    <3> QED
      BY <2>1, <2>3, <3>2, <3>3, ActsKeepsInv
  <2> QED
    BY <1>2, <2>2, <2>3 DEF ReceivesBlock
<1>3. ASSUME NEW r \in Requests, NEW bs \in SeqOf(Blocks, MaxBlocks), NEW ok \in BOOLEAN, SendsAndWaits(r, bs, ok) PROVE PoolInv'
  <2> DEFINE done == [rqts[r] EXCEPT !.sent = @ \o bs, !.body = @ \o bs, !.state = "running"]
             end == IF ok THEN Called(done, TRUE, TRUE) ELSE [done EXCEPT !.state = "freed"]
  <2>1. rqts[r].state = "none" /\ messages' = messages /\ rqts' = [rqts EXCEPT ![r] = end]
    BY <1>3 DEF SendsAndWaits
  <2>2. done \in Rqt /\ done.calls = 0 /\ done.body = done.sent
    <3>1. rqts[r].calls = 0 /\ rqts[r].body = rqts[r].sent /\ rqts[r] \in Rqt
      BY <1>0, <2>1 DEF RqtInv
    <3>2. rqts[r].sent \o bs \in Bodies
      <4>1. bs \in Seq(Blocks \cup {"message"})
        BY DEF SeqOf
      <4> QED
        BY <3>1, <4>1 DEF Rqt, Bodies
    <3> QED
      BY <3>1, <3>2, Zenon DEF Rqt, States
  <2>3. end \in Rqt /\ RqtInv(end)
    <3> HIDE DEF done
    <3>1. CASE ok
      BY <2>2, <3>1, CalledIsGood
    <3>2. CASE ~ok
      <4>1. end = [done EXCEPT !.state = "freed"]
        BY <3>2
      <4> HIDE DEF end
      <4> QED
        BY <2>2, <4>1 DEF Rqt, RqtInv, States
    <3> QED
      BY <3>1, <3>2
  <2> HIDE DEF end
  <2>4. rqts' \in [Requests -> Rqt] /\ \A x \in Requests : RqtInv(rqts'[x])
    BY <1>0, <2>1, <2>3
  <2>5. \A k \in 1..Len(messages) : rqts'[messages[k][1]] = rqts[messages[k][1]]
    BY <1>0, <2>1 DEF PoolInv, PoolGood, MessagesInv
  <2> QED
    BY <2>1, <2>4, <2>5 DEF PoolInv, PoolGood, MessagesInv
<1>4. ASSUME NEW ending \in SUBSET Requests, NEW ok \in BOOLEAN, NEW keep \in BOOLEAN, EndsTransfers(ending, ok, keep) PROVE PoolInv'
  <2>1. /\ SetToSeq(ending) \in Seq(ending) /\ IsInjective(SetToSeq(ending)) /\ ToSet(SetToSeq(ending)) = ending
        /\ SetToSeq(ending) \in Seq(Requests)
    <3>1. IsFiniteSet(ending)
      BY RequestsAssumption, FS_Subset
    <3> QED
      BY <3>1, InSequence, SeqMonotonic
  <2>2. \A r \in ending : rqts[r].state = "running" /\ rqts[r].calls = 0 /\ rqts[r].body = rqts[r].sent
    BY <1>0, <1>4 DEF EndsTransfers, Running, RqtInv
  <2> QED
    BY <1>0, <1>4, <2>1, <2>2, ActsKeepsInv DEF EndsTransfers
<1>5. CASE UNCHANGED poolVars
  BY <1>5 DEF poolVars, PoolInv, PoolGood, MessagesInv
<1> QED
  BY <1>1, <1>2, <1>3, <1>4, <1>5 DEF PoolNext

(* The callback of a request of curl-client.c is called once at most, on a *)
(* request that was not freed, with the whole body or an error: for every  *)
(* finite set of requests, all blocks and any order of the end of the      *)
(* transfers.                                                              *)
THEOREM PoolCorrect == PoolSpec => []CalledOnceWhole
<1>1. PoolInv => CalledOnceWhole
  <2> SUFFICES ASSUME PoolInv, NEW r \in Requests
               PROVE  LET q == rqts[r]
                      IN /\ q.calls <= 1 /\ (q.state = "kept" => q.calls = 1)
                         /\ q.calls = 1 /\ q.status = 200 => q.body = q.sent
                         /\ \A k \in DOMAIN messages : messages[k][1] = r => q.state = "ended" /\ q.calls = 0
    BY DEF CalledOnceWhole
  <2>1. RqtInv(rqts[r]) /\ MessagesInv(rqts, messages) /\ DOMAIN messages = 1..Len(messages)
    BY DEF PoolInv, PoolGood, MessagesInv
  <2> QED
    BY <2>1 DEF RqtInv, MessagesInv
<1> QED
  BY <1>1, PoolInitial, PoolStep, PTL DEF PoolSpec

-----------------------------------------------------------------------------
(* What a call is made of.                                                 *)
BufSlots == 1..WS_BUFS_COUNT
Octets == Seq(Nat)
On == {"data", "extension", "close", "ping", "pong", "error"}
Rc == {"ok", "EBUSY", "EPROTO", "EMSGSIZE"}
BufferRec == [id : Nat, data : Octets]
Piece == [id : Nat, from : Nat, len : Nat]
EventRec == [on : On, op : Nat, fin : BOOLEAN, payload : Octets]

WsRec ==
  [state : {"INIT", "START", "LENGTH", "DATA"}, header : Octets, szhead : Nat, length : Nat,
   mask : [1..4 -> Nat], bufs : [BufSlots -> BufferRec], uses : [BufSlots -> Nat]]

Calls ==
  [ws : WsRec, held : Seq(Piece), freed : SUBSET Nat, wrong : BOOLEAN, lost : [1..MaxBuffers -> Nat],
   events : Seq(EventRec), out : Seq(Octets), rc : Rc]

(* A call with other values for what counts the buffers.                   *)
Slotted(d, u, b) == [d EXCEPT !.ws = [@ EXCEPT !.uses = u, !.bufs = b]]

LEMMA SlottedIs ==
  ASSUME NEW d \in Calls, NEW u \in [BufSlots -> Nat], NEW b \in [BufSlots -> BufferRec]
  PROVE  LET n == Slotted(d, u, b)
         IN  /\ n \in Calls /\ n.ws.uses = u /\ n.ws.bufs = b
             /\ n.held = d.held /\ n.freed = d.freed /\ n.wrong = d.wrong /\ n.lost = d.lost
             /\ n.events = d.events /\ n.out = d.out /\ n.rc = d.rc
             /\ n.ws.state = d.ws.state /\ n.ws.header = d.ws.header /\ n.ws.szhead = d.ws.szhead
             /\ n.ws.length = d.ws.length /\ n.ws.mask = d.ws.mask
BY DEF Calls, WsRec, Slotted

LEMMA GetIs ==
  ASSUME NEW d \in Calls, NEW i \in BufSlots
  PROVE  _getbuf_(d, i) = Slotted(d, [d.ws.uses EXCEPT ![i] = @ + 1], d.ws.bufs)
BY DEF Calls, WsRec, Slotted, _getbuf_

LEMMA PutIs ==
  ASSUME NEW d \in Calls, NEW i \in BufSlots
  PROVE  _putbuf_(d, i) =
           IF d.ws.uses[i] > 1 THEN Slotted(d, [d.ws.uses EXCEPT ![i] = @ - 1], d.ws.bufs)
           ELSE [Slotted(d, [d.ws.uses EXCEPT ![i] = 0], d.ws.bufs) EXCEPT
                   !.freed = @ \cup {d.ws.bufs[i].id}, !.wrong = @ \/ d.ws.bufs[i].id \in d.freed]
BY DEF Calls, WsRec, Slotted, _putbuf_

-----------------------------------------------------------------------------
(* The counts of the buffers, of which the ids up to g were given.  The    *)
(* call itself has n references to the buffer of the slot s.               *)
Pieces(held_, id) == {k \in DOMAIN held_ : held_[k].id = id}

Users(d, id) == d.lost[id] + Cardinality(Pieces(d.held, id))

InUse(d, j) == d.ws.uses[j] > 0

IsIn(d, j, id) == InUse(d, j) /\ d.ws.bufs[j].id = id

Counted(d, g, s, n) ==
  /\ \A j \in BufSlots : InUse(d, j) =>
       /\ d.ws.bufs[j].id \in 1..g /\ d.ws.bufs[j].id \notin d.freed
       /\ d.ws.uses[j] = Users(d, d.ws.bufs[j].id) + (IF j = s THEN n ELSE 0)
       /\ \A l \in BufSlots : IsIn(d, l, d.ws.bufs[j].id) => l = j
  /\ \A id \in 1..MaxBuffers :
       (\A j \in BufSlots : ~IsIn(d, j, id)) => Users(d, id) = 0 /\ (id \in d.freed <=> id <= g)

Located(d, piece) ==
  \E j \in BufSlots : InUse(d, j) /\ InBuffer(d.ws.bufs[j], piece)
                   /\ piece.from + piece.len - 1 <= Len(d.ws.bufs[j].data)

Buffers(d, g, s, n) ==
  /\ d \in Calls /\ ~d.wrong /\ g \in 0..MaxBuffers /\ s \in 0..WS_BUFS_COUNT /\ n \in Nat
  /\ Counted(d, g, s, n)
  /\ \A k \in DOMAIN d.held : Located(d, d.held[k])

(* The parts of a call.                                                    *)
LEMMA CallIs ==
  ASSUME NEW d \in Calls
  PROVE  /\ d.ws \in WsRec /\ d.ws.uses \in [BufSlots -> Nat] /\ d.ws.bufs \in [BufSlots -> BufferRec]
         /\ d.held \in Seq(Piece) /\ d.freed \in SUBSET Nat /\ d.wrong \in BOOLEAN
         /\ d.lost \in [1..MaxBuffers -> Nat] /\ d.rc \in Rc
         /\ \A j \in BufSlots : d.ws.bufs[j].id \in Nat /\ d.ws.bufs[j].data \in Octets
BY DEF Calls, WsRec, BufferRec

(* The pieces of a buffer.                                                 *)
LEMMA PiecesAre ==
  ASSUME NEW h \in Seq(Piece), NEW id
  PROVE  IsFiniteSet(Pieces(h, id)) /\ Cardinality(Pieces(h, id)) \in Nat
         /\ (Cardinality(Pieces(h, id)) = 0 <=> Pieces(h, id) = {})
<1>1. Pieces(h, id) \subseteq 1..Len(h) /\ Len(h) \in Nat
  BY DEF Pieces
<1>2. IsFiniteSet(1..Len(h))
  BY <1>1, FS_Interval
<1>3. IsFiniteSet(Pieces(h, id))
  BY <1>1, <1>2, FS_Subset
<1> QED
  BY <1>3, FS_CardinalityType, FS_EmptySet

LEMMA UsersAre ==
  ASSUME NEW d \in Calls, NEW id \in 1..MaxBuffers
  PROVE  Users(d, id) \in Nat
<1>1. d.lost \in [1..MaxBuffers -> Nat] /\ d.held \in Seq(Piece)
  BY CallIs
<1>2. d.lost[id] \in Nat /\ Cardinality(Pieces(d.held, id)) \in Nat
  BY <1>1, PiecesAre
<1> QED
  BY <1>2 DEF Users

(* The count of a slot in use.                                             *)
LEMMA SlotIs ==
  ASSUME NEW d, NEW g, NEW s, NEW n, Buffers(d, g, s, n), NEW j \in BufSlots, InUse(d, j)
  PROVE  /\ d.ws.bufs[j].id \in 1..g /\ d.ws.bufs[j].id \in 1..MaxBuffers /\ d.ws.bufs[j].id \notin d.freed
         /\ Users(d, d.ws.bufs[j].id) \in Nat
         /\ d.ws.uses[j] = Users(d, d.ws.bufs[j].id) + (IF j = s THEN n ELSE 0)
         /\ \A l \in BufSlots : IsIn(d, l, d.ws.bufs[j].id) => l = j
         /\ WS_BUFS_COUNT \in Nat /\ MaxBuffers \in Nat
<1>1. d.ws.bufs[j].id \in 1..g /\ d.ws.bufs[j].id \notin d.freed /\ g \in 0..MaxBuffers /\ d \in Calls
      /\ d.ws.uses[j] = Users(d, d.ws.bufs[j].id) + (IF j = s THEN n ELSE 0)
      /\ \A l \in BufSlots : IsIn(d, l, d.ws.bufs[j].id) => l = j
  BY DEF Buffers, Counted
<1>2. d.ws.bufs[j].id \in 1..MaxBuffers
  BY <1>1, WsAssumption
<1> QED
  BY <1>1, <1>2, UsersAre, WsAssumption

(* What the counts depend on.                                              *)
LEMMA Alike ==
  ASSUME NEW d, NEW g, NEW s, NEW n, Buffers(d, g, s, n), NEW e \in Calls,
         e.held = d.held, e.freed = d.freed, e.wrong = d.wrong, e.lost = d.lost, e.ws.uses = d.ws.uses,
         \A j \in BufSlots : e.ws.bufs[j].id = d.ws.bufs[j].id /\ Len(e.ws.bufs[j].data) = Len(d.ws.bufs[j].data)
  PROVE  Buffers(e, g, s, n)
<1>1. \A id : Users(e, id) = Users(d, id)
  BY DEF Users, Pieces
<1>2. \A j \in BufSlots : InUse(e, j) = InUse(d, j) /\ \A id : IsIn(e, j, id) = IsIn(d, j, id)
  BY DEF InUse, IsIn
<1>3. Counted(e, g, s, n)
  <2>1. Counted(d, g, s, n)
    BY DEF Buffers
  <2> QED
    BY <1>1, <1>2, <2>1 DEF Counted
<1>4. \A k \in DOMAIN e.held : Located(e, e.held[k])
  <2>1. \A p, j \in BufSlots : InBuffer(e.ws.bufs[j], p) = InBuffer(d.ws.bufs[j], p)
    BY DEF InBuffer
  <2>2. \A k \in DOMAIN d.held : Located(d, d.held[k])
    BY DEF Buffers
  <2>3. \A p : Located(d, p) => Located(e, p)
    BY <1>2, <2>1 DEF Located, InBuffer
  <2> QED
    BY <2>2, <2>3
<1> QED
  BY <1>3, <1>4 DEF Buffers

-----------------------------------------------------------------------------
(* What counts the references, step by step.                               *)

(* A reference more.                                                       *)
LEMMA GetCounts ==
  ASSUME NEW d, NEW g, NEW i \in BufSlots, NEW n, Buffers(d, g, i, n), InUse(d, i)
  PROVE  /\ Buffers(_getbuf_(d, i), g, i, n + 1) /\ InUse(_getbuf_(d, i), i)
         /\ _getbuf_(d, i).ws.bufs = d.ws.bufs
<1> DEFINE e == _getbuf_(d, i)
           u == [d.ws.uses EXCEPT ![i] = @ + 1]
<1>1. d \in Calls /\ n \in Nat /\ d.ws.uses \in [BufSlots -> Nat] /\ d.ws.bufs \in [BufSlots -> BufferRec]
  BY CallIs DEF Buffers
<1>2. e = Slotted(d, u, d.ws.bufs) /\ u \in [BufSlots -> Nat]
  BY <1>1, GetIs
<1> HIDE DEF e
<1>3. e \in Calls /\ e.ws.uses = u /\ e.ws.bufs = d.ws.bufs /\ e.held = d.held /\ e.freed = d.freed
      /\ e.wrong = d.wrong /\ e.lost = d.lost
  BY <1>1, <1>2, SlottedIs
<1>4. u[i] = d.ws.uses[i] + 1 /\ \A j \in BufSlots : j # i => u[j] = d.ws.uses[j]
  BY <1>1
<1>5. \A j \in BufSlots : d.ws.uses[j] \in Nat
  BY <1>1
<1> HIDE DEF u
<1>6. \A id : Users(e, id) = Users(d, id)
  BY <1>3 DEF Users, Pieces
<1>7. \A j \in BufSlots : (InUse(e, j) <=> InUse(d, j)) /\ \A id : IsIn(e, j, id) <=> IsIn(d, j, id)
  BY <1>3, <1>4, <1>5 DEF InUse, IsIn
<1>8. Counted(e, g, i, n + 1)
  <2>1. \A j \in BufSlots : InUse(d, j) => Users(d, d.ws.bufs[j].id) \in Nat
    BY SlotIs
  <2>2. Counted(d, g, i, n)
    BY DEF Buffers
  <2> QED
    BY <1>1, <1>3, <1>4, <1>6, <1>7, <2>1, <2>2 DEF Counted
<1>9. \A k \in DOMAIN e.held : Located(e, e.held[k])
  BY <1>3, <1>7 DEF Buffers, Located
<1>10. Buffers(e, g, i, n + 1)
  BY <1>1, <1>3, <1>8, <1>9 DEF Buffers
<1> QED
  BY <1>3, <1>7, <1>10 DEF e

(* A reference of the call less, the last one of the buffer or not.        *)
LEMMA PutCounts ==
  ASSUME NEW d, NEW g, NEW i \in BufSlots, NEW n, Buffers(d, g, i, n), InUse(d, i), n > 0
  PROVE  /\ Buffers(_putbuf_(d, i), g, i, n - 1)
         /\ n > 1 => InUse(_putbuf_(d, i), i)
         /\ _putbuf_(d, i).ws.bufs = d.ws.bufs
<1> DEFINE e == _putbuf_(d, i)
           u == [d.ws.uses EXCEPT ![i] = @ - 1]
           b == d.ws.bufs[i].id
<1>1. d \in Calls /\ n \in Nat /\ d.ws.uses \in [BufSlots -> Nat] /\ d.ws.bufs \in [BufSlots -> BufferRec]
      /\ d.ws.uses[i] > 0 /\ d.ws.uses[i] \in Nat /\ ~d.wrong
  BY CallIs DEF Buffers, InUse
<1>2. b \in 1..g /\ b \in 1..MaxBuffers /\ b \notin d.freed /\ Users(d, b) \in Nat /\ d.ws.uses[i] = Users(d, b) + n
      /\ \A l \in BufSlots : IsIn(d, l, b) => l = i
  BY SlotIs
<1>3. u \in [BufSlots -> Nat] /\ u[i] = d.ws.uses[i] - 1 /\ \A j \in BufSlots : j # i => u[j] = d.ws.uses[j]
  BY <1>1
<1>4. \A j \in BufSlots : InUse(d, j) => Users(d, d.ws.bufs[j].id) \in Nat
  BY SlotIs
<1>5. Counted(d, g, i, n) /\ \A k \in DOMAIN d.held : Located(d, d.held[k])
  BY DEF Buffers
<1>6. CASE d.ws.uses[i] > 1
  <2>1. e = Slotted(d, u, d.ws.bufs)
    BY <1>1, <1>6, PutIs
  <2> HIDE DEF e
  <2>2. e \in Calls /\ e.ws.uses = u /\ e.ws.bufs = d.ws.bufs /\ e.held = d.held /\ e.freed = d.freed
        /\ e.wrong = d.wrong /\ e.lost = d.lost
    BY <1>1, <1>3, <2>1, SlottedIs
  <2> HIDE DEF u, b
  <2>3. \A id : Users(e, id) = Users(d, id)
    BY <2>2 DEF Users, Pieces
  <2>4. \A j \in BufSlots : (InUse(e, j) <=> InUse(d, j)) /\ \A id : IsIn(e, j, id) <=> IsIn(d, j, id)
    BY <1>1, <1>3, <1>6, <2>2 DEF InUse, IsIn
  <2>5. Counted(e, g, i, n - 1)
    BY <1>1, <1>3, <1>4, <1>5, <2>2, <2>3, <2>4 DEF Counted
  <2>6. \A k \in DOMAIN e.held : Located(e, e.held[k])
    BY <1>5, <2>2, <2>4 DEF Located
  <2> QED
    BY <1>1, <2>2, <2>4, <2>5, <2>6 DEF Buffers, e
<1>7. CASE d.ws.uses[i] = 1
  <2> DEFINE v == [d.ws.uses EXCEPT ![i] = 0]
             f == Slotted(d, v, d.ws.bufs)
  <2>1. e = [f EXCEPT !.freed = d.freed \cup {b}, !.wrong = d.wrong \/ b \in d.freed] /\ v \in [BufSlots -> Nat]
        /\ f \in Calls /\ f.freed = d.freed /\ f.wrong = d.wrong
    <3>1. e = [f EXCEPT !.freed = @ \cup {b}, !.wrong = @ \/ b \in d.freed] /\ v \in [BufSlots -> Nat]
      <4>1. ~(d.ws.uses[i] > 1)
        BY <1>7
      <4>2. v \in [BufSlots -> Nat]
        BY <1>1
      <4> HIDE DEF v
      <4>3. e = [Slotted(d, [d.ws.uses EXCEPT ![i] = 0], d.ws.bufs) EXCEPT
                   !.freed = @ \cup {b}, !.wrong = @ \/ b \in d.freed]
        BY <1>1, <4>1, PutIs, Zenon
      <4> QED
        BY <4>2, <4>3, Zenon DEF v
    <3>2. f \in Calls /\ f.freed = d.freed /\ f.wrong = d.wrong
      BY <1>1, <3>1, SlottedIs
    <3> HIDE DEF f, e, b
    <3> QED
      BY <3>1, <3>2
  <2>2. v[i] = 0 /\ \A j \in BufSlots : j # i => v[j] = d.ws.uses[j]
    BY <1>1
  <2>3. f.ws.uses = v /\ f.ws.bufs = d.ws.bufs /\ f.held = d.held /\ f.lost = d.lost
    BY <1>1, <2>1, SlottedIs
  <2> HIDE DEF e, f, v, u, b
  <2>4. e \in Calls /\ e.ws = f.ws /\ e.held = f.held /\ e.lost = f.lost /\ e.freed = d.freed \cup {b}
        /\ e.wrong = (d.wrong \/ b \in d.freed)
    <3>1. d.freed \cup {b} \in SUBSET Nat /\ (d.wrong \/ b \in d.freed) \in BOOLEAN
      BY <1>1, <1>2, CallIs
    <3> QED
      BY <2>1, <3>1 DEF Calls
  <2>5. \A id : Users(e, id) = Users(d, id)
    BY <2>3, <2>4 DEF Users, Pieces
  <2>6. \A j \in BufSlots : (InUse(e, j) <=> InUse(d, j) /\ j # i) /\ \A id : IsIn(e, j, id) <=> IsIn(d, j, id) /\ j # i
    BY <1>1, <2>2, <2>3, <2>4 DEF InUse, IsIn
  <2>7. Users(d, b) = 0 /\ n = 1
    BY <1>1, <1>2, <1>7
  <2>8. Counted(e, g, i, n - 1)
    <3>1. ASSUME NEW j \in BufSlots, InUse(e, j)
          PROVE  /\ e.ws.bufs[j].id \in 1..g /\ e.ws.bufs[j].id \notin e.freed
                 /\ e.ws.uses[j] = Users(e, e.ws.bufs[j].id) + (IF j = i THEN n - 1 ELSE 0)
                 /\ \A l \in BufSlots : IsIn(e, l, e.ws.bufs[j].id) => l = j
      <4>1. j # i /\ InUse(d, j)
        BY <2>6, <3>1
      <4>2. d.ws.bufs[j].id # b
        BY <1>2, <4>1 DEF IsIn
      <4> QED
        BY <1>4, <1>5, <2>2, <2>3, <2>4, <2>5, <2>6, <4>1, <4>2 DEF Counted
    <3>2. ASSUME NEW id \in 1..MaxBuffers, \A j \in BufSlots : ~IsIn(e, j, id)
          PROVE  Users(e, id) = 0 /\ (id \in e.freed <=> id <= g)
      <4>1. CASE id = b
        BY <1>2, <2>4, <2>5, <2>7, <4>1
      <4>2. CASE id # b
        <5>1. \A j \in BufSlots : ~IsIn(d, j, id)
          BY <2>6, <3>2, <4>2 DEF IsIn, b
        <5> QED
          BY <1>5, <2>4, <2>5, <4>2, <5>1 DEF Counted
      <4> QED
        BY <4>1, <4>2
    <3> QED
      BY <3>1, <3>2 DEF Counted
  <2>9. ASSUME NEW k \in DOMAIN e.held PROVE Located(e, e.held[k])
    <3> DEFINE p == d.held[k]
    <3>1. k \in DOMAIN d.held /\ e.held = d.held /\ d.held \in Seq(Piece)
      BY <1>1, <2>3, <2>4, <2>9, CallIs
    <3>2. PICK j \in BufSlots : InUse(d, j) /\ InBuffer(d.ws.bufs[j], p) /\ p.from + p.len - 1 <= Len(d.ws.bufs[j].data)
      BY <1>5, <3>1 DEF Located
    <3>3. p.id # b
      <4>1. SUFFICES ASSUME p.id = b PROVE FALSE
        OBVIOUS
      <4>2. k \in Pieces(d.held, b)
        BY <3>1, <4>1 DEF Pieces
      <4>3. Cardinality(Pieces(d.held, b)) # 0 /\ Cardinality(Pieces(d.held, b)) \in Nat
        BY <3>1, <4>2, PiecesAre
      <4>4. d.lost[b] \in Nat
        BY <1>1, <1>2, CallIs
      <4> QED
        BY <2>7, <4>3, <4>4 DEF Users
    <3>4. j # i
      BY <3>2, <3>3 DEF InBuffer, b
    <3> QED
      BY <2>3, <2>4, <2>6, <3>1, <3>2, <3>4 DEF Located
  <2>10. Buffers(e, g, i, n - 1)
    <3>1. ~e.wrong
      BY <1>1, <1>2, <2>4, Zenon
    <3>2. n - 1 \in Nat
      BY <2>7
    <3> QED
      BY <2>4, <2>8, <2>9, <3>1, <3>2 DEF Buffers
  <2> QED
    BY <2>3, <2>4, <2>7, <2>10 DEF e
<1> QED
  BY <1>1, <1>6, <1>7

-----------------------------------------------------------------------------
(* A list without its k-th element.                                        *)
LEMMA RemoveAtIs ==
  ASSUME NEW S, NEW h \in Seq(S), NEW k \in 1..Len(h)
  PROVE  /\ RemoveAt(h, k) \in Seq(S) /\ Len(RemoveAt(h, k)) = Len(h) - 1
         /\ \A m \in 1..(k - 1) : RemoveAt(h, k)[m] = h[m]
         /\ \A m \in k..(Len(h) - 1) : RemoveAt(h, k)[m] = h[m + 1]
<1> DEFINE a == SubSeq(h, 1, k - 1)
           b == SubSeq(h, k + 1, Len(h))
<1>1. Len(h) \in Nat /\ k \in Nat /\ k <= Len(h) /\ 1 <= k
  OBVIOUS
<1>2. a \in Seq(S) /\ Len(a) = k - 1 /\ \A m \in 1..(k - 1) : a[m] = h[m]
  <2>1. k - 1 \in Nat /\ 1 <= (k - 1) + 1 /\ k - 1 <= Len(h) /\ (k - 1) + 1 - 1 = k - 1
    BY <1>1
  <2>2. a \in Seq(S) /\ Len(a) = (k - 1) + 1 - 1 /\ \A m \in 1..((k - 1) + 1 - 1) : a[m] = h[1 + m - 1]
    BY <2>1, SubSeqIs
  <2> QED
    BY <2>1, <2>2
<1>3. b \in Seq(S) /\ Len(b) = Len(h) - k /\ \A m \in 1..(Len(h) - k) : b[m] = h[k + m]
  <2>1. k + 1 \in Nat /\ 1 <= k + 1 /\ k + 1 <= Len(h) + 1 /\ Len(h) + 1 - (k + 1) = Len(h) - k
    BY <1>1
  <2>2. b \in Seq(S) /\ Len(b) = Len(h) + 1 - (k + 1) /\ \A m \in 1..(Len(h) + 1 - (k + 1)) : b[m] = h[(k + 1) + m - 1]
    BY <1>1, <2>1, SubSeqIs
  <2> QED
    BY <1>1, <2>1, <2>2
<1> HIDE DEF a, b
<1>4. RemoveAt(h, k) = a \o b
  BY DEF RemoveAt, a, b
<1>5. /\ a \o b \in Seq(S) /\ Len(a \o b) = Len(a) + Len(b)
      /\ \A i \in 1..Len(a) : (a \o b)[i] = a[i]
      /\ \A i \in (Len(a) + 1)..(Len(a) + Len(b)) : (a \o b)[i] = b[i - Len(a)]
  BY <1>2, <1>3, ConcatIs
<1>6. ASSUME NEW m \in k..(Len(h) - 1) PROVE (a \o b)[m] = h[m + 1]
  <2>1. m \in (Len(a) + 1)..(Len(a) + Len(b)) /\ m - Len(a) \in 1..(Len(h) - k) /\ k + (m - Len(a)) = m + 1
    BY <1>1, <1>2, <1>3
  <2> QED
    BY <1>3, <1>5, <2>1
<1> QED
  BY <1>1, <1>2, <1>3, <1>4, <1>5, <1>6

(* The pieces of a buffer, one more, one less.                             *)
LEMMA PiecesAppend ==
  ASSUME NEW h \in Seq(Piece), NEW p \in Piece, NEW id
  PROVE  Cardinality(Pieces(Append(h, p), id)) = Cardinality(Pieces(h, id)) + (IF p.id = id THEN 1 ELSE 0)
<1> DEFINE n == Len(h) + 1
           l == Append(h, p)
<1>1. n \in Nat /\ n \notin 1..Len(h) /\ DOMAIN h = 1..Len(h) /\ DOMAIN l = 1..Len(h) \cup {n}
      /\ l[n] = p /\ \A k \in 1..Len(h) : l[k] = h[k]
  OBVIOUS
<1> HIDE DEF l, n
<1>2. Pieces(l, id) = IF p.id = id THEN Pieces(h, id) \cup {n} ELSE Pieces(h, id)
  BY <1>1 DEF Pieces
<1>3. n \notin Pieces(h, id)
  BY <1>1 DEF Pieces
<1>4. IsFiniteSet(Pieces(h, id)) /\ Cardinality(Pieces(h, id)) \in Nat
  BY PiecesAre
<1>5. Cardinality(Pieces(h, id) \cup {n}) = Cardinality(Pieces(h, id)) + 1
  BY <1>3, <1>4, FS_AddElement
<1> QED
  BY <1>2, <1>4, <1>5 DEF l

LEMMA PiecesRemove ==
  ASSUME NEW h \in Seq(Piece), NEW k \in 1..Len(h), NEW id
  PROVE  Cardinality(Pieces(RemoveAt(h, k), id)) = Cardinality(Pieces(h, id)) - (IF h[k].id = id THEN 1 ELSE 0)
<1> DEFINE l == RemoveAt(h, k)
           S == Pieces(l, id)
           T == Pieces(h, id) \ {k}
           f == [m \in S |-> IF m < k THEN m ELSE m + 1]
<1>1. /\ l \in Seq(Piece) /\ Len(l) = Len(h) - 1
      /\ \A m \in 1..(k - 1) : l[m] = h[m]
      /\ \A m \in k..(Len(h) - 1) : l[m] = h[m + 1]
  BY RemoveAtIs
<1> HIDE DEF l
<1>2. Len(h) \in Nat /\ k \in 1..Len(h) /\ DOMAIN h = 1..Len(h) /\ DOMAIN l = 1..(Len(h) - 1)
  BY <1>1
<1>3. \A m \in S : m \in 1..(Len(h) - 1) /\ l[m].id = id
  BY <1>2 DEF Pieces
<1>4. f \in [S -> T]
  <2>1. ASSUME NEW m \in S PROVE (IF m < k THEN m ELSE m + 1) \in T
    <3>1. m \in 1..(Len(h) - 1) /\ l[m].id = id
      BY <1>3
    <3>2. CASE m < k
      BY <1>1, <1>2, <3>1, <3>2 DEF Pieces
    <3>3. CASE ~(m < k)
      <4>1. m \in k..(Len(h) - 1) /\ m + 1 \in 1..Len(h) /\ m + 1 # k
        BY <1>2, <3>1, <3>3
      <4> QED
        BY <1>1, <1>2, <3>1, <3>3, <4>1 DEF Pieces
    <3> QED
      BY <3>2, <3>3
  <2> QED
    BY <2>1
<1>5. \A x, y \in S : f[x] = f[y] => x = y
  BY <1>2, <1>3
<1>6. \A t \in T : \E m \in S : f[m] = t
  <2> SUFFICES ASSUME NEW t \in T PROVE \E m \in S : f[m] = t
    OBVIOUS
  <2>1. t \in 1..Len(h) /\ t # k /\ h[t].id = id
    BY <1>2 DEF Pieces
  <2>2. CASE t < k
    <3>1. t \in 1..(k - 1) /\ t \in 1..(Len(h) - 1)
      BY <1>2, <2>1, <2>2
    <3>2. t \in S
      BY <1>1, <1>2, <2>1, <3>1 DEF Pieces
    <3> QED
      BY <2>2, <3>2
  <2>3. CASE t > k
    <3>1. t - 1 \in k..(Len(h) - 1) /\ t - 1 \in 1..(Len(h) - 1) /\ (t - 1) + 1 = t /\ ~(t - 1 < k)
      BY <1>2, <2>1, <2>3
    <3>2. t - 1 \in S
      BY <1>1, <1>2, <2>1, <3>1 DEF Pieces
    <3>3. f[t - 1] = t
      BY <3>1, <3>2
    <3> QED
      BY <3>2, <3>3
  <2> QED
    BY <1>2, <2>1, <2>2, <2>3
<1> HIDE DEF f, S, T
<1>7. IsFiniteSet(S)
  BY <1>1, PiecesAre DEF S
<1>8. Cardinality(T) = Cardinality(S)
  <2>1. ExistsBijection(S, T)
    BY <1>4, <1>5, <1>6 DEF ExistsBijection, Bijection, Injection, Surjection, IsInjective
  <2> QED
    BY <1>7, <2>1, FS_Bijection
<1>9. IsFiniteSet(Pieces(h, id)) /\ Cardinality(Pieces(h, id)) \in Nat
  BY PiecesAre
<1>10. Cardinality(T) = IF k \in Pieces(h, id) THEN Cardinality(Pieces(h, id)) - 1 ELSE Cardinality(Pieces(h, id))
  BY <1>9, FS_RemoveElement DEF T
<1>11. k \in Pieces(h, id) <=> h[k].id = id
  BY <1>2 DEF Pieces
<1> QED
  BY <1>8, <1>9, <1>10, <1>11 DEF S, l

-----------------------------------------------------------------------------
(* One more at b, and an element more.                                     *)
LEMMA Bumped ==
  ASSUME NEW A, NEW f \in [A -> Nat], NEW b \in A
  PROVE  [f EXCEPT ![b] = @ + 1] \in [A -> Nat]
         /\ \A a \in A : [f EXCEPT ![b] = @ + 1][a] = f[a] + (IF a = b THEN 1 ELSE 0)
OBVIOUS

LEMMA AppendIs ==
  ASSUME NEW S, NEW h \in Seq(S), NEW p \in S
  PROVE  Append(h, p) \in Seq(S)
         /\ \A k \in DOMAIN Append(h, p) : Append(h, p)[k] = p \/ (k \in DOMAIN h /\ Append(h, p)[k] = h[k])
<1> DEFINE l == Append(h, p)
           n == Len(h) + 1
<1>1. l \in Seq(S) /\ DOMAIN h = 1..Len(h) /\ DOMAIN l = 1..Len(h) \cup {n} /\ l[n] = p /\ \A k \in 1..Len(h) : l[k] = h[k]
  OBVIOUS
<1> HIDE DEF l, n
<1>2. \A k \in DOMAIN l : l[k] = p \/ (k \in DOMAIN h /\ l[k] = h[k])
  BY <1>1
<1> QED
  BY <1>1, <1>2, Zenon DEF l

(* A reference of the call becomes one of another kind: lost, or the one   *)
(* of a piece that the client holds.                                       *)
LEMMA Given ==
  ASSUME NEW d, NEW g, NEW i \in BufSlots, NEW n, Buffers(d, g, i, n), InUse(d, i), n > 0,
         NEW e \in Calls, e.ws = d.ws, e.freed = d.freed, e.wrong = d.wrong,
         \A id \in 1..MaxBuffers : Users(e, id) = Users(d, id) + (IF id = d.ws.bufs[i].id THEN 1 ELSE 0),
         \A k \in DOMAIN e.held : Located(d, e.held[k])
  PROVE  Buffers(e, g, i, n - 1) /\ InUse(e, i)
<1> DEFINE b == d.ws.bufs[i].id
<1>1. b \in 1..g /\ b \in 1..MaxBuffers /\ Users(d, b) \in Nat /\ d.ws.uses[i] = Users(d, b) + n /\ n \in Nat /\ d \in Calls
      /\ \A l \in BufSlots : IsIn(d, l, b) => l = i
  BY SlotIs DEF Buffers
<1>2. Counted(d, g, i, n) /\ ~d.wrong
  BY DEF Buffers
<1>3. \A j \in BufSlots : (InUse(e, j) <=> InUse(d, j)) /\ \A id : IsIn(e, j, id) <=> IsIn(d, j, id)
  BY DEF InUse, IsIn
<1>4. IsIn(d, i, b)
  BY DEF IsIn
<1>5. \A j \in BufSlots : InUse(d, j) => Users(d, d.ws.bufs[j].id) \in Nat /\ d.ws.bufs[j].id \in 1..MaxBuffers
  BY SlotIs
<1> HIDE DEF b
<1>6. Counted(e, g, i, n - 1)
  <2>1. ASSUME NEW j \in BufSlots, InUse(e, j)
        PROVE  /\ e.ws.bufs[j].id \in 1..g /\ e.ws.bufs[j].id \notin e.freed
               /\ e.ws.uses[j] = Users(e, e.ws.bufs[j].id) + (IF j = i THEN n - 1 ELSE 0)
               /\ \A l \in BufSlots : IsIn(e, l, e.ws.bufs[j].id) => l = j
    <3>1. CASE j = i
      BY <1>1, <1>2, <1>3, <2>1, <3>1 DEF Counted, b
    <3>2. CASE j # i
      <4>1. d.ws.bufs[j].id # b
        BY <1>1, <1>3, <2>1, <3>2 DEF IsIn
      <4>2. Users(e, d.ws.bufs[j].id) = Users(d, d.ws.bufs[j].id)
        BY <1>3, <1>5, <2>1, <4>1 DEF b
      <4> QED
        BY <1>2, <1>3, <2>1, <3>2, <4>2 DEF Counted
    <3> QED
      BY <3>1, <3>2
  <2>2. ASSUME NEW id \in 1..MaxBuffers, \A j \in BufSlots : ~IsIn(e, j, id)
        PROVE  Users(e, id) = 0 /\ (id \in e.freed <=> id <= g)
    <3>1. id # b
      BY <1>3, <1>4, <2>2
    <3>2. Users(e, id) = Users(d, id)
      BY <1>2, <1>3, <2>2, <3>1 DEF Counted, b
    <3> QED
      BY <1>2, <1>3, <2>2, <3>2 DEF Counted
  <2> QED
    BY <2>1, <2>2 DEF Counted
<1>7. \A k \in DOMAIN e.held : Located(e, e.held[k])
  BY <1>3 DEF Located
<1>8. g \in 0..MaxBuffers /\ i \in 0..WS_BUFS_COUNT /\ n - 1 \in Nat
  BY <1>1 DEF Buffers
<1> QED
  BY <1>2, <1>3, <1>6, <1>7, <1>8 DEF Buffers

(* A reference nobody will release.                                        *)
LEMMA LoseCounts ==
  ASSUME NEW d, NEW g, NEW i \in BufSlots, NEW n, Buffers(d, g, i, n), InUse(d, i), n > 0
  PROVE  Buffers(Lose(d, i), g, i, n - 1) /\ InUse(Lose(d, i), i) /\ Lose(d, i).ws = d.ws
<1> DEFINE e == Lose(d, i)
           b == d.ws.bufs[i].id
           l == [d.lost EXCEPT ![b] = @ + 1]
<1>1. b \in 1..MaxBuffers /\ d \in Calls /\ \A k \in DOMAIN d.held : Located(d, d.held[k])
  BY SlotIs DEF Buffers
<1>2. d.lost \in [1..MaxBuffers -> Nat] /\ d.held \in Seq(Piece)
  BY <1>1, CallIs
<1> HIDE DEF b
<1>3. l \in [1..MaxBuffers -> Nat] /\ \A id \in 1..MaxBuffers : l[id] = d.lost[id] + (IF id = b THEN 1 ELSE 0)
  <2> DEFINE A == 1..MaxBuffers
             f == d.lost
  <2>1. f \in [A -> Nat] /\ b \in A
    BY <1>1, <1>2
  <2> HIDE DEF A, f
  <2>2. [f EXCEPT ![b] = @ + 1] \in [A -> Nat] /\ \A a \in A : [f EXCEPT ![b] = @ + 1][a] = f[a] + (IF a = b THEN 1 ELSE 0)
    BY <2>1, Bumped
  <2> QED
    BY <2>2 DEF A, f
<1>4. e = [d EXCEPT !.lost = l]
  BY DEF Lose, b
<1> HIDE DEF e, l
<1>5. e \in Calls /\ e.ws = d.ws /\ e.freed = d.freed /\ e.wrong = d.wrong /\ e.held = d.held /\ e.lost = l
  BY <1>1, <1>3, <1>4 DEF Calls
<1>6. \A id \in 1..MaxBuffers : Users(e, id) = Users(d, id) + (IF id = d.ws.bufs[i].id THEN 1 ELSE 0)
  <2> SUFFICES ASSUME NEW id \in 1..MaxBuffers
               PROVE  Users(e, id) = Users(d, id) + (IF id = b THEN 1 ELSE 0)
    BY DEF b
  <2>1. Cardinality(Pieces(d.held, id)) \in Nat /\ d.lost[id] \in Nat
    BY <1>2, PiecesAre
  <2> QED
    BY <1>3, <1>5, <2>1 DEF Users
<1> QED
  BY <1>1, <1>5, <1>6, Given DEF e

(* The client keeps a piece.                                               *)
LEMMA KeepCounts ==
  ASSUME NEW d, NEW g, NEW i \in BufSlots, NEW n, Buffers(d, g, i, n), InUse(d, i), n > 0,
         NEW p \in Piece, InBuffer(d.ws.bufs[i], p), p.from + p.len - 1 <= Len(d.ws.bufs[i].data)
  PROVE  LET e == [d EXCEPT !.held = Append(@, p)]
         IN  Buffers(e, g, i, n - 1) /\ InUse(e, i) /\ e.ws = d.ws
<1> DEFINE l == Append(d.held, p)
           e == [d EXCEPT !.held = Append(@, p)]
<1>1. d \in Calls /\ d.held \in Seq(Piece) /\ d.lost \in [1..MaxBuffers -> Nat] /\ \A k \in DOMAIN d.held : Located(d, d.held[k])
  BY CallIs DEF Buffers
<1>2. l \in Seq(Piece) /\ \A k \in DOMAIN l : l[k] = p \/ (k \in DOMAIN d.held /\ l[k] = d.held[k])
  BY <1>1, AppendIs
<1>3. \A id : Cardinality(Pieces(l, id)) = Cardinality(Pieces(d.held, id)) + (IF p.id = id THEN 1 ELSE 0)
  BY <1>1, PiecesAppend
<1>4. e = [d EXCEPT !.held = l]
  OBVIOUS
<1> HIDE DEF e, l
<1>5. e \in Calls /\ e.ws = d.ws /\ e.freed = d.freed /\ e.wrong = d.wrong /\ e.held = l /\ e.lost = d.lost
  BY <1>1, <1>2, <1>4 DEF Calls
<1>6. p.id = d.ws.bufs[i].id
  BY DEF InBuffer
<1>7. \A id \in 1..MaxBuffers : Users(e, id) = Users(d, id) + (IF id = d.ws.bufs[i].id THEN 1 ELSE 0)
  <2> SUFFICES ASSUME NEW id \in 1..MaxBuffers
               PROVE  Users(e, id) = Users(d, id) + (IF p.id = id THEN 1 ELSE 0)
    BY <1>6
  <2>1. Cardinality(Pieces(d.held, id)) \in Nat /\ d.lost[id] \in Nat
    BY <1>1, PiecesAre
  <2> QED
    BY <1>3, <1>5, <2>1 DEF Users
<1>8. Located(d, p)
  BY DEF Located
<1>9. \A k \in DOMAIN e.held : Located(d, e.held[k])
  BY <1>1, <1>2, <1>5, <1>8
<1> QED
  BY <1>5, <1>7, <1>9, Given DEF e

(* The slot of a piece is found.                                           *)
LEMMA PutAtIs ==
  ASSUME NEW d, NEW g, NEW s, NEW n, Buffers(d, g, s, n), NEW i \in BufSlots, InUse(d, i),
         NEW p, InBuffer(d.ws.bufs[i], p)
  PROVE  _putbufat_(d, p) = _putbuf_(d, i)
<1> DEFINE at == {j \in DOMAIN d.ws.uses : d.ws.uses[j] > 0 /\ InBuffer(d.ws.bufs[j], p)}
<1>1. DOMAIN d.ws.uses = BufSlots
  BY CallIs DEF Buffers
<1>2. \A l \in BufSlots : IsIn(d, l, d.ws.bufs[i].id) => l = i
  BY SlotIs
<1>3. at = {i}
  BY <1>1, <1>2 DEF InUse, IsIn, InBuffer
<1>4. Max({i}) = i
  <2>1. i \in Int
    BY WsAssumption DEF BufSlots
  <2> QED
    BY <2>1 DEF Max
<1> HIDE DEF at
<1>5. _putbufat_(d, p) = IF at = {} THEN d ELSE _putbuf_(d, Max(at))
  BY DEF _putbufat_, at
<1> QED
  BY <1>3, <1>4, <1>5

(* A slot for a buffer that is given.                                      *)
Opened(d, i, b) == [d EXCEPT !.ws.uses[i] = 1, !.ws.bufs[i] = b]

LEMMA AddCounts ==
  ASSUME NEW d, NEW g, Buffers(d, g, 0, 0), g < MaxBuffers, NEW i \in BufSlots, d.ws.uses[i] = 0,
         NEW b \in BufferRec, b.id = g + 1
  PROVE  LET e == Opened(d, i, b)
         IN  /\ Buffers(e, g + 1, i, 1) /\ InUse(e, i) /\ e.ws.bufs[i] = b
             /\ e.ws.state = d.ws.state /\ e.ws.header = d.ws.header /\ e.ws.szhead = d.ws.szhead
             /\ e.ws.length = d.ws.length /\ e.ws.mask = d.ws.mask
<1> DEFINE u == [d.ws.uses EXCEPT ![i] = 1]
           B == [d.ws.bufs EXCEPT ![i] = b]
           e == Opened(d, i, b)
<1>1. d \in Calls /\ d.ws.uses \in [BufSlots -> Nat] /\ d.ws.bufs \in [BufSlots -> BufferRec] /\ g \in Nat /\ g + 1 \in 1..MaxBuffers
      /\ ~d.wrong /\ MaxBuffers \in Nat /\ WS_BUFS_COUNT \in Nat
  BY CallIs, WsAssumption DEF Buffers
<1>2. u \in [BufSlots -> Nat] /\ u[i] = 1 /\ \A j \in BufSlots : j # i => u[j] = d.ws.uses[j]
  BY <1>1
<1>3. B \in [BufSlots -> BufferRec] /\ B[i] = b /\ \A j \in BufSlots : j # i => B[j] = d.ws.bufs[j]
  BY <1>1
<1>4. e = Slotted(d, u, B)
  BY <1>1 DEF Calls, WsRec, Slotted, Opened
<1> HIDE DEF e, u, B
<1>5. /\ e \in Calls /\ e.ws.uses = u /\ e.ws.bufs = B /\ e.held = d.held /\ e.freed = d.freed /\ e.wrong = d.wrong /\ e.lost = d.lost
      /\ e.ws.state = d.ws.state /\ e.ws.header = d.ws.header /\ e.ws.szhead = d.ws.szhead
      /\ e.ws.length = d.ws.length /\ e.ws.mask = d.ws.mask
  BY <1>1, <1>2, <1>3, <1>4, SlottedIs
<1>6. Counted(d, g, 0, 0) /\ \A k \in DOMAIN d.held : Located(d, d.held[k])
  BY DEF Buffers
<1>7. \A id : Users(e, id) = Users(d, id)
  BY <1>5 DEF Users, Pieces
<1>8. \A j \in BufSlots : j # i => (InUse(e, j) <=> InUse(d, j)) /\ \A id : IsIn(e, j, id) <=> IsIn(d, j, id)
  BY <1>2, <1>3, <1>5 DEF InUse, IsIn
<1>9. InUse(e, i) /\ ~InUse(d, i) /\ \A id : IsIn(e, i, id) <=> id = g + 1
  BY <1>2, <1>3, <1>5 DEF InUse, IsIn
<1>10. \A j \in BufSlots : InUse(d, j) => d.ws.bufs[j].id \in 1..g /\ Users(d, d.ws.bufs[j].id) \in Nat
  BY SlotIs
<1>11. \A j \in BufSlots : ~IsIn(d, j, g + 1)
  BY <1>1, <1>10 DEF IsIn
<1>12. Users(d, g + 1) = 0 /\ g + 1 \notin d.freed
  BY <1>1, <1>6, <1>11 DEF Counted
<1>13. Counted(e, g + 1, i, 1)
  <2>1. ASSUME NEW j \in BufSlots, InUse(e, j)
        PROVE  /\ e.ws.bufs[j].id \in 1..(g + 1) /\ e.ws.bufs[j].id \notin e.freed
               /\ e.ws.uses[j] = Users(e, e.ws.bufs[j].id) + (IF j = i THEN 1 ELSE 0)
               /\ \A l \in BufSlots : IsIn(e, l, e.ws.bufs[j].id) => l = j
    <3>1. CASE j = i
      <4>1. e.ws.bufs[j].id = g + 1 /\ e.ws.uses[j] = 1
        BY <1>2, <1>3, <1>5, <3>1
      <4> QED
        BY <1>1, <1>5, <1>7, <1>8, <1>11, <1>12, <3>1, <4>1
    <3>2. CASE j # i
      <4>1. InUse(d, j) /\ e.ws.bufs[j] = d.ws.bufs[j] /\ e.ws.uses[j] = d.ws.uses[j]
        BY <1>2, <1>3, <1>5, <1>8, <2>1, <3>2
      <4>2. d.ws.bufs[j].id \in 1..g /\ d.ws.bufs[j].id # g + 1 /\ d.ws.bufs[j].id \in 1..(g + 1)
            /\ Users(d, d.ws.bufs[j].id) \in Nat
        BY <1>1, <1>10, <4>1
      <4>3. d.ws.uses[j] = Users(d, d.ws.bufs[j].id) /\ d.ws.bufs[j].id \notin d.freed
            /\ \A l \in BufSlots : IsIn(d, l, d.ws.bufs[j].id) => l = j
        BY <1>6, <4>1, <4>2 DEF Counted
      <4> QED
        BY <1>5, <1>7, <1>8, <1>9, <3>2, <4>1, <4>2, <4>3
    <3> QED
      BY <3>1, <3>2
  <2>2. ASSUME NEW id \in 1..MaxBuffers, \A j \in BufSlots : ~IsIn(e, j, id)
        PROVE  Users(e, id) = 0 /\ (id \in e.freed <=> id <= g + 1)
    <3>1. id # g + 1 /\ \A j \in BufSlots : ~IsIn(d, j, id)
      BY <1>8, <1>9, <2>2 DEF IsIn
    <3>2. Users(d, id) = 0 /\ (id \in d.freed <=> id <= g)
      BY <1>6, <3>1 DEF Counted
    <3> QED
      BY <1>1, <1>5, <1>7, <3>1, <3>2
  <2> QED
    BY <2>1, <2>2 DEF Counted
<1>14. \A k \in DOMAIN e.held : Located(e, e.held[k])
  <2>1. \A j \in BufSlots : InUse(d, j) => InUse(e, j) /\ e.ws.bufs[j] = d.ws.bufs[j]
    BY <1>3, <1>5, <1>8, <1>9
  <2> QED
    BY <1>5, <1>6, <2>1 DEF Located
<1>15. Buffers(e, g + 1, i, 1)
  <2>1. g + 1 \in 0..MaxBuffers /\ i \in 0..WS_BUFS_COUNT /\ 1 \in Nat
    BY <1>1 DEF BufSlots
  <2> QED
    BY <1>1, <1>5, <1>13, <1>14, <2>1 DEF Buffers
<1> QED
  BY <1>3, <1>5, <1>9, <1>15 DEF e

(* A buffer that is freed at once, with another rc.                        *)
LEMMA RefuseCounts ==
  ASSUME NEW d, NEW g, Buffers(d, g, 0, 0), g < MaxBuffers, NEW rc \in Rc
  PROVE  LET e == [d EXCEPT !.rc = rc, !.freed = @ \cup {g + 1}, !.wrong = @ \/ g + 1 \in d.freed]
         IN  Buffers(e, g + 1, 0, 0) /\ e.ws = d.ws
<1> DEFINE e == [d EXCEPT !.rc = rc, !.freed = @ \cup {g + 1}, !.wrong = @ \/ g + 1 \in d.freed]
<1>1. d \in Calls /\ g \in Nat /\ g + 1 \in 1..MaxBuffers /\ ~d.wrong /\ MaxBuffers \in Nat /\ WS_BUFS_COUNT \in Nat
  BY WsAssumption DEF Buffers
<1>2. Counted(d, g, 0, 0) /\ \A k \in DOMAIN d.held : Located(d, d.held[k])
  BY DEF Buffers
<1>3. \A j \in BufSlots : InUse(d, j) => d.ws.bufs[j].id \in 1..g /\ Users(d, d.ws.bufs[j].id) \in Nat
  BY SlotIs
<1>4. \A j \in BufSlots : ~IsIn(d, j, g + 1)
  BY <1>1, <1>3 DEF IsIn
<1>5. Users(d, g + 1) = 0 /\ g + 1 \notin d.freed
  BY <1>1, <1>2, <1>4 DEF Counted
<1>6. d.freed \cup {g + 1} \in SUBSET Nat /\ d.freed \in SUBSET Nat
  BY <1>1, CallIs
<1>7. (d.wrong \/ g + 1 \in d.freed) = FALSE
  BY <1>1, <1>5
<1>8. e = [d EXCEPT !.rc = rc, !.freed = d.freed \cup {g + 1}, !.wrong = FALSE]
  BY <1>7, Zenon
<1> HIDE DEF e
<1>9. e \in Calls /\ e.ws = d.ws /\ e.held = d.held /\ e.lost = d.lost /\ e.freed = d.freed \cup {g + 1} /\ ~e.wrong
  BY <1>1, <1>6, <1>8 DEF Calls
<1>10. \A id : Users(e, id) = Users(d, id)
  BY <1>9 DEF Users, Pieces
<1>11. \A j \in BufSlots : (InUse(e, j) <=> InUse(d, j)) /\ \A id : IsIn(e, j, id) <=> IsIn(d, j, id)
  BY <1>9 DEF InUse, IsIn
<1>12. Counted(e, g + 1, 0, 0)
  <2>1. ASSUME NEW j \in BufSlots, InUse(e, j)
        PROVE  /\ e.ws.bufs[j].id \in 1..(g + 1) /\ e.ws.bufs[j].id \notin e.freed
               /\ e.ws.uses[j] = Users(e, e.ws.bufs[j].id) + (IF j = 0 THEN 0 ELSE 0)
               /\ \A l \in BufSlots : IsIn(e, l, e.ws.bufs[j].id) => l = j
    <3>1. d.ws.bufs[j].id \in 1..g /\ d.ws.bufs[j].id # g + 1 /\ d.ws.bufs[j].id \in 1..(g + 1)
      BY <1>1, <1>3, <1>11, <2>1
    <3> QED
      BY <1>2, <1>9, <1>10, <1>11, <2>1, <3>1 DEF Counted
  <2>2. ASSUME NEW id \in 1..MaxBuffers, \A j \in BufSlots : ~IsIn(e, j, id)
        PROVE  Users(e, id) = 0 /\ (id \in e.freed <=> id <= g + 1)
    <3>1. Users(d, id) = 0 /\ (id \in d.freed <=> id <= g)
      BY <1>2, <1>11, <2>2 DEF Counted
    <3> QED
      BY <1>1, <1>9, <1>10, <3>1
  <2> QED
    BY <2>1, <2>2 DEF Counted
<1>13. \A k \in DOMAIN e.held : Located(e, e.held[k])
  BY <1>2, <1>9, <1>11 DEF Located
<1> QED
  <2>1. g + 1 \in 0..MaxBuffers /\ 0 \in 0..WS_BUFS_COUNT /\ 0 \in Nat
    BY <1>1
  <2> QED
    BY <1>9, <1>12, <1>13, <2>1 DEF Buffers, e

(* The client releases a piece.                                            *)
LEMMA ReleaseCounts ==
  ASSUME NEW d, NEW g, Buffers(d, g, 0, 0), NEW k \in DOMAIN d.held
  PROVE  Buffers([_putbufat_(d, d.held[k]) EXCEPT !.held = RemoveAt(@, k)], g, 0, 0)
<1> DEFINE p == d.held[k]
           l == RemoveAt(d.held, k)
           e == [d EXCEPT !.held = l]
           r == [_putbufat_(d, p) EXCEPT !.held = RemoveAt(@, k)]
<1>1. d \in Calls /\ d.held \in Seq(Piece) /\ d.lost \in [1..MaxBuffers -> Nat] /\ k \in 1..Len(d.held) /\ ~d.wrong
      /\ g \in 0..MaxBuffers /\ WS_BUFS_COUNT \in Nat
  BY CallIs, WsAssumption DEF Buffers
<1>2. Counted(d, g, 0, 0) /\ \A m \in DOMAIN d.held : Located(d, d.held[m])
  BY DEF Buffers
<1>3. PICK i \in BufSlots : InUse(d, i) /\ InBuffer(d.ws.bufs[i], p) /\ p.from + p.len - 1 <= Len(d.ws.bufs[i].data)
  BY <1>2 DEF Located
<1>4. l \in Seq(Piece) /\ \A m \in DOMAIN l : \E o \in DOMAIN d.held : l[m] = d.held[o]
  <2>1. /\ l \in Seq(Piece) /\ Len(l) = Len(d.held) - 1
        /\ \A m \in 1..(k - 1) : l[m] = d.held[m]
        /\ \A m \in k..(Len(d.held) - 1) : l[m] = d.held[m + 1]
    BY <1>1, RemoveAtIs
  <2> HIDE DEF l
  <2>2. Len(d.held) \in Nat /\ DOMAIN d.held = 1..Len(d.held) /\ DOMAIN l = 1..(Len(d.held) - 1)
    BY <1>1, <2>1
  <2>3. ASSUME NEW m \in DOMAIN l PROVE \E o \in DOMAIN d.held : l[m] = d.held[o]
    <3>1. CASE m < k
      <4>1. m \in 1..(k - 1) /\ m \in 1..Len(d.held)
        BY <1>1, <2>2, <2>3, <3>1
      <4> QED
        BY <2>1, <2>2, <4>1
    <3>2. CASE m >= k
      <4>1. m \in k..(Len(d.held) - 1) /\ m + 1 \in 1..Len(d.held)
        BY <1>1, <2>2, <2>3, <3>2
      <4> QED
        BY <2>1, <2>2, <4>1
    <3> QED
      BY <1>1, <2>2, <3>1, <3>2
  <2> QED
    BY <2>1, <2>3
<1>5. \A id : Cardinality(Pieces(l, id)) = Cardinality(Pieces(d.held, id)) - (IF p.id = id THEN 1 ELSE 0)
  BY <1>1, PiecesRemove
<1> HIDE DEF l
<1>6. e \in Calls /\ e.ws = d.ws /\ e.freed = d.freed /\ e.wrong = d.wrong /\ e.held = l /\ e.lost = d.lost
  BY <1>1, <1>4 DEF Calls
<1> HIDE DEF e
<1>7. \A id \in 1..MaxBuffers : Users(e, id) = Users(d, id) - (IF p.id = id THEN 1 ELSE 0)
  <2> SUFFICES ASSUME NEW id \in 1..MaxBuffers
               PROVE  Users(e, id) = Users(d, id) - (IF p.id = id THEN 1 ELSE 0)
    OBVIOUS
  <2>1. Cardinality(Pieces(d.held, id)) \in Nat /\ d.lost[id] \in Nat
    BY <1>1, PiecesAre
  <2> QED
    BY <1>5, <1>6, <2>1 DEF Users
<1>8. \A j \in BufSlots : (InUse(e, j) <=> InUse(d, j)) /\ \A id : IsIn(e, j, id) <=> IsIn(d, j, id)
  BY <1>6 DEF InUse, IsIn
<1>9. \A j \in BufSlots : InUse(d, j) => Users(d, d.ws.bufs[j].id) \in Nat /\ d.ws.bufs[j].id \in 1..MaxBuffers
                                     /\ \A h \in BufSlots : IsIn(d, h, d.ws.bufs[j].id) => h = j
  BY SlotIs
<1>10. p.id = d.ws.bufs[i].id /\ IsIn(d, i, p.id)
  BY <1>3 DEF InBuffer, IsIn
<1>11. i # 0
  BY <1>1 DEF BufSlots
<1> HIDE DEF p
<1>12. Counted(e, g, i, 1)
  <2>1. ASSUME NEW j \in BufSlots, InUse(e, j)
        PROVE  /\ e.ws.bufs[j].id \in 1..g /\ e.ws.bufs[j].id \notin e.freed
               /\ e.ws.uses[j] = Users(e, e.ws.bufs[j].id) + (IF j = i THEN 1 ELSE 0)
               /\ \A h \in BufSlots : IsIn(e, h, e.ws.bufs[j].id) => h = j
    <3>1. InUse(d, j)
      BY <1>8, <2>1
    <3>2. d.ws.bufs[j].id \in 1..g /\ d.ws.bufs[j].id \notin d.freed /\ d.ws.uses[j] = Users(d, d.ws.bufs[j].id)
      <4>1. d.ws.uses[j] = Users(d, d.ws.bufs[j].id) + (IF j = 0 THEN 0 ELSE 0)
            /\ d.ws.bufs[j].id \in 1..g /\ d.ws.bufs[j].id \notin d.freed
        BY <1>2, <3>1 DEF Counted
      <4> QED
        BY <1>9, <3>1, <4>1
    <3>3. p.id = d.ws.bufs[j].id <=> j = i
      BY <1>9, <1>10, <3>1
    <3> QED
      BY <1>6, <1>7, <1>8, <1>9, <3>1, <3>2, <3>3
  <2>2. ASSUME NEW id \in 1..MaxBuffers, \A j \in BufSlots : ~IsIn(e, j, id)
        PROVE  Users(e, id) = 0 /\ (id \in e.freed <=> id <= g)
    <3>1. id # p.id
      BY <1>8, <1>10, <2>2
    <3>2. Users(d, id) = 0 /\ (id \in d.freed <=> id <= g)
      BY <1>2, <1>8, <2>2 DEF Counted
    <3> QED
      BY <1>6, <1>7, <3>1, <3>2
  <2> QED
    BY <2>1, <2>2 DEF Counted
<1>13. \A m \in DOMAIN e.held : Located(e, e.held[m])
  BY <1>2, <1>4, <1>6, <1>8 DEF Located
<1>14. Buffers(e, g, i, 1) /\ InUse(e, i)
  <2>1. i \in 0..WS_BUFS_COUNT /\ 1 \in Nat
    BY <1>1 DEF BufSlots
  <2> QED
    BY <1>1, <1>3, <1>6, <1>8, <1>12, <1>13, <2>1 DEF Buffers
<1>15. Buffers(_putbuf_(e, i), g, i, 0)
  <2>1. Buffers(_putbuf_(e, i), g, i, 1 - 1)
    BY <1>14, PutCounts
  <2> QED
    BY <2>1
<1>16. Buffers(_putbuf_(e, i), g, 0, 0)
  BY <1>1, <1>15 DEF Buffers, Counted
<1>17. r = _putbuf_(e, i)
  <2>1. _putbufat_(d, p) = _putbuf_(d, i)
    BY <1>3, PutAtIs DEF p
  <2>2. e = [d EXCEPT !.held = l] /\ l = RemoveAt(d.held, k)
    BY DEF e, l
  <2> QED
    BY <1>1, <1>3, <2>1, <2>2 DEF _putbuf_, Calls, WsRec, InUse
<1> QED
  BY <1>16, <1>17 DEF p, r

-----------------------------------------------------------------------------
(* The bytes: what is read of them are numbers.                            *)
LEMMA ByteParts ==
  ASSUME NEW a \in Nat
  PROVE  a \div 128 \in Nat /\ a % 128 \in Nat /\ (a \div 16) % 8 \in Nat /\ a % 16 \in Nat
OBVIOUS

LEMMA XorIsNat ==
  ASSUME NEW a, NEW b
  PROVE  Xor(a, b) \in Nat
<1> DEFINE Differ(bit) == IF (a \div bit) % 2 # (b \div bit) % 2 THEN bit ELSE 0
<1>1. /\ Differ(1) \in Nat /\ Differ(2) \in Nat /\ Differ(4) \in Nat /\ Differ(8) \in Nat
      /\ Differ(16) \in Nat /\ Differ(32) \in Nat /\ Differ(64) \in Nat /\ Differ(128) \in Nat
  OBVIOUS
<1>2. Xor(a, b) = Differ(1) + Differ(2) + Differ(4) + Differ(8) + Differ(16) + Differ(32) + Differ(64) + Differ(128)
  BY DEF Xor
<1> HIDE DEF Differ
<1> QED
  BY <1>1, <1>2

LEMMA UnmaskIs ==
  ASSUME NEW mask \in [1..4 -> Nat], NEW data \in Octets
  PROVE  /\ unmask(mask, data).data \in Octets /\ Len(unmask(mask, data).data) = Len(data)
         /\ unmask(mask, data).mask \in [1..4 -> Nat]
<1> DEFINE f == [k \in DOMAIN data |-> Xor(data[k], mask[((k - 1) % 4) + 1])]
           m == [k \in 1..4 |-> mask[((k - 1 + Len(data)) % 4) + 1]]
<1>1. unmask(mask, data).data = f /\ unmask(mask, data).mask = m
  BY DEF unmask
<1>2. Len(data) \in Nat /\ DOMAIN data = 1..Len(data)
  BY DEF Octets
<1>3. f \in [1..Len(data) -> Nat]
  BY <1>2, XorIsNat
<1>4. f \in Octets /\ Len(f) = Len(data)
  BY <1>2, <1>3, TupleIsSeq DEF Octets
<1>5. m \in [1..4 -> Nat]
  <2>1. \A k \in 1..4 : ((k - 1 + Len(data)) % 4) + 1 \in 1..4
    BY <1>2
  <2> QED
    BY <2>1
<1> QED
  BY <1>1, <1>4, <1>5

(* Pieces of texts.                                                        *)
LEMMA CutIs ==
  ASSUME NEW s \in Octets, NEW a \in Nat, NEW b \in Nat, 1 <= a, a <= b + 1, b <= Len(s)
  PROVE  SubSeq(s, a, b) \in Octets /\ Len(SubSeq(s, a, b)) = b + 1 - a
BY SubSeqIs DEF Octets

LEMMA JoinIs ==
  ASSUME NEW s \in Octets, NEW t \in Octets
  PROVE  /\ s \o t \in Octets /\ Len(s \o t) = Len(s) + Len(t) /\ Len(s) \in Nat /\ Len(t) \in Nat
         /\ \A i \in 1..Len(s) : (s \o t)[i] = s[i]
BY ConcatIs DEF Octets

(* The number that bytes make.                                             *)
LEMMA BigEndianIsNat ==
  ASSUME NEW bytes \in Octets
  PROVE  BigEndian(bytes) \in Nat
<1> DEFINE n == Len(bytes)
           Step == [x \in (1..n) \X Nat |-> x[2] * 256 + bytes[x[1]]]
           Is(f) == f = [k \in 0..n |-> IF k = 0 THEN 0 ELSE f[k - 1] * 256 + bytes[k]]
           Read == CHOOSE f : Is(f)
<1>1. n \in Nat /\ \A k \in 1..n : bytes[k] \in Nat
  BY DEF Octets
<1>2. Step \in [(1..n) \X Nat -> Nat] /\ \A k \in 1..n, v \in Nat : Step[<<k, v>>] = v * 256 + bytes[k]
  <2>1. \A x \in (1..n) \X Nat : x[1] \in 1..n /\ x[2] \in Nat /\ bytes[x[1]] \in Nat
    BY <1>1
  <2>2. \A x \in (1..n) \X Nat : x[2] * 256 + bytes[x[1]] \in Nat
    BY <2>1
  <2> QED
    BY <2>2
<1>3. PICK f \in [0..n -> Nat] : Recursive(f, n, 0, Step)
  <2> HIDE DEF Step
  <2> QED
    BY <1>1, <1>2, Recursion
<1>4. Is(f)
  <2>1. f[0] = 0 /\ \A k \in 1..n : f[k] = f[k - 1] * 256 + bytes[k]
    <3>1. f[0] = 0 /\ \A k \in 1..n : f[k] = Step[<<k, f[k - 1]>>]
      BY <1>3 DEF Recursive
    <3>2. \A k \in 1..n : k - 1 \in 0..n
      BY <1>1
    <3>3. \A k \in 1..n : f[k - 1] \in Nat
      <4>1. \A j \in 0..n : f[j] \in Nat
        BY <1>3
      <4> HIDE DEF n
      <4> QED
        BY <3>2, <4>1
    <3>4. \A k \in 1..n, v \in Nat : Step[<<k, v>>] = v * 256 + bytes[k]
      BY <1>2
    <3> HIDE DEF Step, n
    <3>5. \A k \in 1..n : Step[<<k, f[k - 1]>>] = f[k - 1] * 256 + bytes[k]
      BY <3>3, <3>4, Zenon
    <3> QED
      BY <3>1, <3>5
  <2>2. \A k \in 0..n : f[k] = IF k = 0 THEN 0 ELSE f[k - 1] * 256 + bytes[k]
    BY <1>1, <2>1
  <2> HIDE DEF n, Step
  <2> QED
    BY <2>2
<1>5. Is(Read)
  <2> HIDE DEF Is
  <2> QED
    BY <1>4
<1>6. \A k \in 0..n : Read[k] = IF k = 0 THEN 0 ELSE Read[k - 1] * 256 + bytes[k]
  <2> HIDE DEF Read, n
  <2> QED
    BY <1>5, Zenon
<1>7. Read[n] \in Nat
  <2> DEFINE S == {k \in 0..n : Read[k] \in Nat}
  <2> HIDE DEF Read
  <2>1. 0 \in S
    BY <1>1, <1>6
  <2>2. ASSUME NEW k \in 1..n, k - 1 \in S PROVE k \in S
    <3>1. Read[k] = Read[k - 1] * 256 + bytes[k] /\ k \in 0..n
      BY <1>1, <1>6
    <3> QED
      BY <1>1, <2>2, <3>1
  <2>3. 0..n \subseteq S
    <3> HIDE DEF S
    <3> QED
      BY <1>1, <2>1, <2>2, UpTo
  <2> QED
    BY <1>1, <2>3
<1>8. BigEndian(bytes) = Read[n]
  BY DEF BigEndian
<1> QED
  BY <1>7, <1>8

-----------------------------------------------------------------------------
(* What is sent.                                                           *)
LEMMA SendIs ==
  ASSUME NEW first \in Nat, NEW payload \in Octets, Len(payload) < 126
  PROVE  Framed(first, payload) \in Seq(Octets)
<1> DEFINE size == Len(payload)
           t == <<<<first>> \o <<size>> \o payload>>
<1>1. Framed(first, payload) = t
  BY DEF Framed
<1>2. size \in Nat
  BY DEF Octets
<1> HIDE DEF size
<1>3. <<first>> \in Octets /\ <<size>> \in Octets
  BY <1>2 DEF Octets
<1>4. <<first>> \o <<size>> \o payload \in Octets
  BY <1>3, JoinIs
<1> QED
  BY <1>1, <1>4

LEMMA CloseIs ==
  ASSUME NEW code \in Nat
  PROVE  ws_close(code, << >>) \in Seq(Octets)
<1> DEFINE e == << >>
           t == <<code \div 256, code % 256>>
<1>1. e \in Octets /\ Len(e) = 0 /\ t \in Octets /\ Len(t) = 2 /\ t \o e = t
  BY DEF Octets
<1>2. 128 + 8 \in Nat /\ 128 \in Nat
  OBVIOUS
<1> HIDE DEF e, t
<1>3. ws_send(TRUE, 8, e) \in Seq(Octets) /\ ws_send(TRUE, 8, t) \in Seq(Octets)
  <2> DEFINE c == 128 + 8
  <2>1. \A p : ws_send(TRUE, 8, p) = Framed(c, p)
    BY DEF ws_send
  <2>2. Len(e) < 126 /\ Len(t) < 126 /\ c \in Nat
    BY <1>1
  <2> HIDE DEF c
  <2> QED
    BY <1>1, <2>1, <2>2, SendIs
<1>4. ws_close(code, e) = ws_send(TRUE, 8, e) \/ ws_close(code, e) = ws_send(TRUE, 8, t)
  <2>1. ws_close(code, e) = CASE code = WS_CODE_NOT_SET /\ e = << >> -> ws_send(TRUE, 8, << >>)
                              [] Len(e) > 123 -> << >>
                              [] OTHER -> ws_send(TRUE, 8, t \o e)
    BY DEF ws_close, t
  <2>2. ~(Len(e) > 123) /\ e = << >>
    BY <1>1 DEF e
  <2>3. CASE code = WS_CODE_NOT_SET
    BY <2>1, <2>2, <2>3
  <2>4. CASE code # WS_CODE_NOT_SET
    BY <1>1, <2>1, <2>2, <2>4
  <2> QED
    BY <2>3, <2>4
<1> QED
  BY <1>3, <1>4 DEF e

LEMMA PongIs ==
  ASSUME NEW payload \in Octets
  PROVE  ws_pong(payload) \in Seq(Octets)
<1>1. CASE Len(payload) > 125
  BY <1>1 DEF ws_pong
<1>2. CASE ~(Len(payload) > 125)
  <2>1. 128 + 10 \in Nat /\ Len(payload) < 126
    BY <1>2 DEF Octets
  <2>2. ws_pong(payload) = Framed(128 + 10, payload)
    BY <1>2 DEF ws_pong, ws_send
  <2> QED
    BY <2>1, <2>2, SendIs
<1> QED
  BY <1>1, <1>2

(* Two calls with the same reader and the same buffers.                    *)
SameReader(v, w) ==
  /\ v.state = w.state /\ v.header = w.header /\ v.szhead = w.szhead
  /\ v.length = w.length /\ v.mask = w.mask /\ v.bufs = w.bufs

LEMMA GetSame ==
  ASSUME NEW d \in Calls, NEW i \in BufSlots
  PROVE  SameReader(_getbuf_(d, i).ws, d.ws)
<1>1. d.ws.uses \in [BufSlots -> Nat] /\ d.ws.bufs \in [BufSlots -> BufferRec]
  BY CallIs
<1>2. [d.ws.uses EXCEPT ![i] = @ + 1] \in [BufSlots -> Nat]
  BY <1>1
<1>3. _getbuf_(d, i) = Slotted(d, [d.ws.uses EXCEPT ![i] = @ + 1], d.ws.bufs)
  BY GetIs
<1> DEFINE u == [d.ws.uses EXCEPT ![i] = @ + 1]
<1> HIDE DEF u
<1>4. u \in [BufSlots -> Nat] /\ _getbuf_(d, i) = Slotted(d, u, d.ws.bufs)
  BY <1>2, <1>3 DEF u
<1> QED
  BY <1>1, <1>4, SlottedIs DEF SameReader

LEMMA PutSame ==
  ASSUME NEW d \in Calls, NEW i \in BufSlots
  PROVE  SameReader(_putbuf_(d, i).ws, d.ws)
BY DEF SameReader, _putbuf_, Calls, WsRec

(* An answer or an event does not count.                                   *)
LEMMA SentCounts ==
  ASSUME NEW d, NEW g, NEW i, NEW n, Buffers(d, g, i, n), NEW e \in Calls,
         e.ws = d.ws, e.held = d.held, e.freed = d.freed, e.wrong = d.wrong, e.lost = d.lost
  PROVE  Buffers(e, g, i, n)
<1>1. \A j \in BufSlots : e.ws.bufs[j].id = d.ws.bufs[j].id /\ Len(e.ws.bufs[j].data) = Len(d.ws.bufs[j].data)
  OBVIOUS
<1> QED
  BY <1>1, Alike

LEMMA EventIs ==
  ASSUME NEW on \in On, NEW op \in Nat, NEW fin \in BOOLEAN, NEW payload \in Octets
  PROVE  Event(on, op, fin, payload) \in EventRec
BY DEF Event, EventRec

LEMMA ErrorCounts ==
  ASSUME NEW d, NEW g, NEW i, NEW n, Buffers(d, g, i, n), NEW code \in Nat, NEW rc \in Rc
  PROVE  Buffers(ws_error(d, code, rc), g, i, n) /\ ws_error(d, code, rc).ws = d.ws
<1> DEFINE e == ws_error(d, code, rc)
           o == d.out \o ws_close(code, << >>)
           ev == Append(d.events, Event("error", 8, TRUE, << >>))
<1>1. d \in Calls /\ d.out \in Seq(Octets) /\ d.events \in Seq(EventRec)
  BY DEF Buffers, Calls
<1>2. o \in Seq(Octets)
  BY <1>1, CloseIs, ConcatIs
<1>3. ev \in Seq(EventRec)
  <2>1. Event("error", 8, TRUE, << >>) \in EventRec
    <3>1. << >> \in Octets
      BY DEF Octets
    <3>2. "error" \in On
      BY DEF On
    <3>3. 8 \in Nat /\ TRUE \in BOOLEAN
      OBVIOUS
    <3> HIDE DEF ev, o, e
    <3> QED
      BY <3>1, <3>2, <3>3, EventIs, Zenon
  <2> HIDE DEF ev
  <2> QED
    BY <1>1, <2>1, AppendIs DEF ev
<1>4. e = [d EXCEPT !.out = o, !.events = ev, !.rc = rc]
  BY DEF ws_error
<1> HIDE DEF e, o, ev
<1>5. e \in Calls /\ e.ws = d.ws /\ e.held = d.held /\ e.freed = d.freed /\ e.wrong = d.wrong /\ e.lost = d.lost
  BY <1>1, <1>2, <1>3, <1>4 DEF Calls
<1> QED
  BY <1>5, SentCounts DEF e

(* The client is called with a piece of the buffer, for which it is        *)
(* counted: it keeps the piece, or releases it, or cannot.                 *)
LEMMA ReportCounts ==
  ASSUME NEW d, NEW g, NEW i \in BufSlots, Buffers(d, g, i, 2), InUse(d, i), NEW on \in On, NEW piece \in Piece,
         NEW fin \in BOOLEAN, NEW keep \in BOOLEAN, Len(d.ws.header) >= 1,
         piece.id = d.ws.bufs[i].id,
         piece.len # 0 => 1 <= piece.from,
         piece.from + piece.len - 1 <= Len(d.ws.bufs[i].data)
  PROVE  /\ Buffers(Report(d, i, on, piece, fin, keep), g, i, 1) /\ InUse(Report(d, i, on, piece, fin, keep), i)
         /\ SameReader(Report(d, i, on, piece, fin, keep).ws, d.ws)
<1> DEFINE data == d.ws.bufs[i].data
           payload == IF piece.len = 0 THEN << >> ELSE SubSeq(data, piece.from, piece.from + piece.len - 1)
           ev == Append(d.events, Event(on, GET_OPCODE(d.ws.header), fin, payload))
           told == [d EXCEPT !.events = ev]
           e == Report(d, i, on, piece, fin, keep)
<1>1. d \in Calls /\ d.events \in Seq(EventRec) /\ data \in Octets /\ d.ws.header \in Octets
  BY CallIs DEF Buffers, Calls, WsRec
<1>2. payload \in Octets
  <2>1. CASE piece.len = 0
    BY <2>1 DEF Octets
  <2>2. CASE piece.len # 0
    <3> DEFINE a == piece.from
               b == piece.from + piece.len - 1
    <3>1. a \in Nat /\ b \in Nat /\ 1 <= a /\ a <= b + 1 /\ b <= Len(data)
      BY <2>2 DEF Piece
    <3>2. SubSeq(data, a, b) \in Octets
      <4> HIDE DEF a, b, data
      <4> QED
        BY <1>1, <3>1, CutIs
    <3> QED
      BY <2>2, <3>2
  <2> QED
    BY <2>1, <2>2
<1> HIDE DEF payload
<1>3. ev \in Seq(EventRec)
  <2>1. d.ws.header[1] \in Nat
    BY <1>1 DEF Octets
  <2>2. GET_OPCODE(d.ws.header) \in Nat
    BY <2>1, ByteParts DEF GET_OPCODE
  <2>3. Event(on, GET_OPCODE(d.ws.header), fin, payload) \in EventRec
    BY <1>2, <2>2 DEF Event, EventRec
  <2> QED
    BY <1>1, <2>3, AppendIs
<1>4. e = IF ~InBuffer(d.ws.bufs[i], piece) THEN Lose(told, i)
          ELSE IF keep THEN [told EXCEPT !.held = Append(@, piece)]
          ELSE _putbufat_(told, piece)
  BY DEF Report, payload
<1>5. told \in Calls /\ told.ws = d.ws /\ told.held = d.held /\ told.freed = d.freed /\ told.wrong = d.wrong
      /\ told.lost = d.lost
  <2> HIDE DEF ev
  <2> QED
    BY <1>1, <1>3 DEF Calls
<1> HIDE DEF e, told
<1>6. Buffers(told, g, i, 2) /\ InUse(told, i)
  BY <1>5, SentCounts DEF InUse
<1>7. 2 > 0 /\ 2 - 1 = 1
  OBVIOUS
<1>8. CASE ~InBuffer(d.ws.bufs[i], piece)
  <2>1. Buffers(Lose(told, i), g, i, 2 - 1) /\ InUse(Lose(told, i), i) /\ Lose(told, i).ws = told.ws
    BY <1>6, <1>7, LoseCounts
  <2> QED
    BY <1>4, <1>5, <1>7, <1>8, <2>1 DEF SameReader, e
<1>9. CASE InBuffer(d.ws.bufs[i], piece) /\ keep
  <2> DEFINE r == [told EXCEPT !.held = Append(@, piece)]
  <2>1. Buffers(r, g, i, 2 - 1) /\ InUse(r, i) /\ r.ws = told.ws
    BY <1>5, <1>6, <1>7, <1>9, KeepCounts
  <2> HIDE DEF r
  <2>2. e = r
    BY <1>4, <1>9 DEF r
  <2> QED
    BY <1>5, <1>7, <2>1, <2>2 DEF SameReader, e
<1>10. CASE InBuffer(d.ws.bufs[i], piece) /\ ~keep
  <2>1. _putbufat_(told, piece) = _putbuf_(told, i)
    BY <1>5, <1>6, <1>10, PutAtIs
  <2>2. Buffers(_putbuf_(told, i), g, i, 2 - 1) /\ InUse(_putbuf_(told, i), i)
    <3>1. 2 > 0 /\ 2 > 1
      OBVIOUS
    <3> QED
      BY <1>6, <3>1, PutCounts
  <2>3. SameReader(_putbuf_(told, i).ws, told.ws)
    BY <1>5, PutSame
  <2> QED
    BY <1>4, <1>5, <1>7, <1>10, <2>1, <2>2, <2>3 DEF e
<1> QED
  BY <1>8, <1>9, <1>10 DEF e
-----------------------------------------------------------------------------
(* The state of the reader.  A header is complete only when it is refused. *)
Refused(h) == GET_OPCODE(h) \in Control /\ (GET_RSV123(h) # 0 \/ GET_PAYLOAD_LEN(h) > 125)

Parsing(w) ==
  /\ w.state = "START" => w.szhead = 2 /\ (Len(w.header) < 2 \/ (Len(w.header) = 2 /\ Refused(w.header)))
  /\ w.state = "LENGTH" => /\ 2 <= Len(w.header) /\ Len(w.header) <= w.szhead /\ w.szhead = HeaderSize(w.header)
                           /\ Len(w.header) < w.szhead \/ PayloadLength(w.header) > MaxLength
  /\ w.state = "DATA" => 2 <= Len(w.header) /\ w.length > 0

(* A call that reads the L bytes of the buffer of the slot i, and where it *)
(* is in them.                                                             *)
Reads(d, g, i, L) ==
  Buffers(d, g, i, 1) /\ InUse(d, i) /\ Len(d.ws.bufs[i].data) = L

Fine(d, g, i, L) == Reads(d, g, i, L) /\ Parsing(d.ws)

Places == [d : Calls, pos : Nat, length : Nat]

Going(x, g, i, L) ==
  x \in Places /\ Fine(x.d, g, i, L) /\ 1 <= x.pos /\ x.pos + x.length <= L + 1

LEMMA AtIs ==
  ASSUME NEW d, NEW g, NEW i, NEW L \in Nat, Fine(d, g, i, L), NEW pos \in Nat, NEW length \in Nat,
         1 <= pos, pos + length <= L + 1
  PROVE  Going(Reading(d, pos, length), g, i, L) /\ Reading(d, pos, length).length = length /\ Reading(d, pos, length).pos = pos
         /\ Reading(d, pos, length).d = d
BY DEF Going, Places, Reading, Fine, Reads, Buffers

LEMMA ParsingSame ==
  ASSUME NEW v, NEW w, SameReader(v, w), Parsing(w)
  PROVE  Parsing(v)
BY DEF SameReader, Parsing

LEMMA FineSame ==
  ASSUME NEW d, NEW e, NEW g, NEW i, NEW L, Buffers(d, g, i, 1), InUse(d, i), SameReader(d.ws, e.ws),
         Len(e.ws.bufs[i].data) = L, Parsing(e.ws)
  PROVE  Fine(d, g, i, L)
BY ParsingSame DEF Fine, Reads, SameReader

LEMMA ErrorFine ==
  ASSUME NEW d, NEW g, NEW i, NEW L, Fine(d, g, i, L), NEW code \in Nat, NEW rc \in Rc
  PROVE  Fine(ws_error(d, code, rc), g, i, L)
<1>1. Buffers(ws_error(d, code, rc), g, i, 1) /\ ws_error(d, code, rc).ws = d.ws
  BY ErrorCounts DEF Fine, Reads
<1> QED
  BY <1>1 DEF Fine, Reads, InUse

(* The payload is taken as far as it is there.                             *)
LEMMA DataKeeps ==
  ASSUME NEW d, NEW g, NEW i \in BufSlots, NEW L \in Nat, Reads(d, g, i, L), d.ws.state = "DATA", 2 <= Len(d.ws.header),
         NEW pos \in Nat, NEW length \in Nat, 1 <= pos, pos + length <= L + 1, NEW keep \in BOOLEAN
  PROVE  LET y == Data(d, i, pos, length, keep)
         IN  /\ Going(y, g, i, L) /\ y.length <= length
             /\ length > 0 /\ d.ws.length > 0 => y.length < length
<1> DEFINE w == d.ws
           h == w.header
           op == GET_OPCODE(h)
           whole == w.length <= length
           n == IF whole THEN w.length ELSE length
           fin == whole /\ GET_FIN(h)
           bytes == w.bufs[i].data
           un == unmask(w.mask, SubSeq(bytes, pos, pos + n - 1))
           data == IF w.mask = <<0, 0, 0, 0>> THEN bytes ELSE
                     SubSeq(bytes, 1, pos - 1) \o un.data \o SubSeq(bytes, pos + n, Len(bytes))
           e == [d EXCEPT !.ws.state = IF whole THEN "INIT" ELSE @,
                          !.ws.mask = IF @ = <<0, 0, 0, 0>> THEN @ ELSE un.mask,
                          !.ws.bufs[i].data = data]
           got == _getbuf_(e, i)
           piece == [id |-> w.bufs[i].id, from |-> IF w.length = 0 THEN 0 ELSE pos, len |-> n]
           closed == IF n = 0 THEN piece ELSE [piece EXCEPT !.from = @ + 2, !.len = @ - 2]
           ponged == [Lose(got, i) EXCEPT !.out = @ \o ws_pong(IF n = 0 THEN << >> ELSE SubSeq(data, pos, pos + n - 1))]
           Further(r) == Reading(r, pos, length - n)
           Refuse(r) == Reading(ws_error(r, WS_CODE_PROTOCOL_ERROR, "EPROTO"), pos, 0)
           Told(on) == Report(got, i, on, piece, fin, keep)
           y == Data(d, i, pos, length, keep)
           OK(r) == Fine(r, g, i, L)
<1>1. Buffers(d, g, i, 1) /\ InUse(d, i) /\ d \in Calls /\ Len(bytes) = L
  BY DEF Reads, Buffers
<1>2. w \in WsRec /\ w.bufs \in [BufSlots -> BufferRec] /\ bytes \in Octets /\ w.bufs[i].id \in Nat /\ w.length \in Nat
      /\ w.mask \in [1..4 -> Nat]
  BY <1>1, CallIs DEF WsRec
<1>3. n \in Nat /\ n <= length /\ n <= w.length /\ (whole => n = w.length) /\ (~whole => w.length > 0 /\ n = length)
  <2> DEFINE a == w.length
  <2>1. a \in Nat
    BY <1>2
  <2> HIDE DEF a
  <2>2. \A b, c \in Nat : IF b <= c THEN b <= b ELSE b > 0 /\ c <= b /\ c <= c
    OBVIOUS
  <2>3. a <= a
    BY <2>1
  <2> QED
    BY <2>1, <2>2, <2>3 DEF a
<1>4. fin \in BOOLEAN
  BY DEF GET_FIN
<1>5. pos + n - 1 \in Nat /\ pos <= pos + n - 1 + 1 /\ pos + n - 1 <= L
  <2> HIDE DEF n
  <2> QED
    BY <1>3
<1>6. SubSeq(bytes, pos, pos + n - 1) \in Octets /\ Len(SubSeq(bytes, pos, pos + n - 1)) = n
  <2> DEFINE b == pos + n - 1
  <2>1. b \in Nat /\ pos <= b + 1 /\ b <= Len(bytes) /\ b + 1 - pos = n
    <3> HIDE DEF n, bytes
    <3> QED
      BY <1>1, <1>3
  <2> HIDE DEF b, bytes
  <2>2. SubSeq(bytes, pos, b) \in Octets /\ Len(SubSeq(bytes, pos, b)) = b + 1 - pos
    BY <1>2, <2>1, CutIs
  <2> QED
    BY <2>1, <2>2 DEF b
<1>7. un.data \in Octets /\ Len(un.data) = n /\ un.mask \in [1..4 -> Nat]
  <2> HIDE DEF n, bytes
  <2> QED
    BY <1>2, <1>6, UnmaskIs
<1>8. data \in Octets /\ Len(data) = L
  <2> DEFINE s == SubSeq(bytes, 1, pos - 1)
             t == SubSeq(bytes, pos + n, Len(bytes))
  <2>1. s \in Octets /\ Len(s) = pos - 1
    <3> DEFINE b == pos - 1
    <3>1. b \in Nat /\ 1 \in Nat /\ 1 <= b + 1 /\ b <= Len(bytes) /\ b + 1 - 1 = pos - 1 /\ 1 <= 1
      BY <1>1
    <3> HIDE DEF b, bytes
    <3>2. SubSeq(bytes, 1, b) \in Octets /\ Len(SubSeq(bytes, 1, b)) = b + 1 - 1
      BY <1>2, <3>1, CutIs
    <3> QED
      BY <3>1, <3>2 DEF b
  <2>2. t \in Octets /\ Len(t) = L + 1 - (pos + n)
    <3> DEFINE a == pos + n
    <3>1. a \in Nat /\ 1 <= a /\ a <= Len(bytes) + 1 /\ Len(bytes) \in Nat /\ Len(bytes) <= Len(bytes)
      BY <1>1, <1>3
    <3> HIDE DEF a, bytes
    <3>2. SubSeq(bytes, a, Len(bytes)) \in Octets /\ Len(SubSeq(bytes, a, Len(bytes))) = Len(bytes) + 1 - a
      BY <1>2, <3>1, CutIs
    <3> QED
      BY <1>1, <3>2 DEF a
  <2>3. data = IF w.mask = <<0, 0, 0, 0>> THEN bytes ELSE s \o un.data \o t
    OBVIOUS
  <2> HIDE DEF s, t, un, data, bytes, n
  <2>4. s \o un.data \in Octets /\ Len(s \o un.data) = pos - 1 + n
    BY <1>7, <2>1, JoinIs
  <2>5. s \o un.data \o t \in Octets /\ Len(s \o un.data \o t) = Len(s \o un.data) + Len(t)
    BY <2>2, <2>4, JoinIs
  <2>6. Len(s \o un.data \o t) = L
    BY <1>3, <2>2, <2>4, <2>5
  <2> QED
    BY <1>1, <1>2, <2>3, <2>5, <2>6
<1>9. /\ e \in Calls /\ e.held = d.held /\ e.freed = d.freed /\ e.wrong = d.wrong /\ e.lost = d.lost
      /\ e.ws.uses = w.uses /\ e.ws.bufs = [w.bufs EXCEPT ![i].data = data]
      /\ e.ws.header = h /\ e.ws.szhead = w.szhead /\ e.ws.length = w.length
      /\ e.ws.state = IF whole THEN "INIT" ELSE "DATA"
  <2> DEFINE v == [w EXCEPT !.state = IF whole THEN "INIT" ELSE "DATA",
                            !.mask = IF w.mask = <<0, 0, 0, 0>> THEN w.mask ELSE un.mask,
                            !.bufs = [w.bufs EXCEPT ![i].data = data]]
  <2>1. e = [d EXCEPT !.ws = v]
    BY <1>1 DEF Calls, WsRec
  <2>2. [w.bufs EXCEPT ![i].data = data] \in [BufSlots -> BufferRec]
    <3> HIDE DEF data
    <3> QED
      BY <1>2, <1>8 DEF BufferRec
  <2> DEFINE m == IF w.mask = <<0, 0, 0, 0>> THEN w.mask ELSE un.mask
             B == [w.bufs EXCEPT ![i].data = data]
             st == IF whole THEN "INIT" ELSE "DATA"
  <2>3. m \in [1..4 -> Nat] /\ B \in [BufSlots -> BufferRec] /\ st \in {"INIT", "START", "LENGTH", "DATA"}
    <3> HIDE DEF un
    <3> QED
      BY <1>2, <1>7, <2>2
  <2>4. v = [w EXCEPT !.state = st, !.mask = m, !.bufs = B]
    OBVIOUS
  <2> HIDE DEF m, B, st, v, e
  <2>5. v \in WsRec /\ v.uses = w.uses /\ v.bufs = B /\ v.header = h /\ v.szhead = w.szhead /\ v.length = w.length
        /\ v.state = st
    BY <1>2, <2>3, <2>4 DEF WsRec
  <2> QED
    BY <1>1, <2>1, <2>5 DEF Calls, B, st
<1> DEFINE B == [w.bufs EXCEPT ![i].data = data]
<1>9a. e.ws.bufs = B /\ B[i].id = w.bufs[i].id /\ B[i].data = data /\ \A j \in BufSlots : j # i => B[j] = w.bufs[j]
  <2>1. B[i].id = w.bufs[i].id /\ B[i].data = data /\ \A j \in BufSlots : j # i => B[j] = w.bufs[j]
    <3> HIDE DEF data
    <3> QED
      BY <1>2 DEF BufferRec
  <2> QED
    BY <1>9, <2>1
<1> HIDE DEF B
<1>10. Buffers(e, g, i, 1) /\ InUse(e, i)
  <2>1. \A j \in BufSlots : e.ws.bufs[j].id = w.bufs[j].id /\ Len(e.ws.bufs[j].data) = Len(w.bufs[j].data)
    <3> HIDE DEF data, e, bytes
    <3> QED
      BY <1>1, <1>8, <1>9a DEF bytes
  <2> HIDE DEF e, data
  <2> QED
    BY <1>1, <1>9, <2>1, Alike DEF InUse
<1>11. e.ws.bufs[i].id = w.bufs[i].id /\ Len(e.ws.bufs[i].data) = L
  <2> HIDE DEF data, e, bytes
  <2> QED
    BY <1>8, <1>9a
<1>12. Parsing(e.ws)
  <2> HIDE DEF e, data, n
  <2> QED
    BY <1>3, <1>9 DEF Parsing
<1>13. Buffers(got, g, i, 2) /\ InUse(got, i) /\ SameReader(got.ws, e.ws)
  <2>1. Buffers(_getbuf_(e, i), g, i, 1 + 1) /\ InUse(_getbuf_(e, i), i)
    <3> HIDE DEF e
    <3> QED
      BY <1>10, GetCounts
  <2>2. SameReader(_getbuf_(e, i).ws, e.ws)
    <3> HIDE DEF e
    <3> QED
      BY <1>9, GetSame
  <2>3. 1 + 1 = 2
    OBVIOUS
  <2> HIDE DEF e
  <2> QED
    BY <2>1, <2>2, <2>3
<1>14. y = CASE GET_RSV123(h) # 0 -> IF itf.on_extension THEN Further(Told("extension")) ELSE Refuse(_putbuf_(got, i))
             [] GET_RSV123(h) = 0 /\ op \in {0, 1, 2} -> Further(Told("data"))
             [] GET_RSV123(h) = 0 /\ op \in Control /\ fin ->
                  (CASE op = 8 -> IF n = 1 THEN Refuse(Lose(got, i)) ELSE Reading(Report(got, i, "close", closed, fin, keep), pos, 0)
                     [] op = 9 -> IF itf.on_ping THEN Further(Told("ping")) ELSE Further(ponged)
                     [] op = 10 -> Further(IF itf.on_pong THEN Told("pong") ELSE Lose(got, i)))
             [] OTHER -> Refuse(_putbuf_(got, i))
  BY DEF Data
<1>15. piece \in Piece /\ piece.id = w.bufs[i].id /\ piece.len = n /\ (n # 0 => 1 <= piece.from) /\ piece.from + n - 1 <= L
  <2> HIDE DEF n, bytes
  <2> QED
    BY <1>2, <1>3, <1>5 DEF Piece
<1>16. n # 1 => closed \in Piece /\ closed.id = w.bufs[i].id /\ (closed.len # 0 => 1 <= closed.from)
                /\ closed.from + closed.len - 1 <= L
  <2> HIDE DEF n, bytes, piece
  <2>1. CASE n = 0
    BY <1>15, <2>1
  <2>2. CASE n # 0 /\ n # 1
    <3>1. closed = [piece EXCEPT !.from = @ + 2, !.len = @ - 2] /\ n - 2 \in Nat /\ n >= 2
      BY <1>3, <2>2
    <3> HIDE DEF closed
    <3>2. closed \in Piece /\ closed.id = piece.id /\ closed.from = piece.from + 2 /\ closed.len = n - 2
      <4>1. piece \in [id : Nat, from : Nat, len : Nat] /\ piece.len - 2 \in Nat /\ piece.from + 2 \in Nat
        BY <1>15, <3>1 DEF Piece
      <4>2. closed = [id |-> piece.id, from |-> piece.from + 2, len |-> piece.len - 2]
        BY <3>1, <4>1
      <4> DEFINE a == piece.from + 2
                 c == piece.len - 2
      <4>3. piece.id \in Nat /\ a \in Nat /\ c \in Nat /\ c = n - 2
        BY <1>15, <4>1
      <4> HIDE DEF a, c
      <4>4. closed = [id |-> piece.id, from |-> a, len |-> c]
        BY <4>2 DEF a, c
      <4>5. closed \in Piece /\ closed.id = piece.id /\ closed.from = a /\ closed.len = c
        BY <4>3, <4>4 DEF Piece
      <4> QED
        BY <4>3, <4>5 DEF a
    <3> QED
      <4> DEFINE a == closed.from
                 c == closed.len
                 o == piece.from
      <4>1. closed \in Piece /\ closed.id = w.bufs[i].id
        BY <1>15, <3>2
      <4>2. a \in Nat /\ c \in Nat /\ o \in Nat /\ a = o + 2 /\ c = n - 2 /\ n >= 2 /\ 1 <= o /\ o + n - 1 <= L
        BY <1>3, <1>15, <2>2, <3>1, <3>2 DEF Piece
      <4> HIDE DEF a, c, o
      <4>3. 1 <= a /\ a + c - 1 <= L
        BY <1>3, <4>2
      <4> QED
        BY <4>1, <4>3 DEF a, c
  <2> QED
    BY <2>1, <2>2
<1>17. ASSUME NEW on \in On, NEW p \in Piece, p.id = w.bufs[i].id, p.len # 0 => 1 <= p.from, p.from + p.len - 1 <= L
       PROVE  OK(Report(got, i, on, p, fin, keep))
  <2> HIDE DEF got, e, fin
  <2>1. got.ws.bufs[i].id = p.id /\ Len(got.ws.bufs[i].data) = L /\ Len(got.ws.header) >= 1
    <3> HIDE DEF data, un, n
    <3>1. got.ws.bufs = e.ws.bufs /\ got.ws.header = e.ws.header /\ e.ws.header = h
      BY <1>9, <1>13 DEF SameReader
    <3>2. Len(h) >= 1
      <4>1. Len(h) \in Nat
        BY <1>2 DEF WsRec, Octets
      <4> QED
        BY <4>1
    <3> QED
      BY <1>11, <1>17, <3>1, <3>2
  <2>2. /\ Buffers(Report(got, i, on, p, fin, keep), g, i, 1) /\ InUse(Report(got, i, on, p, fin, keep), i)
        /\ SameReader(Report(got, i, on, p, fin, keep).ws, got.ws)
    BY <1>4, <1>13, <1>17, <2>1, ReportCounts
  <2>3. SameReader(Report(got, i, on, p, fin, keep).ws, e.ws)
    BY <1>13, <2>2 DEF SameReader
  <2> QED
    BY <1>11, <1>12, <2>2, <2>3, FineSame
<1>18. OK(_putbuf_(got, i))
  <2> HIDE DEF got, e
  <2>1. 2 > 0 /\ 2 > 1 /\ 2 - 1 = 1 /\ got \in Calls
    BY <1>13 DEF Buffers
  <2>2. Buffers(_putbuf_(got, i), g, i, 2 - 1) /\ InUse(_putbuf_(got, i), i)
    BY <1>13, <2>1, PutCounts
  <2>3. SameReader(_putbuf_(got, i).ws, got.ws)
    BY <2>1, PutSame
  <2>4. SameReader(_putbuf_(got, i).ws, e.ws)
    BY <1>13, <2>3 DEF SameReader
  <2> QED
    BY <1>11, <1>12, <2>1, <2>2, <2>4, FineSame
<1>19. OK(Lose(got, i))
  <2> HIDE DEF got, e
  <2>1. 2 > 0 /\ 2 - 1 = 1
    OBVIOUS
  <2>2. Buffers(Lose(got, i), g, i, 2 - 1) /\ InUse(Lose(got, i), i) /\ Lose(got, i).ws = got.ws
    BY <1>13, <2>1, LoseCounts
  <2>3. SameReader(Lose(got, i).ws, e.ws)
    BY <1>13, <2>2
  <2> QED
    BY <1>11, <1>12, <2>1, <2>2, <2>3, FineSame
<1>20. OK(ponged)
  <2> DEFINE lo == Lose(got, i)
             a == IF n = 0 THEN << >> ELSE SubSeq(data, pos, pos + n - 1)
             o == lo.out \o ws_pong(a)
  <2>1. a \in Octets
    <3>1. << >> \in Octets
      BY DEF Octets
    <3>2. SubSeq(data, pos, pos + n - 1) \in Octets
      <4> DEFINE b == pos + n - 1
      <4>1. b \in Nat /\ pos <= b + 1 /\ b <= Len(data)
        BY <1>5, <1>8
      <4> HIDE DEF b, data
      <4> QED
        BY <1>8, <4>1, CutIs DEF b
    <3> HIDE DEF data, n
    <3> QED
      BY <3>1, <3>2
  <2>2. lo \in Calls /\ lo.out \in Seq(Octets)
    <3> HIDE DEF got
    <3> QED
      BY <1>19 DEF Fine, Reads, Buffers, Calls
  <2>3. ponged = [lo EXCEPT !.out = o]
    BY Zenon
  <2>4. o \in Seq(Octets)
    <3> HIDE DEF a, lo
    <3> QED
      BY <2>1, <2>2, PongIs, ConcatIs
  <2> HIDE DEF ponged, o, lo, a
  <2>5. ponged \in Calls /\ ponged.ws = lo.ws /\ ponged.held = lo.held /\ ponged.freed = lo.freed
        /\ ponged.wrong = lo.wrong /\ ponged.lost = lo.lost
    BY <2>2, <2>3, <2>4 DEF Calls
  <2>6. Fine(lo, g, i, L)
    BY <1>19 DEF lo
  <2>7. Buffers(ponged, g, i, 1)
    BY <2>5, <2>6, SentCounts DEF Fine, Reads
  <2> QED
    BY <2>5, <2>6, <2>7 DEF Fine, Reads, InUse
<1>21. ASSUME NEW r, OK(r)
       PROVE  /\ Going(Further(r), g, i, L) /\ Further(r).length = length - n
              /\ Going(Refuse(r), g, i, L) /\ Refuse(r).length = 0
              /\ Going(Reading(r, pos, 0), g, i, L) /\ Reading(r, pos, 0).length = 0
  <2>1. length - n \in Nat /\ pos + (length - n) <= L + 1 /\ 0 \in Nat /\ pos + 0 <= L + 1
    BY <1>3
  <2> DEFINE m == length - n
  <2> HIDE DEF n
  <2>2. Fine(ws_error(r, WS_CODE_PROTOCOL_ERROR, "EPROTO"), g, i, L)
    <3>1. WS_CODE_PROTOCOL_ERROR \in Nat /\ "EPROTO" \in Rc
      BY DEF WS_CODE_PROTOCOL_ERROR, Rc
    <3> QED
      BY <1>21, <3>1, ErrorFine
  <2>3. Going(Reading(r, pos, m), g, i, L) /\ Reading(r, pos, m).length = m
    <3>1. m \in Nat /\ pos + m <= L + 1
      BY <2>1
    <3> HIDE DEF m
    <3> QED
      BY <1>21, <3>1, AtIs
  <2>4. Going(Reading(r, pos, 0), g, i, L) /\ Reading(r, pos, 0).length = 0
    BY <1>21, <2>1, AtIs
  <2>5. Going(Refuse(r), g, i, L) /\ Refuse(r).length = 0
    BY <2>1, <2>2, AtIs
  <2> QED
    BY <2>3, <2>4, <2>5
<1>22. /\ \A on \in On : OK(Told(on))
       /\ n # 1 => OK(Report(got, i, "close", closed, fin, keep))
  <2>1. \A on \in On : OK(Told(on))
    <3> HIDE DEF got, fin, n, piece
    <3> QED
      BY <1>15, <1>17
  <2>2. n # 1 => OK(Report(got, i, "close", closed, fin, keep))
    <3>1. "close" \in On
      BY DEF On
    <3> HIDE DEF got, fin, n, closed
    <3> QED
      BY <1>16, <1>17, <3>1
  <2> QED
    BY <2>1, <2>2
<1>23. \E r : OK(r) /\ (y = Further(r) \/ y = Refuse(r) \/ y = Reading(r, pos, 0))
  <2>1. {"extension", "data", "ping", "pong"} \subseteq On
    BY DEF On
  <2>2. OK(Told("extension")) /\ OK(Told("data")) /\ OK(Told("ping")) /\ OK(Told("pong"))
    BY <1>22, <2>1
  <2>3. \/ y = Further(Told("extension")) \/ y = Refuse(_putbuf_(got, i)) \/ y = Further(Told("data"))
        \/ y = Refuse(Lose(got, i)) \/ (n # 1 /\ y = Reading(Report(got, i, "close", closed, fin, keep), pos, 0))
        \/ y = Further(Told("ping")) \/ y = Further(ponged) \/ y = Further(Told("pong")) \/ y = Further(Lose(got, i))
    <3> DEFINE rsv == GET_RSV123(h)
    <3> HIDE DEF y, got, fin, n, closed, ponged, piece, op, Further, Refuse, Told, rsv
    <3>1. CASE rsv # 0
      BY <1>14, <3>1 DEF rsv
    <3>2. CASE rsv = 0 /\ op \in {0, 1, 2}
      <4>1. ~(GET_RSV123(h) # 0) /\ GET_RSV123(h) = 0 /\ op \in {0, 1, 2} /\ op \notin Control
        BY <3>2 DEF rsv, Control
      <4>2. y = Further(Told("data"))
        BY <1>14, <4>1
      <4> QED
        BY <4>2
    <3>3. CASE rsv = 0 /\ op \notin {0, 1, 2} /\ op \in Control /\ fin
      <4>1. op \in Control /\ fin /\ GET_RSV123(h) = 0 /\ op \notin {0, 1, 2}
        BY <3>3 DEF rsv
      <4>2. y = CASE op = 8 -> IF n = 1 THEN Refuse(Lose(got, i)) ELSE Reading(Report(got, i, "close", closed, fin, keep), pos, 0)
                  [] op = 9 -> IF itf.on_ping THEN Further(Told("ping")) ELSE Further(ponged)
                  [] op = 10 -> Further(IF itf.on_pong THEN Told("pong") ELSE Lose(got, i))
        BY <1>14, <4>1
      <4>3. op = 8 \/ op = 9 \/ op = 10
        BY <4>1 DEF Control
      <4> QED
        BY <4>2, <4>3
    <3>4. CASE rsv = 0 /\ op \notin {0, 1, 2} /\ ~(op \in Control /\ fin)
      BY <1>14, <3>4 DEF rsv
    <3> QED
      BY <3>1, <3>2, <3>3, <3>4
  <2> HIDE DEF y, got, fin, n, closed, ponged, piece, Further, Refuse, Told, OK
  <2> QED
    BY <1>18, <1>19, <1>20, <1>22, <2>2, <2>3
<1>24. PICK r : OK(r) /\ (y = Further(r) \/ y = Refuse(r) \/ y = Reading(r, pos, 0))
  BY <1>23
<1>25. Going(y, g, i, L) /\ (y.length = length - n \/ y.length = 0)
  <2> HIDE DEF y, Further, Refuse, OK, n
  <2> QED
    BY <1>21, <1>24
<1> HIDE DEF y, n
<1>26. length > 0 /\ w.length > 0 => n > 0
  BY <1>2 DEF n
<1> QED
  BY <1>3, <1>25, <1>26 DEF y
(* The same call with another reader of the same buffers.                  *)
LEMMA Reread ==
  ASSUME NEW d, NEW g, NEW i, NEW L, Reads(d, g, i, L), NEW v \in WsRec, v.bufs = d.ws.bufs, v.uses = d.ws.uses
  PROVE  Reads([d EXCEPT !.ws = v], g, i, L) /\ [d EXCEPT !.ws = v].ws = v
<1> DEFINE e == [d EXCEPT !.ws = v]
<1>1. d \in Calls /\ Buffers(d, g, i, 1)
  BY DEF Reads, Buffers
<1>2. e \in Calls /\ e.ws = v /\ e.held = d.held /\ e.freed = d.freed /\ e.wrong = d.wrong /\ e.lost = d.lost
  BY <1>1 DEF Calls
<1> HIDE DEF e
<1>3. Buffers(e, g, i, 1)
  BY <1>1, <1>2, Alike
<1> QED
  BY <1>2, <1>3 DEF Reads, InUse, e

(* r has read k bytes more of the header than d.                           *)
HeaderRead(r, d, g, i, L, length, k) ==
  /\ Reads(r, g, i, L) /\ r.ws \in WsRec /\ r.ws = [d.ws EXCEPT !.header = r.ws.header]
  /\ k = Len(r.ws.header) - Len(d.ws.header)
  /\ k \in Nat /\ k <= length /\ Len(r.ws.header) <= d.ws.szhead
  /\ Len(d.ws.header) < d.ws.szhead /\ length > 0 => k > 0
  /\ \A j \in 1..Len(d.ws.header) : r.ws.header[j] = d.ws.header[j]
  /\ Len(d.ws.header) = d.ws.szhead => r.ws.header = d.ws.header
  /\ r.ws.header \in Octets /\ d.ws.header \in Octets
  /\ r.ws.state = d.ws.state /\ r.ws.szhead = d.ws.szhead /\ r.ws.length = d.ws.length

LEMMA HeaderIs ==
  ASSUME NEW d, NEW g, NEW i \in BufSlots, NEW L \in Nat, Reads(d, g, i, L), Len(d.ws.header) <= d.ws.szhead,
         NEW pos \in Nat, NEW length \in Nat, 1 <= pos, pos + length <= L + 1
  PROVE  \E k : HeaderRead(Header(d, i, pos, length), d, g, i, L, length, k)
<1> DEFINE w == d.ws
           bytes == w.bufs[i].data
           k == Min({w.szhead - Len(w.header), length})
           t == SubSeq(bytes, pos, pos + k - 1)
           h == w.header \o t
           r == Header(d, i, pos, length)
<1>1. d \in Calls /\ w \in WsRec /\ w.header \in Octets /\ w.szhead \in Nat /\ bytes \in Octets /\ Len(bytes) = L
      /\ Len(w.header) \in Nat
  <2>1. d \in Calls /\ Len(bytes) = L
    BY DEF Reads, Buffers
  <2>2. w \in WsRec /\ bytes \in Octets
    BY <2>1, CallIs
  <2>3. w.header \in Octets /\ w.szhead \in Nat
    BY <2>2 DEF WsRec
  <2>4. Len(w.header) \in Nat
    BY <2>3 DEF Octets
  <2> QED
    BY <2>1, <2>2, <2>3, <2>4
<1>2. k \in Nat /\ k <= length /\ k <= w.szhead - Len(w.header) /\ (k = length \/ k = w.szhead - Len(w.header))
  <2> DEFINE a == w.szhead - Len(w.header)
  <2>1. a \in Nat
    BY <1>1
  <2> HIDE DEF a
  <2>2. Min({a, length}) = IF a <= length THEN a ELSE length
    BY <2>1 DEF Min
  <2> QED
    BY <2>1, <2>2 DEF a
<1> HIDE DEF k
<1>3. t \in Octets /\ Len(t) = k
  <2> DEFINE b == pos + k - 1
  <2>1. b \in Nat /\ pos <= b + 1 /\ b <= Len(bytes) /\ b + 1 - pos = k
    BY <1>1, <1>2
  <2> HIDE DEF b, bytes
  <2>2. SubSeq(bytes, pos, b) \in Octets /\ Len(SubSeq(bytes, pos, b)) = b + 1 - pos
    BY <1>1, <2>1, CutIs
  <2> QED
    BY <2>1, <2>2 DEF b
<1>4. r = [d EXCEPT !.ws.header = h]
  BY DEF Header, k
<1> HIDE DEF t
<1>5. h \in Octets /\ Len(h) = Len(w.header) + k /\ \A j \in 1..Len(w.header) : h[j] = w.header[j]
  BY <1>1, <1>3, JoinIs
<1>6. Len(w.header) = w.szhead => h = w.header
  <2> SUFFICES ASSUME Len(w.header) = w.szhead
               PROVE  h = w.header
    OBVIOUS
  <2>1. Len(h) = Len(w.header)
    BY <1>1, <1>2, <1>5
  <2> HIDE DEF h, w
  <2> QED
    BY <1>1, <1>5, <2>1, SameSeq DEF Octets
<1> HIDE DEF h, r
<1>7. r = [d EXCEPT !.ws = [w EXCEPT !.header = h]]
  BY <1>1, <1>4 DEF Calls, WsRec
<1> DEFINE v == [w EXCEPT !.header = h]
<1>8. v \in WsRec /\ v.bufs = w.bufs /\ v.uses = w.uses /\ v.header = h /\ v.state = w.state /\ v.szhead = w.szhead
      /\ v.length = w.length
  BY <1>1, <1>5 DEF WsRec
<1>9. v = [w EXCEPT !.header = h]
  OBVIOUS
<1> HIDE DEF v
<1>10. Reads(r, g, i, L) /\ r.ws = v
  <2>1. r = [d EXCEPT !.ws = v]
    BY <1>7, <1>9, Zenon
  <2>2. Reads([d EXCEPT !.ws = v], g, i, L) /\ [d EXCEPT !.ws = v].ws = v
    <3> HIDE DEF w
    <3> QED
      BY <1>8, Reread DEF w
  <2> QED
    BY <2>1, <2>2
<1>11. Len(h) - Len(w.header) = k /\ Len(h) <= w.szhead
       /\ (Len(w.header) < w.szhead /\ length > 0 => k > 0)
  BY <1>1, <1>2, <1>5
<1>12. r.ws.header = h /\ r.ws.state = w.state /\ r.ws.szhead = w.szhead /\ r.ws.length = w.length /\ r.ws \in WsRec
       /\ r.ws = [w EXCEPT !.header = h]
  BY <1>8, <1>9, <1>10
<1>13. HeaderRead(r, d, g, i, L, length, k)
  BY <1>1, <1>2, <1>5, <1>6, <1>10, <1>11, <1>12 DEF HeaderRead
<1> QED
  BY <1>13 DEF r

LEMMA SizeIs ==
  ASSUME NEW h \in Octets, 2 <= Len(h)
  PROVE  /\ HeaderSize(h) \in Nat /\ 2 <= HeaderSize(h)
         /\ GET_MASK(h) => 6 <= HeaderSize(h)
         /\ GET_PAYLOAD_LEN(h) \in 0..127
         /\ GET_PAYLOAD_LEN(h) = 126 => 4 <= HeaderSize(h)
         /\ GET_PAYLOAD_LEN(h) = 127 => 10 <= HeaderSize(h)
<1>1. h[2] \in Nat
  BY DEF Octets
<1>2. GET_PAYLOAD_LEN(h) \in 0..127
  <2>1. \A a \in Nat : a % 128 \in 0..127
    OBVIOUS
  <2> QED
    BY <1>1, <2>1 DEF GET_PAYLOAD_LEN
<1> DEFINE l == GET_PAYLOAD_LEN(h)
           a == CASE l = 127 -> 8 [] l = 126 -> 2 [] OTHER -> 0
           b == IF GET_MASK(h) THEN 4 ELSE 0
<1>3. a \in Nat /\ (l = 126 => a = 2) /\ (l = 127 => a = 8)
  <2> HIDE DEF l
  <2> QED
    OBVIOUS
<1>4. b \in Nat /\ (GET_MASK(h) => b = 4)
  OBVIOUS
<1>5. HeaderSize(h) = 2 + a + b
  BY DEF HeaderSize
<1> HIDE DEF a, b, l
<1> QED
  BY <1>2, <1>3, <1>4, <1>5 DEF l

LEMMA LengthIs ==
  ASSUME NEW h \in Octets, 2 <= Len(h), Len(h) = HeaderSize(h)
  PROVE  PayloadLength(h) \in Nat
<1> DEFINE l == GET_PAYLOAD_LEN(h)
           b == IF l = 126 THEN 4 ELSE 10
<1>1. l \in 0..127 /\ (l = 126 => 4 <= Len(h)) /\ (l = 127 => 10 <= Len(h))
  BY SizeIs
<1>2. CASE l < 126
  <2>1. PayloadLength(h) = IF l < 126 THEN l ELSE BigEndian(SubSeq(h, 3, b))
    BY DEF PayloadLength
  <2> HIDE DEF l, b
  <2> QED
    BY <1>1, <1>2, <2>1
<1>3. CASE ~(l < 126)
  <2>1. b \in Nat /\ 3 <= b + 1 /\ b <= Len(h) /\ 3 \in Nat /\ 1 <= 3
    <3> HIDE DEF l
    <3> QED
      BY <1>1, <1>3
  <2>2. PayloadLength(h) = BigEndian(SubSeq(h, 3, b))
    BY <1>3 DEF PayloadLength
  <2> HIDE DEF b
  <2>3. SubSeq(h, 3, b) \in Octets
    BY <2>1, CutIs
  <2> QED
    BY <2>2, <2>3, BigEndianIsNat
<1> QED
  BY <1>2, <1>3

LEMMA ElementsAre ==
  ASSUME NEW S, NEW s \in Seq(S)
  PROVE  \A j \in 1..Len(s) : s[j] \in S
OBVIOUS

(* The bytes of the length are read, up to the payload.                    *)
LEMMA LengthKeeps ==
  ASSUME NEW d, NEW g, NEW i \in BufSlots, NEW L \in Nat, Reads(d, g, i, L), d.ws.state = "LENGTH",
         2 <= Len(d.ws.header), Len(d.ws.header) <= d.ws.szhead, d.ws.szhead = HeaderSize(d.ws.header),
         NEW pos \in Nat, NEW length \in Nat, 1 <= pos, pos + length <= L + 1, NEW keep \in BOOLEAN
  PROVE  LET y == Length(d, i, pos, length, keep)
         IN  /\ Going(y, g, i, L) /\ y.length <= length
             /\ length > 0 /\ (Len(d.ws.header) < d.ws.szhead \/ PayloadLength(d.ws.header) > MaxLength) => y.length < length
<1> PICK k : HeaderRead(Header(d, i, pos, length), d, g, i, L, length, k)
  BY HeaderIs
<1> DEFINE w == d.ws
           r == Header(d, i, pos, length)
           h == r.ws.header
           m == IF GET_MASK(h) THEN SubSeq(h, Len(h) - 3, Len(h)) ELSE <<0, 0, 0, 0>>
           p == PayloadLength(h)
           known == [r EXCEPT !.ws.length = p, !.ws.mask = m, !.ws.state = "DATA"]
           large == [r EXCEPT !.ws.length = p]
           y == Length(d, i, pos, length, keep)
<1>1. /\ Reads(r, g, i, L) /\ r.ws \in WsRec /\ r.ws = [w EXCEPT !.header = h] /\ h \in Octets
      /\ k \in Nat /\ k <= length /\ Len(h) <= w.szhead /\ k = Len(h) - Len(w.header)
      /\ Len(w.header) < w.szhead /\ length > 0 => k > 0
      /\ \A j \in 1..Len(w.header) : h[j] = w.header[j]
      /\ w.header \in Octets
      /\ Len(w.header) = w.szhead => h = w.header
      /\ r.ws.state = w.state /\ r.ws.szhead = w.szhead /\ r.ws.length = w.length
  BY DEF HeaderRead
<1>2. y = IF ~Complete(r) THEN Reading(r, pos, 0)
          ELSE IF p > MaxLength THEN Reading(ws_error(large, WS_CODE_MESSAGE_TOO_LARGE, "EMSGSIZE"), pos, 0)
          ELSE Data(known, i, pos + k, length - k, keep)
  <2> DEFINE l == Len(h) - Len(w.header)
  <2>1. y = IF ~Complete(r) THEN Reading(r, pos, 0)
            ELSE IF p > MaxLength THEN Reading(ws_error(large, WS_CODE_MESSAGE_TOO_LARGE, "EMSGSIZE"), pos, 0)
            ELSE Data(known, i, pos + l, length - l, keep)
    BY DEF Length
  <2>2. l = k
    BY <1>1
  <2> HIDE DEF l, y, r, known, large
  <2> QED
    BY <2>1, <2>2
<1> HIDE DEF r, y
<1>3. d \in Calls /\ r \in Calls /\ w.header \in Octets /\ w.szhead \in Nat /\ Len(w.header) \in Nat /\ Len(h) \in Nat
  <2>1. d \in Calls /\ r \in Calls
    BY <1>1 DEF Reads, Buffers
  <2>2. w \in WsRec
    BY <2>1, CallIs
  <2>3. \A s \in Octets : Len(s) \in Nat
    BY DEF Octets
  <2> HIDE DEF h
  <2> QED
    BY <1>1, <2>1, <2>2, <2>3 DEF WsRec
<1>4. 2 <= Len(h) /\ HeaderSize(h) = w.szhead
  <2>1. 2 <= Len(h) /\ h[2] = w.header[2]
    BY <1>1, <1>3
  <2>2. HeaderSize(h) = HeaderSize(w.header)
    BY <2>1 DEF HeaderSize, GET_MASK, GET_PAYLOAD_LEN
  <2> QED
    BY <2>1, <2>2
<1>5. pos + 0 <= L + 1 /\ 0 \in Nat
  OBVIOUS
<1>6. CASE ~Complete(r)
  <2>1. Len(h) < w.szhead
    <3> DEFINE n == Len(h)
               o == w.szhead
    <3>1. n <= o /\ n \in Nat /\ o \in Nat
      BY <1>1, <1>3
    <3>2. n # o
      BY <1>1, <1>6 DEF Complete
    <3> HIDE DEF n, o
    <3>3. n < o
      BY <3>1, <3>2
    <3> QED
      BY <3>3 DEF n, o
  <2>2. Parsing(r.ws)
    <3>1. r.ws.state = "LENGTH" /\ r.ws.szhead = HeaderSize(h) /\ 2 <= Len(h) /\ Len(h) <= r.ws.szhead /\ Len(h) < r.ws.szhead
      BY <1>1, <1>4, <2>1
    <3> QED
      BY <3>1 DEF Parsing
  <2>3. Going(Reading(r, pos, 0), g, i, L) /\ Reading(r, pos, 0).length = 0
    <3>1. Fine(r, g, i, L)
      BY <1>1, <2>2 DEF Fine
    <3> QED
      BY <1>5, <3>1, AtIs
  <2> QED
    BY <1>2, <1>6, <2>3 DEF y
<1>7. CASE Complete(r) /\ p > MaxLength
  <2>1. Len(h) = HeaderSize(h) /\ p \in Nat
    <3>1. Len(h) = HeaderSize(h)
      BY <1>1, <1>4, <1>7 DEF Complete
    <3> QED
      BY <1>1, <1>4, <3>1, LengthIs
  <2> DEFINE v == [r.ws EXCEPT !.length = p]
  <2> HIDE DEF p
  <2>2. large = [r EXCEPT !.ws = v]
    BY <1>1, <1>3 DEF Calls, WsRec
  <2>3. v \in WsRec /\ v.bufs = r.ws.bufs /\ v.uses = r.ws.uses /\ v.state = "LENGTH" /\ v.header = h /\ v.szhead = w.szhead
    BY <1>1, <2>1 DEF WsRec
  <2> HIDE DEF v, large
  <2>4. Reads(large, g, i, L) /\ large.ws = v
    BY <1>1, <2>2, <2>3, Reread
  <2>5. Parsing(large.ws)
    BY <1>1, <1>4, <1>7, <2>1, <2>3, <2>4 DEF Parsing, p
  <2>6. Fine(ws_error(large, WS_CODE_MESSAGE_TOO_LARGE, "EMSGSIZE"), g, i, L)
    <3>1. WS_CODE_MESSAGE_TOO_LARGE \in Nat /\ "EMSGSIZE" \in Rc
      BY DEF WS_CODE_MESSAGE_TOO_LARGE, Rc
    <3>2. Fine(large, g, i, L)
      BY <2>4, <2>5 DEF Fine
    <3> QED
      BY <3>1, <3>2, ErrorFine
  <2> DEFINE z == Reading(ws_error(large, WS_CODE_MESSAGE_TOO_LARGE, "EMSGSIZE"), pos, 0)
  <2>7. Going(z, g, i, L) /\ z.length = 0
    BY <1>5, <2>6, AtIs
  <2>8. y = z
    BY <1>2, <1>7
  <2> HIDE DEF z
  <2> QED
    BY <2>7, <2>8 DEF y
<1>8. CASE Complete(r) /\ ~(p > MaxLength)
  <2>1. Len(h) = HeaderSize(h) /\ p \in Nat
    <3>1. Len(h) = HeaderSize(h)
      BY <1>1, <1>4, <1>8 DEF Complete
    <3> QED
      BY <1>1, <1>4, <3>1, LengthIs
  <2>2. m \in [1..4 -> Nat]
    <3>1. CASE GET_MASK(h)
      <4> DEFINE a == Len(h) - 3
      <4>1. a \in Nat /\ 1 <= a /\ a <= Len(h) + 1 /\ Len(h) + 1 - a = 4 /\ Len(h) <= Len(h)
        <5>1. h \in Octets /\ 2 <= Len(h) /\ GET_MASK(h) /\ Len(h) = HeaderSize(h)
          BY <1>1, <1>4, <2>1, <3>1
        <5> HIDE DEF h
        <5>2. 6 <= Len(h)
          BY <5>1, SizeIs
        <5>3. Len(h) \in Nat
          BY <1>3
        <5> QED
          BY <5>2, <5>3
      <4>0. h \in Octets /\ Len(h) \in Nat
        BY <1>1, <1>3
      <4> HIDE DEF a, h
      <4>2. SubSeq(h, a, Len(h)) \in Octets /\ Len(SubSeq(h, a, Len(h))) = Len(h) + 1 - a
        BY <4>0, <4>1, CutIs
      <4>3. SubSeq(h, a, Len(h)) \in [1..4 -> Nat]
        <5> DEFINE s == SubSeq(h, a, Len(h))
        <5>1. s \in Seq(Nat) /\ Len(s) = 4
          BY <4>1, <4>2 DEF Octets
        <5> HIDE DEF s
        <5>2. s = [j \in 1..Len(s) |-> s[j]]
          BY <5>1, SeqIsTuple
        <5>4. \A j \in 1..4 : s[j] \in Nat
          <6>1. \A j \in 1..Len(s) : s[j] \in Nat
            BY <5>1, ElementsAre
          <6> QED
            BY <5>1, <6>1
        <5>3. s \in [1..4 -> Nat]
          <6> DEFINE q == [j \in 1..4 |-> s[j]]
          <6>1. q \in [1..4 -> Nat]
            BY <5>4
          <6>2. s = q
            BY <5>1, <5>2
          <6> QED
            BY <6>1, <6>2, Zenon
        <5> QED
          BY <5>3 DEF s
      <4> QED
        BY <3>1, <4>3 DEF a
    <3>2. CASE ~GET_MASK(h)
      BY <3>2
    <3> QED
      BY <3>1, <3>2
  <2> DEFINE v == [r.ws EXCEPT !.length = p, !.mask = m, !.state = "DATA"]
  <2> HIDE DEF p, m
  <2>3. known = [r EXCEPT !.ws = v]
    BY <1>1, <1>3 DEF Calls, WsRec
  <2>4. v \in WsRec /\ v.bufs = r.ws.bufs /\ v.uses = r.ws.uses /\ v.state = "DATA" /\ v.header = h
    BY <1>1, <2>1, <2>2 DEF WsRec
  <2> HIDE DEF v, known
  <2>5. Reads(known, g, i, L) /\ known.ws = v
    BY <1>1, <2>3, <2>4, Reread
  <2> DEFINE z == Data(known, i, pos + k, length - k, keep)
  <2>6. pos + k \in Nat /\ length - k \in Nat /\ 1 <= pos + k /\ (pos + k) + (length - k) <= L + 1 /\ length - k <= length
    <3>1. k \in Nat /\ k <= length
      BY <1>1
    <3> QED
      BY <3>1
  <2> DEFINE np == pos + k
             nl == length - k
  <2>7. Going(z, g, i, L) /\ z.length <= length - k
    <3>1. np \in Nat /\ nl \in Nat /\ 1 <= np /\ np + nl <= L + 1
      BY <2>6
    <3>2. known.ws.state = "DATA" /\ 2 <= Len(known.ws.header)
      BY <1>4, <2>4, <2>5
    <3>3. z = Data(known, i, np, nl, keep)
      OBVIOUS
    <3> HIDE DEF np, nl, z
    <3>4. Going(z, g, i, L) /\ z.length <= nl
      BY <2>5, <3>1, <3>2, <3>3, DataKeeps
    <3> QED
      BY <3>4 DEF nl
  <2>8. y = z
    BY <1>2, <1>8
  <2>9. Len(w.header) = w.szhead => ~(PayloadLength(w.header) > MaxLength)
    BY <1>1, <1>3, <1>8 DEF p
  <2>10. z.length \in Nat
    <3> HIDE DEF z
    <3> QED
      BY <2>7 DEF Going, Places
  <2> HIDE DEF z, np, nl
  <2>11. length > 0 /\ (Len(w.header) < w.szhead \/ PayloadLength(w.header) > MaxLength) => k > 0
    <3>1. Len(w.header) < w.szhead /\ length > 0 => k > 0
      BY <1>1
    <3>2. Len(w.header) < w.szhead \/ Len(w.header) = w.szhead
      BY <1>3
    <3> QED
      BY <2>9, <3>1, <3>2
  <2>12. k \in Nat
    BY <1>1
  <2> QED
    BY <2>6, <2>7, <2>8, <2>10, <2>11, <2>12 DEF y
<1> QED
  BY <1>6, <1>7, <1>8
(* The two first bytes are read, which say how long the header is.         *)
LEMMA StartKeeps ==
  ASSUME NEW d, NEW g, NEW i \in BufSlots, NEW L \in Nat, Reads(d, g, i, L), d.ws.state = "START", d.ws.szhead = 2,
         Len(d.ws.header) < 2 \/ (Len(d.ws.header) = 2 /\ Refused(d.ws.header)),
         NEW pos \in Nat, NEW length \in Nat, 0 < length, 1 <= pos, pos + length <= L + 1, NEW keep \in BOOLEAN
  PROVE  LET y == Start(d, i, pos, length, keep)
         IN  Going(y, g, i, L) /\ y.length < length
<1>0. Len(d.ws.header) <= d.ws.szhead
  <2> DEFINE n == Len(d.ws.header)
             m == d.ws.szhead
  <2>1. d \in Calls
    BY DEF Reads, Buffers
  <2>2. n \in Nat
    BY <2>1, CallIs DEF WsRec, Octets
  <2>3. n < 2 \/ n = 2
    BY Zenon
  <2>4. m = 2
    OBVIOUS
  <2> HIDE DEF n, m
  <2>5. n <= m
    BY <2>2, <2>3, <2>4
  <2> QED
    BY <2>5 DEF n, m
<1> PICK k : HeaderRead(Header(d, i, pos, length), d, g, i, L, length, k)
  BY <1>0, HeaderIs
<1> DEFINE w == d.ws
           r == Header(d, i, pos, length)
           h == r.ws.header
           more == [r EXCEPT !.ws.szhead = HeaderSize(h), !.ws.state = "LENGTH"]
           y == Start(d, i, pos, length, keep)
<1>1. /\ Reads(r, g, i, L) /\ r.ws \in WsRec /\ r.ws = [w EXCEPT !.header = h] /\ h \in Octets
      /\ k \in Nat /\ k <= length /\ Len(h) <= w.szhead /\ k = Len(h) - Len(w.header)
      /\ Len(w.header) < w.szhead /\ length > 0 => k > 0
      /\ w.header \in Octets
      /\ Len(w.header) = w.szhead => h = w.header
      /\ r.ws.state = w.state /\ r.ws.szhead = w.szhead /\ r.ws.length = w.length
  BY DEF HeaderRead
<1>2. y = IF ~Complete(r) THEN Reading(r, pos, 0)
          ELSE IF Refused(h) THEN Reading(ws_error(r, WS_CODE_PROTOCOL_ERROR, "EPROTO"), pos, 0)
          ELSE Length(more, i, pos + k, length - k, keep)
  <2> DEFINE l == Len(h) - Len(w.header)
  <2>1. y = IF ~Complete(r) THEN Reading(r, pos, 0)
            ELSE IF Refused(h) THEN Reading(ws_error(r, WS_CODE_PROTOCOL_ERROR, "EPROTO"), pos, 0)
            ELSE Length(more, i, pos + l, length - l, keep)
    BY DEF Start, Refused
  <2>2. l = k
    BY <1>1
  <2> HIDE DEF l, y, r, more
  <2> QED
    BY <2>1, <2>2
<1> HIDE DEF r, y
<1>3. r \in Calls /\ Len(h) \in Nat /\ Len(w.header) \in Nat
  <2>1. r \in Calls
    BY <1>1 DEF Reads, Buffers
  <2>2. \A s \in Octets : Len(s) \in Nat
    BY DEF Octets
  <2> HIDE DEF h
  <2> QED
    BY <1>1, <2>1, <2>2
<1>4. pos + 0 <= L + 1 /\ 0 \in Nat
  OBVIOUS
<1>5. CASE ~Complete(r)
  <2>1. Len(h) < 2
    <3> DEFINE n == Len(h)
    <3>1. n <= 2 /\ n \in Nat
      BY <1>1, <1>3
    <3>2. n # 2
      BY <1>1, <1>5 DEF Complete
    <3> HIDE DEF n
    <3>3. n < 2
      BY <3>1, <3>2
    <3> QED
      BY <3>3 DEF n
  <2>2. Parsing(r.ws)
    BY <1>1, <2>1 DEF Parsing
  <2>3. Going(Reading(r, pos, 0), g, i, L) /\ Reading(r, pos, 0).length = 0
    <3>1. Fine(r, g, i, L)
      BY <1>1, <2>2 DEF Fine
    <3> QED
      BY <1>4, <3>1, AtIs
  <2> QED
    BY <1>2, <1>5, <2>3 DEF y
<1>6. CASE Complete(r) /\ Refused(h)
  <2>1. Parsing(r.ws)
    BY <1>1, <1>6 DEF Parsing, Complete
  <2>2. Fine(ws_error(r, WS_CODE_PROTOCOL_ERROR, "EPROTO"), g, i, L)
    <3>1. WS_CODE_PROTOCOL_ERROR \in Nat /\ "EPROTO" \in Rc
      BY DEF WS_CODE_PROTOCOL_ERROR, Rc
    <3>2. Fine(r, g, i, L)
      BY <1>1, <2>1 DEF Fine
    <3> QED
      BY <3>1, <3>2, ErrorFine
  <2> DEFINE z == Reading(ws_error(r, WS_CODE_PROTOCOL_ERROR, "EPROTO"), pos, 0)
  <2>3. Going(z, g, i, L) /\ z.length = 0
    BY <1>4, <2>2, AtIs
  <2>4. y = z
    BY <1>2, <1>6
  <2> HIDE DEF z
  <2> QED
    BY <2>3, <2>4 DEF y
<1>7. CASE Complete(r) /\ ~Refused(h)
  <2>1. Len(h) = 2 /\ Len(w.header) < 2 /\ k > 0
    BY <1>1, <1>3, <1>7 DEF Complete
  <2>2. HeaderSize(h) \in Nat /\ 2 <= HeaderSize(h)
    BY <1>1, <2>1, SizeIs
  <2> DEFINE v == [r.ws EXCEPT !.szhead = HeaderSize(h), !.state = "LENGTH"]
  <2>3. more = [r EXCEPT !.ws = v]
    BY <1>1, <1>3 DEF Calls, WsRec
  <2>4. v \in WsRec /\ v.bufs = r.ws.bufs /\ v.uses = r.ws.uses /\ v.state = "LENGTH" /\ v.header = h
        /\ v.szhead = HeaderSize(h)
    BY <1>1, <2>2 DEF WsRec
  <2> HIDE DEF v, more
  <2>5. Reads(more, g, i, L) /\ more.ws = v
    BY <1>1, <2>3, <2>4, Reread
  <2> DEFINE np == pos + k
             nl == length - k
             z == Length(more, i, np, nl, keep)
  <2>6. Going(z, g, i, L) /\ z.length <= nl
    <3>1. np \in Nat /\ nl \in Nat /\ 1 <= np /\ np + nl <= L + 1
      <4>1. k \in Nat /\ k <= length
        BY <1>1
      <4> QED
        BY <4>1
    <3>2. more.ws.state = "LENGTH" /\ 2 <= Len(more.ws.header) /\ Len(more.ws.header) <= more.ws.szhead
          /\ more.ws.szhead = HeaderSize(more.ws.header)
      <4>1. more.ws.header = h /\ more.ws.szhead = HeaderSize(h) /\ more.ws.state = "LENGTH"
        BY <2>4, <2>5
      <4>2. 2 <= Len(h) /\ Len(h) <= HeaderSize(h)
        BY <2>1, <2>2
      <4> HIDE DEF h
      <4> QED
        BY <4>1, <4>2
    <3>3. z = Length(more, i, np, nl, keep)
      OBVIOUS
    <3> HIDE DEF np, nl, z
    <3> QED
      BY <2>5, <3>1, <3>2, <3>3, LengthKeeps
  <2>7. y = z
    BY <1>2, <1>7
  <2>8. z.length \in Nat
    <3> HIDE DEF z
    <3> QED
      BY <2>6 DEF Going, Places
  <2> HIDE DEF z
  <2> QED
    BY <1>1, <2>1, <2>6, <2>7, <2>8 DEF y
<1> QED
  BY <1>5, <1>6, <1>7

(* A turn of the loop reads something, or is the last.                     *)
LEMMA TurnKeeps ==
  ASSUME NEW x, NEW g, NEW i \in BufSlots, NEW L \in Nat, Going(x, g, i, L), NEW keep \in BOOLEAN
  PROVE  /\ Going(Turn(x, i, keep), g, i, L)
         /\ x.length > 0 => Turn(x, i, keep).length < x.length
<1> DEFINE d == x.d
           pos == x.pos
           length == x.length
           y == Turn(x, i, keep)
<1>1. /\ d \in Calls /\ pos \in Nat /\ length \in Nat /\ 1 <= pos /\ pos + length <= L + 1
      /\ Reads(d, g, i, L) /\ Parsing(d.ws)
  BY DEF Going, Places, Fine
<1>2. d.ws \in WsRec /\ d.ws.state \in {"INIT", "START", "LENGTH", "DATA"}
  BY <1>1, CallIs DEF WsRec
<1>3. CASE length = 0
  BY <1>3 DEF Turn
<1> DEFINE first == [d EXCEPT !.ws.header = << >>, !.ws.szhead = 2, !.ws.state = "START"]
           started == IF d.ws.state = "INIT" THEN first ELSE d
<1>4. length # 0 => y = CASE d.ws.state \in {"INIT", "START"} -> Start(started, i, pos, length, keep)
                          [] d.ws.state = "LENGTH" -> Length(d, i, pos, length, keep)
                          [] d.ws.state = "DATA" -> Data(d, i, pos, length, keep)
  BY DEF Turn
<1>5. (d.ws.state = "INIT" => started = first) /\ (d.ws.state = "START" => started = d)
  OBVIOUS
<1> HIDE DEF started
<1> HIDE DEF y, d, pos, length
<1>6. CASE length # 0 /\ d.ws.state = "INIT"
  <2> DEFINE v == [d.ws EXCEPT !.header = << >>, !.szhead = 2, !.state = "START"]
  <2>1. first = [d EXCEPT !.ws = v]
    BY <1>1, <1>2 DEF Calls, WsRec
  <2>2. << >> \in Octets /\ Len(<< >>) = 0
    BY DEF Octets
  <2>3. v \in WsRec /\ v.bufs = d.ws.bufs /\ v.uses = d.ws.uses /\ v.state = "START" /\ v.header = << >> /\ v.szhead = 2
    BY <1>2, <2>2 DEF WsRec
  <2> HIDE DEF v, first
  <2>4. Reads(first, g, i, L) /\ first.ws = v
    BY <1>1, <2>1, <2>3, Reread
  <2>5. Going(Start(first, i, pos, length, keep), g, i, L) /\ Start(first, i, pos, length, keep).length < length
    <3>1. 0 < length
      BY <1>1, <1>6
    <3>2. first.ws.state = "START" /\ first.ws.szhead = 2 /\ Len(first.ws.header) < 2
      BY <2>2, <2>3, <2>4
    <3> QED
      BY <1>1, <2>4, <3>1, <3>2, StartKeeps
  <2> QED
    BY <1>4, <1>6, <1>5, <2>5 DEF y, length
<1>7. CASE length # 0 /\ d.ws.state = "START"
  <2>1. 0 < length /\ d.ws.szhead = 2 /\ (Len(d.ws.header) < 2 \/ (Len(d.ws.header) = 2 /\ Refused(d.ws.header)))
    BY <1>1, <1>7 DEF Parsing
  <2>2. Going(Start(d, i, pos, length, keep), g, i, L) /\ Start(d, i, pos, length, keep).length < length
    BY <1>1, <1>7, <2>1, StartKeeps
  <2> QED
    BY <1>4, <1>7, <1>5, <2>2 DEF y, length
<1>8. CASE length # 0 /\ d.ws.state = "LENGTH"
  <2>1. 0 < length /\ 2 <= Len(d.ws.header) /\ Len(d.ws.header) <= d.ws.szhead /\ d.ws.szhead = HeaderSize(d.ws.header)
        /\ (Len(d.ws.header) < d.ws.szhead \/ PayloadLength(d.ws.header) > MaxLength)
    BY <1>1, <1>8 DEF Parsing
  <2>2. Going(Length(d, i, pos, length, keep), g, i, L) /\ Length(d, i, pos, length, keep).length < length
    BY <1>1, <1>8, <2>1, LengthKeeps
  <2> QED
    BY <1>4, <1>8, <2>2 DEF y, length
<1>9. CASE length # 0 /\ d.ws.state = "DATA"
  <2>1. 0 < length /\ 2 <= Len(d.ws.header) /\ d.ws.length > 0
    BY <1>1, <1>9 DEF Parsing
  <2>2. Going(Data(d, i, pos, length, keep), g, i, L) /\ Data(d, i, pos, length, keep).length < length
    BY <1>1, <1>9, <2>1, DataKeeps
  <2> QED
    BY <1>4, <1>9, <2>2 DEF y, length
<1>10. length \in Nat /\ d.ws.state \in {"INIT", "START", "LENGTH", "DATA"}
  BY <1>1, <1>2
<1> QED
  BY <1>3, <1>6, <1>7, <1>8, <1>9, <1>10 DEF length

-----------------------------------------------------------------------------
(* The loop of a buffer.  Each turn leaves less, at most as much as there  *)
(* are turns left.                                                         *)
LEMMA DispatchKeeps ==
  ASSUME NEW d, NEW g, NEW i \in BufSlots, NEW L \in Nat, Fine(d, g, i, L), NEW keep \in BOOLEAN
  PROVE  Fine(_dispatch_(d, i, keep), g, i, L)
<1> DEFINE V == {x \in Places : Going(x, g, i, L)}
           base == Reading(d, 1, L)
           Step == [p \in (1..L) \X V |-> Turn(p[2], i, keep)]
           Is(f) == f = [k \in 0..L |-> IF k = 0 THEN base ELSE Turn(f[k - 1], i, keep)]
           after == CHOOSE f : Is(f)
           turns == CHOOSE k \in 0..L : after[k].length = 0
<1>1. base \in V /\ base.length = L
  <2>1. 1 \in Nat /\ 1 <= 1 /\ 1 + L <= L + 1
    OBVIOUS
  <2>2. Going(base, g, i, L) /\ base.length = L
    BY <2>1, AtIs
  <2> QED
    BY <2>2 DEF Going
<1> HIDE DEF base
<1>2. \A x \in V : Turn(x, i, keep) \in V /\ x.length \in Nat /\ (x.length > 0 => Turn(x, i, keep).length < x.length)
  <2>1. ASSUME NEW x \in V
        PROVE  Turn(x, i, keep) \in V /\ x.length \in Nat /\ (x.length > 0 => Turn(x, i, keep).length < x.length)
    <3>1. Going(x, g, i, L)
      OBVIOUS
    <3>2. Going(Turn(x, i, keep), g, i, L) /\ (x.length > 0 => Turn(x, i, keep).length < x.length)
      BY <3>1, TurnKeeps
    <3>3. Turn(x, i, keep) \in V /\ x.length \in Nat
      BY <3>1, <3>2 DEF Going, Places
    <3> QED
      BY <3>2, <3>3
  <2> QED
    BY <2>1
<1>3. \A x \in V : x.length = 0 => Turn(x, i, keep) = x
  BY DEF Turn
<1> HIDE DEF V
<1>4. Step \in [(1..L) \X V -> V] /\ \A k \in 1..L, v \in V : Step[<<k, v>>] = Turn(v, i, keep)
  <2>1. \A p \in (1..L) \X V : p[2] \in V
    OBVIOUS
  <2>2. \A p \in (1..L) \X V : Turn(p[2], i, keep) \in V
    BY <1>2, <2>1
  <2> QED
    BY <2>2
<1>5. PICK f \in [0..L -> V] : Recursive(f, L, base, Step)
  <2> HIDE DEF Step
  <2> QED
    BY <1>1, <1>4, Recursion
<1>6. Is(f)
  <2>1. f[0] = base /\ \A k \in 1..L : f[k] = Turn(f[k - 1], i, keep)
    <3>1. f[0] = base /\ \A k \in 1..L : f[k] = Step[<<k, f[k - 1]>>]
      BY <1>5 DEF Recursive
    <3>2. \A k \in 1..L : k - 1 \in 0..L
      OBVIOUS
    <3>3. \A k \in 1..L : f[k - 1] \in V
      BY <3>2
    <3> HIDE DEF Step
    <3> QED
      BY <1>4, <3>1, <3>3
  <2>2. \A k \in 0..L : f[k] = IF k = 0 THEN base ELSE Turn(f[k - 1], i, keep)
    BY <2>1
  <2> HIDE DEF Step
  <2> QED
    BY <2>2
<1>7. Is(after)
  <2> HIDE DEF Is
  <2> QED
    BY <1>6
<1>8. \A k \in 0..L : after[k] = IF k = 0 THEN base ELSE Turn(after[k - 1], i, keep)
  <2> HIDE DEF after
  <2> QED
    BY <1>7, Zenon
<1> HIDE DEF after
<1>9. \A k \in 0..L : after[k] \in V /\ after[k].length <= L - k
  <2> DEFINE S == {k \in 0..L : after[k] \in V /\ after[k].length <= L - k}
  <2>1. 0 \in S
    BY <1>1, <1>8
  <2>2. ASSUME NEW k \in 1..L, k - 1 \in S PROVE k \in S
    <3> DEFINE x == after[k - 1]
               y == after[k]
    <3>1. k \in 0..L /\ y = Turn(x, i, keep) /\ x \in V /\ x.length <= L - (k - 1)
      BY <1>8, <2>2
    <3> HIDE DEF x, y
    <3>2. y \in V /\ x.length \in Nat /\ y.length \in Nat /\ (x.length > 0 => y.length < x.length)
      BY <1>2, <3>1
    <3>3. x.length = 0 => y.length = 0
      BY <1>3, <3>1
    <3>4. y.length <= L - k
      BY <3>1, <3>2, <3>3
    <3> QED
      BY <3>1, <3>2, <3>4 DEF y
  <2>3. 0..L \subseteq S
    <3> HIDE DEF S
    <3> QED
      BY <2>1, <2>2, UpTo
  <2> QED
    BY <2>3
<1>10. after[L].length = 0 /\ L \in 0..L
  <2>1. after[L] \in V /\ after[L].length <= L - L
    BY <1>9
  <2>2. after[L].length \in Nat
    BY <1>2, <2>1
  <2> QED
    BY <2>1, <2>2
<1>11. turns \in 0..L
  BY <1>10
<1> HIDE DEF turns
<1>12. after[turns] \in V
  BY <1>9, <1>11
<1>13. _dispatch_(d, i, keep) = after[turns].d
  <2>1. Len(d.ws.bufs[i].data) = L
    BY DEF Fine, Reads
  <2> QED
    BY <2>1 DEF _dispatch_, after, turns, base
<1> QED
  BY <1>12, <1>13 DEF V, Going

(* The last of a few slots.                                                *)
LEMMA HasLast ==
  ASSUME NEW n \in Nat, NEW S \in SUBSET (1..n), S # {}
  PROVE  Max(S) \in S
<1> DEFINE H == {k \in 0..n : (\E x \in S : x <= k) => \E x \in S : x <= k /\ \A y \in S : y <= k => x >= y}
<1>1. 0 \in H
  OBVIOUS
<1>2. ASSUME NEW k \in 1..n, k - 1 \in H PROVE k \in H
  <2>1. CASE k \in S
    BY <2>1
  <2>2. CASE k \notin S
    <3>1. \A x \in S : x <= k <=> x <= k - 1
      BY <2>2
    <3>2. (\E x \in S : x <= k - 1) => \E x \in S : x <= k - 1 /\ \A y \in S : y <= k - 1 => x >= y
      BY <1>2
    <3> QED
      BY <3>1, <3>2
  <2> QED
    BY <2>1, <2>2
<1>3. n \in H
  <2>1. 0..n \subseteq H
    <3> HIDE DEF H
    <3> QED
      BY <1>1, <1>2, UpTo
  <2> QED
    BY <2>1
<1>4. \E x \in S : \A y \in S : x >= y
  <2>1. \A x \in S : x <= n
    OBVIOUS
  <2>2. \E x \in S : x <= n /\ \A y \in S : y <= n => x >= y
    BY <1>3, <2>1
  <2> QED
    BY <2>1, <2>2
<1> QED
  BY <1>4 DEF Max

(* What the handlers keep between the calls.                               *)
Held(d, g) == Buffers(d, g, 0, 0) /\ Parsing(d.ws)

(* A buffer is dispatched, or refused.                                     *)
LEMMA BufferKeeps ==
  ASSUME NEW d, NEW g, Held(d, g), g < MaxBuffers, NEW b \in BufferRec, b.id = g + 1, NEW keep \in BOOLEAN
  PROVE  Held(DispatchBuffer(d, b, keep), g + 1)
<1> DEFINE none == {j \in DOMAIN d.ws.uses : d.ws.uses[j] = 0}
           i == _addbuf_(d)
<1>1. d \in Calls /\ d.ws.uses \in [BufSlots -> Nat] /\ d.rc \in Rc /\ Buffers(d, g, 0, 0) /\ Parsing(d.ws)
  BY CallIs DEF Held, Buffers
<1>2. i = IF none = {} THEN 0 ELSE Max(none)
  BY DEF _addbuf_
<1>3. i # 0 => i \in BufSlots /\ d.ws.uses[i] = 0
  <2>1. none \in SUBSET (1..WS_BUFS_COUNT) /\ WS_BUFS_COUNT \in Nat
    BY <1>1, WsAssumption DEF BufSlots
  <2>2. none # {} => Max(none) \in none
    <3> HIDE DEF none
    <3> QED
      BY <2>1, HasLast
  <2>3. \A j \in none : j \in BufSlots /\ d.ws.uses[j] = 0
    BY <1>1
  <2> HIDE DEF none, i
  <2> QED
    BY <1>2, <2>2, <2>3
<1> HIDE DEF i
<1>4. CASE d.rc # "ok" \/ i = 0
  <2> DEFINE rc == IF d.rc = "ok" THEN "EBUSY" ELSE d.rc
             e == [d EXCEPT !.rc = rc, !.freed = @ \cup {g + 1}, !.wrong = @ \/ g + 1 \in d.freed]
  <2>1. DispatchBuffer(d, b, keep) = e
    BY <1>4 DEF DispatchBuffer, i
  <2>2. rc \in Rc
    BY <1>1 DEF Rc
  <2>3. Buffers(e, g + 1, 0, 0) /\ e.ws = d.ws
    <3> HIDE DEF rc
    <3> QED
      BY <1>1, <2>2, RefuseCounts
  <2> HIDE DEF e
  <2> QED
    BY <1>1, <2>1, <2>3 DEF Held
<1>5. CASE d.rc = "ok" /\ i # 0
  <2> DEFINE e == Opened(d, i, b)
             x == _dispatch_(e, i, keep)
             L == Len(b.data)
  <2>1. i \in BufSlots /\ d.ws.uses[i] = 0
    BY <1>3, <1>5
  <2>2. /\ Buffers(e, g + 1, i, 1) /\ InUse(e, i) /\ e.ws.bufs[i] = b
        /\ e.ws.state = d.ws.state /\ e.ws.header = d.ws.header /\ e.ws.szhead = d.ws.szhead
        /\ e.ws.length = d.ws.length /\ e.ws.mask = d.ws.mask
    BY <1>1, <2>1, AddCounts
  <2>3. DispatchBuffer(d, b, keep) = _putbuf_(x, i)
    BY <1>5 DEF DispatchBuffer, i, Opened
  <2>4. L \in Nat
    BY DEF BufferRec, Octets
  <2> HIDE DEF e
  <2>5. Fine(e, g + 1, i, L)
    BY <1>1, <2>2 DEF Fine, Reads, Parsing
  <2> HIDE DEF L
  <2>6. Fine(x, g + 1, i, L)
    BY <2>1, <2>4, <2>5, DispatchKeeps
  <2> HIDE DEF x
  <2>7. Buffers(x, g + 1, i, 1) /\ InUse(x, i) /\ Parsing(x.ws) /\ x \in Calls
    BY <2>6 DEF Fine, Reads, Buffers
  <2>8. Buffers(_putbuf_(x, i), g + 1, i, 0)
    <3>1. 1 > 0 /\ 1 - 1 = 0
      OBVIOUS
    <3>2. Buffers(_putbuf_(x, i), g + 1, i, 1 - 1)
      BY <2>1, <2>7, <3>1, PutCounts
    <3> QED
      BY <3>1, <3>2
  <2>9. Parsing(_putbuf_(x, i).ws)
    BY <2>1, <2>7, PutSame, ParsingSame
  <2> DEFINE r == _putbuf_(x, i)
  <2> HIDE DEF r
  <2>10. Buffers(r, g + 1, 0, 0)
    <3>1. Buffers(r, g + 1, i, 0)
      BY <2>8 DEF r
    <3>2. Counted(r, g + 1, 0, 0)
      BY <3>1 DEF Buffers, Counted
    <3>3. 0 \in 0..WS_BUFS_COUNT
      BY WsAssumption
    <3> QED
      BY <3>1, <3>2, <3>3 DEF Buffers
  <2> QED
    BY <2>3, <2>9, <2>10 DEF Held, r
<1> QED
  BY <1>4, <1>5

(* The buffers of a call, one after the other.                             *)
LEMMA BuffersKeep ==
  ASSUME NEW d, NEW g, Held(d, g), NEW buffers, NEW n \in Nat, Len(buffers) = n, g + n <= MaxBuffers,
         \A k \in 1..n : buffers[k] \in BufferRec /\ buffers[k].id = g + k, NEW keep \in BOOLEAN
  PROVE  Held(Dispatch(d, buffers, keep), g + n)
<1> DEFINE Ok(x, k) == Held(x, g + k)
           To(x, k) == DispatchBuffer(x, buffers[k], keep)
           Step == [p \in (1..n) \X Calls |-> IF Ok(p[2], p[1] - 1) THEN To(p[2], p[1]) ELSE p[2]]
           Is(f) == f = [k \in 0..n |-> IF k = 0 THEN d ELSE To(f[k - 1], k)]
           after == CHOOSE f : Is(f)
<1>1. g \in Nat /\ d \in Calls /\ MaxBuffers \in Nat
  BY WsAssumption DEF Held, Buffers
<1>2. Ok(d, 0)
  BY <1>1
<1>3. ASSUME NEW k \in 1..n, NEW x, Ok(x, k - 1)
      PROVE  Ok(To(x, k), k) /\ To(x, k) \in Calls
  <2> DEFINE h == g + (k - 1)
  <2>1. h < MaxBuffers /\ h + 1 = g + k /\ buffers[k].id = h + 1 /\ buffers[k] \in BufferRec
    BY <1>1
  <2>2. Held(x, h)
    BY <1>3
  <2> HIDE DEF h
  <2>3. Held(To(x, k), h + 1)
    BY <2>1, <2>2, BufferKeeps
  <2> HIDE DEF To
  <2> QED
    BY <2>1, <2>3 DEF Held, Buffers
<1> HIDE DEF Ok, To
<1>4. Step \in [(1..n) \X Calls -> Calls]
      /\ \A k \in 1..n, x \in Calls : Ok(x, k - 1) => Step[<<k, x>>] = To(x, k)
  <2>1. \A p \in (1..n) \X Calls : p[1] \in 1..n /\ p[2] \in Calls
    OBVIOUS
  <2>2. \A p \in (1..n) \X Calls : (IF Ok(p[2], p[1] - 1) THEN To(p[2], p[1]) ELSE p[2]) \in Calls
    BY <1>3, <2>1
  <2>3. Step \in [(1..n) \X Calls -> Calls]
    BY <2>2
  <2>4. ASSUME NEW k \in 1..n, NEW x \in Calls, Ok(x, k - 1)
        PROVE  Step[<<k, x>>] = To(x, k)
    <3>1. <<k, x>> \in (1..n) \X Calls
      OBVIOUS
    <3> QED
      BY <2>4, <3>1
  <2> QED
    BY <2>3, <2>4
<1>5. PICK f \in [0..n -> Calls] : Recursive(f, n, d, Step)
  <2> HIDE DEF Step
  <2> QED
    BY <1>1, <1>4, Recursion
<1> HIDE DEF Step
<1>6. f[0] = d /\ \A k \in 1..n : f[k] = Step[<<k, f[k - 1]>>]
  BY <1>5 DEF Recursive
<1>7. \A k \in 0..n : Ok(f[k], k)
  <2> DEFINE S == {k \in 0..n : Ok(f[k], k)}
  <2>1. 0 \in S
    BY <1>2, <1>6
  <2>2. ASSUME NEW k \in 1..n, k - 1 \in S PROVE k \in S
    <3>1. k \in 0..n /\ k - 1 \in 0..n /\ Ok(f[k - 1], k - 1)
      BY <2>2
    <3>2. f[k] = To(f[k - 1], k)
      BY <1>4, <1>6, <3>1
    <3> QED
      BY <1>3, <3>1, <3>2
  <2>3. 0..n \subseteq S
    <3> HIDE DEF S
    <3> QED
      BY <2>1, <2>2, UpTo
  <2> QED
    BY <2>3
<1>8. Is(f)
  <2>1. \A k \in 1..n : k - 1 \in 0..n
    OBVIOUS
  <2>2. \A k \in 1..n : f[k] = To(f[k - 1], k)
    BY <1>4, <1>6, <1>7, <2>1
  <2>3. \A k \in 0..n : f[k] = IF k = 0 THEN d ELSE To(f[k - 1], k)
    BY <1>6, <2>2
  <2> QED
    BY <2>3
<1>9. Is(after)
  <2> HIDE DEF Is
  <2> QED
    BY <1>8
<1>10. \A k \in 0..n : after[k] = IF k = 0 THEN d ELSE To(after[k - 1], k)
  <2> HIDE DEF after
  <2> QED
    BY <1>9, Zenon
<1>11. Dispatch(d, buffers, keep) = after[n]
  BY DEF Dispatch, after, To
<1> HIDE DEF after
<1>12. Ok(after[n], n)
  <2> DEFINE S == {k \in 0..n : Ok(after[k], k)}
  <2>1. 0 \in S
    BY <1>2, <1>10
  <2>2. ASSUME NEW k \in 1..n, k - 1 \in S PROVE k \in S
    <3>1. k \in 0..n /\ Ok(after[k - 1], k - 1) /\ k # 0
      BY <2>2
    <3>2. after[k] = To(after[k - 1], k)
      BY <1>10, <3>1
    <3> QED
      BY <1>3, <3>1, <3>2
  <2>3. 0..n \subseteq S
    <3> HIDE DEF S
    <3> QED
      BY <2>1, <2>2, UpTo
  <2> QED
    BY <2>3
<1> QED
  BY <1>11, <1>12 DEF Ok

-----------------------------------------------------------------------------
WsInv == Held(Now, given)

(* Nothing is given at first.                                              *)
LEMMA WsInitial == WsInit => WsInv
<1> SUFFICES ASSUME WsInit
             PROVE  WsInv
  OBVIOUS
<1> DEFINE u == [i \in BufSlots |-> 0]
           B == [i \in BufSlots |-> [id |-> 0, data |-> << >>]]
<1>1. << >> \in Octets /\ << >> \in Seq(Piece) /\ << >> \in Seq(EventRec) /\ << >> \in Seq(Octets)
  BY DEF Octets
<1>2. B \in [BufSlots -> BufferRec] /\ u \in [BufSlots -> Nat]
  BY <1>1 DEF BufferRec
<1>3. ws = [state |-> "INIT", header |-> << >>, szhead |-> 0, length |-> 0, mask |-> <<0, 0, 0, 0>>, bufs |-> B, uses |-> u]
  BY DEF WsInit, ws_init, BufSlots
<1>4. <<0, 0, 0, 0>> \in [1..4 -> Nat]
  OBVIOUS
<1> HIDE DEF B, u
<1>5. ws \in WsRec /\ ws.state = "INIT" /\ ws.uses = u
  BY <1>1, <1>2, <1>3, <1>4 DEF WsRec
<1>6. lost \in [1..MaxBuffers -> Nat] /\ \A id \in 1..MaxBuffers : lost[id] = 0
  BY DEF WsInit
<1>7. Now \in Calls
  <2>1. "ok" \in Rc /\ held = << >> /\ freed = {} /\ wrong = FALSE /\ events = << >> /\ out = << >>
    BY DEF Rc, WsInit
  <2> QED
    BY <1>1, <1>5, <1>6, <2>1 DEF Now, Calls
<1>8. Now.ws = ws /\ Now.held = << >> /\ Now.freed = {} /\ Now.wrong = FALSE /\ Now.lost = lost /\ given = 0
  BY DEF Now, WsInit
<1>9. \A j \in BufSlots : ~InUse(Now, j)
  BY <1>5, <1>8 DEF InUse, u
<1>10. \A id \in 1..MaxBuffers : Users(Now, id) = 0
  <2>1. ASSUME NEW id \in 1..MaxBuffers
        PROVE  Users(Now, id) = 0
    <3>1. Pieces(Now.held, id) = {}
      BY <1>8 DEF Pieces
    <3>2. Cardinality({}) = 0
      BY FS_EmptySet
    <3>3. Now.lost[id] = 0
      BY <1>6, <1>8
    <3> QED
      BY <3>1, <3>2, <3>3 DEF Users
  <2> QED
    BY <2>1
<1>11. Counted(Now, 0, 0, 0)
  BY <1>8, <1>9, <1>10 DEF Counted
<1>12. \A k \in DOMAIN Now.held : Located(Now, Now.held[k])
  BY <1>8
<1>13. Buffers(Now, 0, 0, 0)
  <2>1. 0 \in 0..MaxBuffers /\ 0 \in 0..WS_BUFS_COUNT /\ 0 \in Nat
    BY WsAssumption
  <2> QED
    BY <1>7, <1>8, <1>11, <1>12, <2>1 DEF Buffers
<1> QED
  BY <1>5, <1>8, <1>13 DEF WsInv, Held, Parsing

(* What a call leaves is what the next one finds.                          *)
LEMMA BecomesHeld ==
  ASSUME NEW d, NEW g, Held(d, g), Becomes(d), given' = g
  PROVE  WsInv'
<1> DEFINE e == Now'
<1>1. e.ws = d.ws /\ e.held = d.held /\ e.freed = d.freed /\ e.wrong = d.wrong /\ e.lost = d.lost
  BY DEF Now, Becomes
<1>2. Buffers(d, g, 0, 0) /\ Parsing(d.ws) /\ d \in Calls
  BY DEF Held, Buffers
<1>3. e \in Calls
  BY <1>2 DEF Now, Becomes, Calls, Rc
<1> HIDE DEF e
<1>4. Buffers(e, g, 0, 0)
  BY <1>1, <1>2, <1>3, SentCounts
<1>5. Held(e, g)
  BY <1>1, <1>2, <1>4 DEF Held
<1> QED
  BY <1>5 DEF WsInv, e

(* The buffers that are received have the ids after those that were given. *)
LEMMA ReceivesKeeps ==
  ASSUME WsInv, NEW datas \in Seq(Octets), given + Len(datas) <= MaxBuffers, NEW keep \in BOOLEAN
  PROVE  Held(Receives(datas, keep), given + Len(datas))
<1> DEFINE n == Len(datas)
           buffers == [k \in DOMAIN datas |-> [id |-> given + k, data |-> datas[k]]]
<1>1. given \in Nat /\ Held(Now, given)
  BY WsAssumption DEF WsInv, Held, Buffers
<1>2. n \in Nat /\ DOMAIN datas = 1..n
  OBVIOUS
<1>3. Len(buffers) = n
  <2>1. buffers = [k \in 1..n |-> [id |-> given + k, data |-> datas[k]]]
    BY <1>2
  <2> HIDE DEF n, buffers
  <2> QED
    BY <1>2, <2>1
<1>4. \A k \in 1..n : buffers[k] \in BufferRec /\ buffers[k].id = given + k
  BY <1>1, <1>2 DEF BufferRec
<1>5. Receives(datas, keep) = Dispatch(Now, buffers, keep)
  BY DEF Receives
<1> HIDE DEF n, buffers
<1>6. given + n <= MaxBuffers
  BY DEF n
<1>7. Held(Dispatch(Now, buffers, keep), given + n)
  BY <1>1, <1>2, <1>3, <1>4, <1>6, BuffersKeep
<1> QED
  BY <1>5, <1>7 DEF n

LEMMA BytesAreOctets ==
  ASSUME NEW s \in Seq(0..255)
  PROVE  s \in Octets /\ DOMAIN s = 1..Len(s) /\ Len(s) \in Nat /\ \A k \in 1..Len(s) : s[k] \in Nat
<1>1. s = [k \in 1..Len(s) |-> s[k]] /\ Len(s) \in Nat /\ DOMAIN s = 1..Len(s)
  BY SeqIsTuple
<1>2. \A k \in 1..Len(s) : s[k] \in 0..255
  BY ElementsAre
<1>3. \A k \in 1..Len(s) : s[k] \in Nat
  <2>1. \A b \in 0..255 : b \in Nat
    OBVIOUS
  <2> QED
    BY <1>2, <2>1, Zenon
<1> DEFINE t == [k \in 1..Len(s) |-> s[k]]
<1>4. t \in [1..Len(s) -> Nat]
  BY <1>3
<1> HIDE DEF t
<1>5. t \in Seq(Nat)
  BY <1>1, <1>4, TupleIsSeq
<1> QED
  BY <1>1, <1>3, <1>5 DEF Octets, t

LEMMA WireIs ==
  ASSUME NEW f \in Frames
  PROVE  /\ Wire(f) \in Octets /\ Len(Wire(f)) \in Nat /\ Len(f.payload) \in Nat
<1> DEFINE n == Len(f.payload)
           c == n + (IF f.key = << >> THEN 0 ELSE 128)
           Value(k) == IF f.key = << >> THEN f.payload[k] ELSE Xor(f.payload[k], f.key[((k - 1) % 4) + 1])
           t == [k \in DOMAIN f.payload |-> Value(k)]
           s == <<f.first, c>>
<1>1. f.first \in 0..255 /\ f.payload \in Seq(0..255) /\ f.key \in Seq(0..255)
  BY WsAssumption
<1>2. n \in Nat /\ DOMAIN f.payload = 1..n /\ \A k \in 1..n : f.payload[k] \in Nat
  BY <1>1, BytesAreOctets
<1>3. \A k \in 1..n : Value(k) \in Nat
  <2> HIDE DEF n
  <2> QED
    BY <1>2, XorIsNat
<1>4. t \in Octets
  <2>1. t = [k \in 1..n |-> Value(k)]
    BY <1>2
  <2> HIDE DEF n, Value, t
  <2>2. [k \in 1..n |-> Value(k)] \in [1..n -> Nat]
    BY <1>3
  <2> QED
    BY <1>2, <2>1, <2>2, TupleIsSeq DEF Octets
<1>5. c \in Nat
  <2> HIDE DEF n
  <2> QED
    BY <1>2
<1>6. s \in Octets
  <2> HIDE DEF c
  <2> QED
    <3>1. f.first \in Nat
      <4>1. \A b \in 0..255 : b \in Nat
        OBVIOUS
      <4> QED
        BY <1>1, <4>1, Zenon
    <3> QED
      BY <1>5, <3>1 DEF Octets
<1>7. f.key \in Octets
  BY <1>1, BytesAreOctets
<1>8. Wire(f) = s \o f.key \o t
  BY DEF Wire
<1> HIDE DEF s, t
<1>9. s \o f.key \in Octets
  BY <1>6, <1>7, JoinIs
<1>10. s \o f.key \o t \in Octets /\ Len(s \o f.key \o t) \in Nat
  BY <1>4, <1>9, JoinIs DEF Octets
<1> QED
  BY <1>2, <1>8, <1>10

(* A frame in one buffer or two.                                           *)
LEMMA FrameStep ==
  ASSUME WsInv, NEW keep \in BOOLEAN, NEW f \in Frames, NEW cut \in 0..5, DispatchFrame(f, cut, keep)
  PROVE  WsInv'
<1> DEFINE wire == Wire(f)
           datas == IF cut = 0 THEN <<wire>> ELSE <<SubSeq(wire, 1, cut), SubSeq(wire, cut + 1, Len(wire))>>
<1>1. wire \in Octets /\ Len(wire) \in Nat /\ Len(f.payload) \in Nat
  BY WireIs
<1>2. /\ cut < Len(wire) - Len(f.payload) /\ given + Len(datas) <= MaxBuffers
      /\ Becomes(Receives(datas, keep)) /\ given' = given + Len(datas)
  BY DEF DispatchFrame
<1> HIDE DEF wire
<1>3. SubSeq(wire, 1, cut) \in Octets /\ SubSeq(wire, cut + 1, Len(wire)) \in Octets
  <2>1. cut <= Len(wire)
    BY <1>1, <1>2
  <2>2. SubSeq(wire, 1, cut) \in Octets
    <3>1. cut \in Nat /\ 1 \in Nat /\ 1 <= 1 /\ 1 <= cut + 1
      OBVIOUS
    <3> QED
      BY <1>1, <2>1, <3>1, CutIs
  <2>3. SubSeq(wire, cut + 1, Len(wire)) \in Octets
    <3> DEFINE a == cut + 1
    <3>1. a \in Nat /\ 1 <= a /\ a <= Len(wire) + 1 /\ Len(wire) <= Len(wire)
      BY <1>1, <2>1
    <3> HIDE DEF a
    <3>2. SubSeq(wire, a, Len(wire)) \in Octets
      BY <1>1, <3>1, CutIs
    <3> QED
      BY <3>2 DEF a
  <2> QED
    BY <2>2, <2>3
<1>4. datas \in Seq(Octets)
  BY <1>1, <1>3
<1> HIDE DEF datas
<1>5. Held(Receives(datas, keep), given + Len(datas))
  BY <1>2, <1>4, ReceivesKeeps
<1> QED
  BY <1>2, <1>5, BecomesHeld

LEMMA RawStep ==
  ASSUME WsInv, NEW keep \in BOOLEAN, NEW data \in RawBuffers, DispatchRaw(data, keep)
  PROVE  WsInv'
<1> DEFINE datas == <<data>>
<1>1. data \in Octets
  BY WsAssumption, BytesAreOctets
<1>2. datas \in Seq(Octets) /\ Len(datas) = 1
  BY <1>1
<1>3. given < MaxBuffers /\ Becomes(Receives(datas, keep)) /\ given' = given + 1
  BY DEF DispatchRaw
<1> HIDE DEF datas
<1>4. given \in Nat /\ MaxBuffers \in Nat
  BY WsAssumption DEF WsInv, Held, Buffers
<1>5. given + Len(datas) <= MaxBuffers /\ given + Len(datas) = given + 1
  BY <1>2, <1>3, <1>4
<1>6. Held(Receives(datas, keep), given + Len(datas))
  BY <1>2, <1>5, ReceivesKeeps
<1> QED
  BY <1>3, <1>5, <1>6, BecomesHeld

LEMMA ReleaseStep ==
  ASSUME WsInv, NEW k, ws_release(k)
  PROVE  WsInv'
<1> DEFINE d == [_putbufat_(Now, held[k]) EXCEPT !.held = RemoveAt(@, k)]
<1>1. k \in DOMAIN held /\ Becomes(d) /\ given' = given
  BY DEF ws_release
<1>2. Now.held = held /\ Buffers(Now, given, 0, 0) /\ Parsing(Now.ws) /\ Now \in Calls
  BY DEF Now, WsInv, Held, Buffers
<1>3. Buffers(d, given, 0, 0)
  BY <1>1, <1>2, ReleaseCounts
<1>4. Parsing(d.ws)
  <2>1. PICK j \in BufSlots : InUse(Now, j) /\ InBuffer(Now.ws.bufs[j], held[k])
    BY <1>1, <1>2 DEF Buffers, Located
  <2>2. _putbufat_(Now, held[k]) = _putbuf_(Now, j)
    BY <1>2, <2>1, PutAtIs
  <2> DEFINE e == _putbuf_(Now, j)
  <2>3. Parsing(e.ws)
    BY <1>2, PutSame, ParsingSame
  <2>4. "ws" \in DOMAIN e
    BY DEF _putbuf_, Now
  <2> HIDE DEF e
  <2>5. d.ws = e.ws
    BY <2>2, <2>4 DEF e
  <2> QED
    BY <2>3, <2>5
<1> HIDE DEF d
<1> QED
  BY <1>1, <1>3, <1>4, BecomesHeld DEF Held

LEMMA WsStep == WsInv /\ [WsNext]_wsVars => WsInv'
<1> SUFFICES ASSUME WsInv, [WsNext]_wsVars
             PROVE  WsInv'
  OBVIOUS
<1>1. CASE WsNext
  BY <1>1, FrameStep, RawStep, ReleaseStep DEF WsNext
<1>2. CASE UNCHANGED wsVars
  <2>1. Now' = Now /\ given' = given
    BY <1>2 DEF wsVars, Now
  <2> QED
    BY <2>1 DEF WsInv
<1> QED
  BY <1>1, <1>2

(* The counts are those of the pieces in use.                              *)
LEMMA CountedIsKept == WsInv => BuffersAreKept
<1> SUFFICES ASSUME WsInv
             PROVE  HeldIsThere /\ AllIsFreed
  BY DEF BuffersAreKept
<1>1. /\ Buffers(Now, given, 0, 0) /\ Now \in Calls /\ given \in 0..MaxBuffers /\ ~Now.wrong /\ Counted(Now, given, 0, 0)
      /\ \A k \in DOMAIN Now.held : Located(Now, Now.held[k])
  BY DEF WsInv, Held, Buffers
<1>2. Now.ws = ws /\ Now.held = held /\ Now.freed = freed /\ Now.wrong = wrong /\ Now.lost = lost
  BY DEF Now
<1>3. DOMAIN ws.uses = BufSlots /\ held \in Seq(Piece) /\ lost \in [1..MaxBuffers -> Nat]
  BY <1>1, <1>2, CallIs
<1>4. HeldIsThere
  <2>1. ASSUME NEW k \in DOMAIN held
        PROVE  /\ held[k].id \notin freed
               /\ \E i \in DOMAIN ws.uses : /\ ws.uses[i] > 0 /\ InBuffer(ws.bufs[i], held[k])
                                           /\ held[k].from + held[k].len - 1 <= Len(ws.bufs[i].data)
    <3>1. PICK j \in BufSlots : InUse(Now, j) /\ InBuffer(ws.bufs[j], held[k])
                             /\ held[k].from + held[k].len - 1 <= Len(ws.bufs[j].data)
      BY <1>1, <1>2 DEF Located
    <3>2. ws.bufs[j].id \notin freed
      BY <1>1, <1>2, <3>1, SlotIs
    <3>3. ws.bufs[j].id = held[k].id
      BY <3>1 DEF InBuffer
    <3>4. ws.uses[j] > 0
      BY <1>2, <3>1 DEF InUse
    <3> QED
      BY <1>3, <3>1, <3>2, <3>3, <3>4
  <2> QED
    BY <1>1, <1>2, <2>1 DEF HeldIsThere
<1>5. AllIsFreed
  <2>1. ASSUME NEW id \in 1..given
        PROVE  (id \in freed) <=> (lost[id] = 0 /\ \A k \in DOMAIN held : held[k].id # id)
    <3> DEFINE c == Cardinality(Pieces(held, id))
    <3>1. id \in 1..MaxBuffers /\ id <= given
      BY <1>1, WsAssumption
    <3>2. lost[id] \in Nat /\ c \in Nat /\ (c = 0 <=> Pieces(held, id) = {}) /\ Users(Now, id) = lost[id] + c
      BY <1>2, <1>3, <3>1, PiecesAre DEF Users
    <3>3. Pieces(held, id) = {} <=> \A k \in DOMAIN held : held[k].id # id
      BY DEF Pieces
    <3> HIDE DEF c
    <3>4. Users(Now, id) = 0 <=> (lost[id] = 0 /\ \A k \in DOMAIN held : held[k].id # id)
      BY <3>2, <3>3
    <3>5. CASE \E j \in BufSlots : IsIn(Now, j, id)
      <4>1. PICK j \in BufSlots : IsIn(Now, j, id)
        BY <3>5
      <4>2. InUse(Now, j) /\ ws.bufs[j].id = id
        BY <1>2, <4>1 DEF IsIn
      <4>3. id \notin freed /\ ws.uses[j] = Users(Now, id) + (IF j = 0 THEN 0 ELSE 0)
        BY <1>1, <1>2, <4>2, SlotIs
      <4>4. ws.uses[j] > 0
        BY <1>2, <4>2 DEF InUse
      <4>5. Users(Now, id) # 0
        BY <4>3, <4>4
      <4> QED
        BY <3>4, <4>3, <4>5
    <3>6. CASE \A j \in BufSlots : ~IsIn(Now, j, id)
      <4>1. Users(Now, id) = 0 /\ (id \in freed <=> id <= given)
        BY <1>1, <1>2, <3>1, <3>6 DEF Counted
      <4> QED
        BY <3>1, <3>4, <4>1
    <3> QED
      BY <3>5, <3>6
  <2> QED
    BY <2>1 DEF AllIsFreed
<1> QED
  BY <1>4, <1>5

(* Whatever bytes come, in whatever buffers, and whatever the client keeps *)
(* and releases, the counts of the slots of ws.c are right: the client     *)
(* never holds a piece of a freed buffer, no buffer is freed twice, and    *)
(* each is freed when nothing can release it any more.                     *)
THEOREM BuffersCorrect == WsSpec => []BuffersAreKept
<1>1. WsInit => WsInv
  BY WsInitial
<1>2. WsInv /\ [WsNext]_wsVars => WsInv'
  BY WsStep
<1>3. WsInv => BuffersAreKept
  BY CountedIsKept
<1> QED
  BY <1>1, <1>2, <1>3, PTL DEF WsSpec
=============================================================================
