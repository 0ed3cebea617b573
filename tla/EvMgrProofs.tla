------------------------- MODULE EvMgrProofs -------------------------
(* The proofs about the event manager (ev-mgr.c), for every set of        *)
(* objects, every value of the bounds and every client that the           *)
(* assumptions of EvObjects and EvMgr allow.  In turn: the fd objects and *)
(* epoll (EpollCorrect); the references on fd objects and preparers, and  *)
(* the countdowns of timers (ReferencesCorrect, CountdownCorrect); uses   *)
(* after free and the list of timers, for calm clients (NoFaultCorrect,   *)
(* TimersListedCorrect).                                                  *)
EXTENDS EvMgr, TLAPS

(* H is G but for the descriptor object f, now d and watched as w, and for *)
(* the two marks.                                                          *)
Puts(H, G, f, d, w, ch, cl) ==
  /\ H \in FdsType /\ H.efd[f] = d /\ H.epoll[f] = w /\ H.changed = ch /\ H.cleanup = cl
  /\ \A g \in Fds : g # f => H.efd[g] = G.efd[g] /\ H.epoll[g] = G.epoll[g]

(* The parts of a state of the fd objects have their types.                *)
LEMMA FdsAccess ==
  ASSUME NEW G \in FdsType, NEW f \in Fds
  PROVE  /\ G.efd[f] \in EfdType /\ G.epoll[f] \in Events \cup {NONE}
         /\ G.changed \in BOOLEAN /\ G.cleanup \in BOOLEAN
BY Zenon DEF FdsType

(* 0 and 1 are values of the counter of references.                        *)
LEMMA ZeroIsCount == 0 \in 0 .. RefMod - 1 /\ 1 \in 0 .. RefMod - 1
BY RefAssumption

(* The decrement and the increment of a counter of references are values   *)
(* of it, and only 1 is decremented to 0.                                  *)
LEMMA DecRefType ==
  ASSUME NEW c \in 0 .. RefMod - 1
  PROVE  /\ DecRef(c) \in 0 .. RefMod - 1 /\ IncRef(c) \in 0 .. RefMod - 1
         /\ DecRef(c) = 0 <=> c = 1
         /\ c > 0 => DecRef(c) = c - 1
BY RefAssumption DEF DecRef, IncRef

(* What ev_fd_unref leaves of an object and of its registration, from the  *)
(* object d0 registered as w0: the counter goes down, or the object is     *)
(* disconnected and is to be deleted.                                      *)
Unreffed(d0, w0, c0, d, w, c) ==
  /\ d.mgr = d0.mgr /\ d.events = d0.events
  /\ DecRef(d0.refcount) # 0 =>
       /\ d.refcount = DecRef(d0.refcount) /\ w = w0 /\ c = c0
       /\ d.st = d0.st /\ d.is_active = d0.is_active /\ d.is_set = d0.is_set
       /\ d.is_deleted = d0.is_deleted /\ d.open = d0.open
  /\ DecRef(d0.refcount) = 0 =>
       /\ d.refcount = 0 /\ d.is_active = FALSE /\ d.is_deleted = TRUE
       /\ d.st = (IF d0.mgr THEN d0.st ELSE "freed") /\ (d0.mgr => c = TRUE) /\ c \in {c0, TRUE}
       /\ IF d0.is_active /\ d0.is_set /\ w0 # NONE THEN w = NONE /\ d.is_set = FALSE
          ELSE d.is_set = d0.is_set /\ w \in {w0, NONE}

(* The effects of single assignments.                                      *)
LEMMA SamePuts ==
  ASSUME NEW G \in FdsType, NEW f \in Fds
  PROVE  Puts(G, G, f, G.efd[f], G.epoll[f], G.changed, G.cleanup)
BY Zenon DEF Puts

(* EPOLL_CTL_DEL of an object (efd_set).                                   *)
LEMMA UnsetPuts ==
  ASSUME NEW G \in FdsType, NEW f \in Fds, [G.efd[f] EXCEPT !.is_set = FALSE] \in EfdType
  PROVE  Puts([Watch(G, f, NONE) EXCEPT !.efd[f].is_set = FALSE], G, f,
              [G.efd[f] EXCEPT !.is_set = FALSE], NONE, G.changed, G.cleanup)
BY Zenon DEF Puts, FdsType, Watch

(* The last reference goes: the object is inactive and is to be deleted.   *)
LEMMA DropPuts ==
  ASSUME NEW G \in FdsType, NEW f \in Fds, NEW d, d \in EfdType,
         d = [G.efd[f] EXCEPT !.refcount = 0, !.is_active = FALSE, !.is_deleted = TRUE]
  PROVE  Puts([G EXCEPT !.efd[f].refcount = 0, !.efd[f].is_active = FALSE, !.efd[f].is_deleted = TRUE],
              G, f, d, G.epoll[f], G.changed, G.cleanup)
BY Zenon DEF Puts, FdsType

(* The manager is told that there is something to delete (efds_cleanup).   *)
LEMMA CleanupPuts ==
  ASSUME NEW G \in FdsType, NEW f \in Fds
  PROVE  Puts([G EXCEPT !.cleanup = TRUE], G, f, G.efd[f], G.epoll[f], G.changed, TRUE)
BY Zenon DEF Puts, FdsType

(* close() of the descriptor: the kernel forgets its registration.         *)
LEMMA ClosePuts ==
  ASSUME NEW G \in FdsType, NEW f \in Fds, [G.efd[f] EXCEPT !.open = FALSE] \in EfdType
  PROVE  Puts(Close(G, f), G, f, [G.efd[f] EXCEPT !.open = FALSE], NONE, G.changed, G.cleanup)
BY Zenon DEF Puts, FdsType, Close

(* free() of an object that has no manager.                                *)
LEMMA FreePuts ==
  ASSUME NEW G \in FdsType, NEW f \in Fds, [G.efd[f] EXCEPT !.st = "freed"] \in EfdType
  PROVE  Puts([G EXCEPT !.efd[f].st = "freed"], G, f,
              [G.efd[f] EXCEPT !.st = "freed"], G.epoll[f], G.changed, G.cleanup)
BY Zenon DEF Puts, FdsType

(* Two changes of one object are one.                                      *)
LEMMA PutsAgain ==
  ASSUME NEW G, NEW H, NEW K, NEW f, NEW d, NEW w, NEW ch, NEW cl, NEW d1, NEW w1, NEW ch1, NEW cl1,
         Puts(H, G, f, d1, w1, ch1, cl1), Puts(K, H, f, d, w, ch, cl)
  PROVE  Puts(K, G, f, d, w, ch, cl)
BY Zenon DEF Puts

(* ev_fd_unref changes its object only, as Unreffed tells.                 *)
LEMMA UnrefPuts ==
  ASSUME NEW G \in FdsType, NEW f \in Fds
  PROVE  \E d \in EfdType, w \in Events \cup {NONE}, cl \in BOOLEAN :
           /\ Puts(ev_fd_unref(G, f), G, f, d, w, G.changed, cl)
           /\ Unreffed(G.efd[f], G.epoll[f], G.cleanup, d, w, cl)
<1> DEFINE d0 == G.efd[f]
<1>1. d0 \in EfdType /\ G.epoll[f] \in Events \cup {NONE} /\ NONE \in Events \cup {NONE}
      /\ G.changed \in BOOLEAN /\ G.cleanup \in BOOLEAN
  BY FdsAccess
<1>2. d0.refcount \in 0 .. RefMod - 1
  BY <1>1, Zenon DEF EfdType
<1>3. CASE DecRef(d0.refcount) # 0
  <2> DEFINE d == [d0 EXCEPT !.refcount = DecRef(@)]
  <2>1. d \in EfdType
    BY <1>1, <1>2, DecRefType, Zenon DEF EfdType
  <2>2. Puts(ev_fd_unref(G, f), G, f, d, G.epoll[f], G.changed, G.cleanup)
    BY <1>3, <2>1, Zenon DEF Puts, FdsType, ev_fd_unref
  <2>3. Unreffed(d0, G.epoll[f], G.cleanup, d, G.epoll[f], G.cleanup)
    BY <1>1, <1>3, Zenon DEF Unreffed, EfdType
  <2> QED
    BY <1>1, <2>1, <2>2, <2>3, Zenon
<1>4. CASE DecRef(d0.refcount) = 0
  <2> DEFINE isset == d0.is_active /\ d0.is_set /\ ~DelFails(G, f)
             G1 == IF isset THEN [Watch(G, f, NONE) EXCEPT !.efd[f].is_set = FALSE] ELSE G
             H1 == [G1 EXCEPT !.efd[f].refcount = 0, !.efd[f].is_active = FALSE, !.efd[f].is_deleted = TRUE]
             K  == IF d0.auto_close /\ d0.open THEN Close(H1, f) ELSE H1
             L  == [K EXCEPT !.efd[f].st = "freed"]
  <2>1. ev_fd_unref(G, f) = IF d0.mgr THEN [H1 EXCEPT !.cleanup = TRUE] ELSE L
    BY <1>4, Zenon DEF ev_fd_unref
  <2> HIDE DEF G1, H1, K, L
  <2>2. PICK d1 \in EfdType, w1 \in Events \cup {NONE} :
          /\ Puts(G1, G, f, d1, w1, G.changed, G.cleanup)
          /\ d1.mgr = d0.mgr /\ d1.events = d0.events /\ d1.st = d0.st
          /\ isset => w1 = NONE /\ d1.is_set = FALSE
          /\ ~isset => w1 = G.epoll[f] /\ d1.is_set = d0.is_set
    <3>1. CASE isset
      <4>1. [d0 EXCEPT !.is_set = FALSE] \in EfdType
        BY <1>1, Zenon DEF EfdType
      <4>2. Puts(G1, G, f, [d0 EXCEPT !.is_set = FALSE], NONE, G.changed, G.cleanup)
        BY <3>1, <4>1, UnsetPuts DEF G1
      <4> QED
        BY <1>1, <3>1, <4>1, <4>2, Zenon DEF EfdType
    <3>2. CASE ~isset
      BY <1>1, <3>2, SamePuts, Zenon DEF G1
    <3> QED
      BY <3>1, <3>2
  <2>3. PICK d2 \in EfdType :
          /\ Puts(H1, G, f, d2, w1, G.changed, G.cleanup)
          /\ d2.mgr = d0.mgr /\ d2.events = d0.events /\ d2.st = d0.st /\ d2.is_set = d1.is_set
          /\ d2.refcount = 0 /\ d2.is_active = FALSE /\ d2.is_deleted = TRUE
    <3> DEFINE d == [d1 EXCEPT !.refcount = 0, !.is_active = FALSE, !.is_deleted = TRUE]
    <3>1. d \in EfdType
      BY ZeroIsCount, Zenon DEF EfdType
    <3>2. G1 \in FdsType /\ G1.efd[f] = d1 /\ G1.epoll[f] = w1 /\ G1.changed = G.changed /\ G1.cleanup = G.cleanup
      BY <2>2, Zenon DEF Puts
    <3>3. Puts(H1, G1, f, d, w1, G.changed, G.cleanup)
      <4> HIDE DEF d
      <4>1. d = [G1.efd[f] EXCEPT !.refcount = 0, !.is_active = FALSE, !.is_deleted = TRUE]
        BY <3>2 DEF d
      <4> QED
        BY <3>1, <3>2, <4>1, DropPuts DEF H1
    <3>4. Puts(H1, G, f, d, w1, G.changed, G.cleanup)
      BY <2>2, <3>3, PutsAgain
    <3> QED
      BY <2>2, <3>1, <3>4, Zenon DEF EfdType
  <2>4. H1 \in FdsType /\ H1.efd[f] = d2 /\ H1.epoll[f] = w1 /\ H1.changed = G.changed /\ H1.cleanup = G.cleanup
    BY <2>3, Zenon DEF Puts
  <2>5. CASE d0.mgr
    <3>1. ev_fd_unref(G, f) = [H1 EXCEPT !.cleanup = TRUE]
      BY <2>1, <2>5
    <3>2. Puts(ev_fd_unref(G, f), G, f, d2, w1, G.changed, TRUE)
      <4>1. Puts([H1 EXCEPT !.cleanup = TRUE], H1, f, d2, w1, G.changed, TRUE)
        BY <2>4, CleanupPuts
      <4>2. Puts([H1 EXCEPT !.cleanup = TRUE], G, f, d2, w1, G.changed, TRUE)
        BY <2>3, <4>1, PutsAgain
      <4> QED
        BY <3>1, <4>2, Zenon
    <3>3. Unreffed(d0, G.epoll[f], G.cleanup, d2, w1, TRUE)
      BY <1>4, <2>2, <2>3, <2>5, Zenon DEF Unreffed, DelFails
    <3> QED
      BY <1>1, <3>2, <3>3, Zenon
  <2>6. CASE ~d0.mgr
    <3>1. PICK d3 \in EfdType, w3 \in {w1, NONE} :
            /\ Puts(K, G, f, d3, w3, G.changed, G.cleanup)
            /\ d3.mgr = d0.mgr /\ d3.events = d0.events /\ d3.is_set = d1.is_set
            /\ d3.refcount = 0 /\ d3.is_active = FALSE /\ d3.is_deleted = TRUE
      <4>1. [d2 EXCEPT !.open = FALSE] \in EfdType
        BY Zenon DEF EfdType
      <4>2. CASE d0.auto_close /\ d0.open
        <5>1. Puts(K, H1, f, [d2 EXCEPT !.open = FALSE], NONE, G.changed, G.cleanup)
          BY <2>4, <4>1, <4>2, ClosePuts DEF K
        <5>2. Puts(K, G, f, [d2 EXCEPT !.open = FALSE], NONE, G.changed, G.cleanup)
          BY <2>3, <5>1, PutsAgain
        <5> QED
          BY <2>3, <4>1, <5>2, Zenon DEF EfdType
      <4>3. CASE ~(d0.auto_close /\ d0.open)
        BY <2>3, <4>3, Zenon DEF K
      <4> QED
        BY <4>2, <4>3
    <3>2. ev_fd_unref(G, f) = L
      BY <2>1, <2>6
    <3> DEFINE d == [d3 EXCEPT !.st = "freed"]
    <3>3. d \in EfdType
      BY Zenon DEF EfdType
    <3>4. K \in FdsType /\ K.efd[f] = d3 /\ K.epoll[f] = w3 /\ K.changed = G.changed /\ K.cleanup = G.cleanup
      BY <3>1, Zenon DEF Puts
    <3>5. Puts(L, K, f, d, w3, G.changed, G.cleanup)
      BY <3>3, <3>4, FreePuts DEF L
    <3>6. Puts(L, G, f, d, w3, G.changed, G.cleanup)
      BY <3>1, <3>5, PutsAgain
    <3>7. Unreffed(d0, G.epoll[f], G.cleanup, d, w3, G.cleanup)
      BY <1>4, <2>2, <2>6, <3>1, Zenon DEF Unreffed, DelFails, EfdType
    <3> QED
      BY <1>1, <3>2, <3>3, <3>6, <3>7, Zenon
  <2> QED
    BY <2>5, <2>6
<1> QED
  BY <1>3, <1>4

(* What the end of a dispatch leaves of an object, before the reference is *)
(* dropped.                                                                *)
Ended(d0, w0, d, w) ==
  /\ d.st = d0.st /\ d.refcount = d0.refcount /\ d.is_deleted = d0.is_deleted
  /\ d.mgr = d0.mgr /\ d.events = d0.events
  /\ \/ d.is_set = FALSE /\ d.is_active = FALSE /\ (d0.mgr => w = NONE)
     \/ d.is_set = d0.is_set /\ d.is_active = d0.is_active /\ d.open = d0.open /\ w = w0
     \/ d0.is_set = FALSE /\ d.is_set = FALSE /\ d.is_active = d0.is_active /\ w \in {w0, NONE}

(* What follows the handler of an fd (ev-mgr.c: automatic close and        *)
(* automatic unref after a hang up) changes its object only, first as      *)
(* Ended tells and then as Unreffed tells.                                 *)
LEMMA EndPuts ==
  ASSUME NEW G \in FdsType, NEW f \in Fds, NEW hup \in BOOLEAN
  PROVE  \E d1 \in EfdType, w1 \in Events \cup {NONE}, d \in EfdType, w \in Events \cup {NONE}, cl \in BOOLEAN :
           /\ Ended(G.efd[f], G.epoll[f], d1, w1)
           /\ Puts(fd_dispatch_end(G, f, hup), G, f, d, w, G.changed, cl)
           /\ IF hup /\ G.efd[f].auto_unref THEN Unreffed(d1, w1, G.cleanup, d, w, cl)
              ELSE d = d1 /\ w = w1 /\ cl = G.cleanup
<1> DEFINE d0 == G.efd[f]
           w0 == G.epoll[f]
           off == d0.open /\ d0.is_set /\ (d0.auto_close \/ d0.auto_unref)
           G1 == IF off THEN [G EXCEPT !.efd[f].is_set = FALSE, !.efd[f].is_active = FALSE,
                                       !.epoll[f] = IF d0.mgr THEN NONE ELSE @]
                 ELSE G
           H1 == IF d0.open /\ d0.auto_close THEN Close(G1, f) ELSE G1
           R  == fd_dispatch_end(G, f, hup)
<1>1. d0 \in EfdType /\ w0 \in Events \cup {NONE} /\ NONE \in Events \cup {NONE}
      /\ G.changed \in BOOLEAN /\ G.cleanup \in BOOLEAN
  BY FdsAccess
<1>2. R = IF ~hup THEN G ELSE IF d0.auto_unref THEN ev_fd_unref(H1, f) ELSE H1
  BY Zenon DEF fd_dispatch_end
<1>3. PICK da \in EfdType, wa \in Events \cup {NONE} :
        /\ Puts(G1, G, f, da, wa, G.changed, G.cleanup)
        /\ da.st = d0.st /\ da.refcount = d0.refcount /\ da.is_deleted = d0.is_deleted
        /\ da.mgr = d0.mgr /\ da.events = d0.events
        /\ off => da.is_set = FALSE /\ da.is_active = FALSE /\ (d0.mgr => wa = NONE)
        /\ ~off => da = d0 /\ wa = w0
  <2>1. CASE off
    <3> DEFINE d == [d0 EXCEPT !.is_set = FALSE, !.is_active = FALSE]
               w == IF d0.mgr THEN NONE ELSE w0
    <3>1. d \in EfdType /\ w \in Events \cup {NONE}
      BY <1>1, Zenon DEF EfdType
    <3>2. Puts(G1, G, f, d, w, G.changed, G.cleanup)
      BY <2>1, <3>1, Zenon DEF Puts, FdsType
    <3> QED
      BY <1>1, <2>1, <3>1, <3>2, Zenon DEF EfdType
  <2>2. CASE ~off
    BY <1>1, <2>2, SamePuts, Zenon
  <2> QED
    BY <2>1, <2>2
<1> HIDE DEF G1, R
<1>4. G1 \in FdsType /\ G1.efd[f] = da /\ G1.epoll[f] = wa /\ G1.changed = G.changed /\ G1.cleanup = G.cleanup
  BY <1>3, Zenon DEF Puts
<1>5. PICK d1 \in EfdType, w1 \in Events \cup {NONE} :
        Puts(H1, G, f, d1, w1, G.changed, G.cleanup) /\ Ended(d0, w0, d1, w1)
  <2>1. CASE d0.open /\ d0.auto_close
    <3> DEFINE d == [da EXCEPT !.open = FALSE]
    <3>1. d \in EfdType
      BY Zenon DEF EfdType
    <3>2. Puts(H1, G1, f, d, NONE, G.changed, G.cleanup)
      BY <1>4, <2>1, <3>1, ClosePuts
    <3>3. Puts(H1, G, f, d, NONE, G.changed, G.cleanup)
      BY <1>3, <3>2, PutsAgain
    <3>4. d.st = d0.st /\ d.refcount = d0.refcount /\ d.is_deleted = d0.is_deleted
          /\ d.mgr = d0.mgr /\ d.events = d0.events /\ d.is_set = da.is_set /\ d.is_active = da.is_active
      BY <1>3, Zenon DEF EfdType
    <3> HIDE DEF d
    <3>5. Ended(d0, w0, d, NONE)
      <4>1. d0.is_set \in BOOLEAN
        BY <1>1, Zenon DEF EfdType
      <4>2. CASE off
        BY <1>3, <3>4, <4>2, Zenon DEF Ended
      <4>3. CASE ~off
        BY <1>3, <2>1, <3>4, <4>1, <4>3, Zenon DEF Ended
      <4> QED
        BY <4>2, <4>3
    <3> QED
      BY <1>1, <3>1, <3>3, <3>5, Zenon
  <2>2. CASE ~(d0.open /\ d0.auto_close)
    <3>1. H1 = G1
      BY <2>2
    <3>2. Ended(d0, w0, da, wa)
      BY <1>3, Zenon DEF Ended
    <3> QED
      BY <1>3, <3>1, <3>2, Zenon
  <2> QED
    BY <2>1, <2>2
<1> HIDE DEF H1
<1>6. H1 \in FdsType /\ H1.efd[f] = d1 /\ H1.epoll[f] = w1 /\ H1.changed = G.changed /\ H1.cleanup = G.cleanup
  BY <1>5, Zenon DEF Puts
<1>7. CASE ~hup
  <2>1. Puts(R, G, f, d0, w0, G.changed, G.cleanup)
    BY <1>2, <1>7, SamePuts
  <2>2. Ended(d0, w0, d0, w0)
    BY Zenon DEF Ended
  <2> QED
    BY <1>1, <1>7, <2>1, <2>2, SMTT(60) DEF R
<1>8. CASE hup /\ ~d0.auto_unref
  <2>1. R = H1
    BY <1>2, <1>8
  <2> QED
    BY <1>1, <1>5, <1>8, <2>1, Zenon DEF R
<1>9. CASE hup /\ d0.auto_unref
  <2>1. R = ev_fd_unref(H1, f)
    BY <1>2, <1>9
  <2>2. PICK d \in EfdType, w \in Events \cup {NONE}, cl \in BOOLEAN :
          Puts(R, H1, f, d, w, G.changed, cl) /\ Unreffed(d1, w1, G.cleanup, d, w, cl)
    BY <1>6, <2>1, UnrefPuts
  <2>3. Puts(R, G, f, d, w, G.changed, cl)
    BY <1>5, <2>2, PutsAgain
  <2> QED
    BY <1>5, <1>9, <2>2, <2>3, Zenon DEF R
<1> QED
  BY <1>7, <1>8, <1>9

(* What a change of the events makes of an object.                         *)
EventsSet(d0, w0, e, bad, d, w, ch0, ch) ==
  /\ d.st = d0.st /\ d.refcount = d0.refcount /\ d.is_deleted = d0.is_deleted
  /\ d.mgr = d0.mgr /\ d.is_active = d0.is_active /\ d.open = d0.open
  /\ \/ d = d0 /\ w = w0 /\ ch = ch0
     \/ ch = TRUE /\ w = w0 /\ d.is_set = d0.is_set
        /\ (d0.is_active /\ d0.is_set => bad \/ w0 = NONE)
        /\ (d0.is_active /\ ~d0.is_set => bad \/ w0 # NONE \/ ~d0.open)
        /\ (~d0.is_active => d0.is_set /\ w0 = NONE)
     \/ ch = ch0 /\ d.events = e /\
          \/ d0.is_active /\ d.is_set = TRUE /\ w = e
          \/ ~d0.is_active /\ d0.is_set /\ d.is_set = FALSE /\ w = NONE
          \/ ~d0.is_active /\ ~d0.is_set /\ d.is_set = FALSE /\ w = w0

(* ev_fd_set_events changes its object only, as EventsSet tells.           *)
LEMMA EventsPuts ==
  ASSUME NEW G \in FdsType, NEW f \in Fds, NEW e \in Events, NEW bad \in BOOLEAN
  PROVE  \E d \in EfdType, w \in Events \cup {NONE}, ch \in BOOLEAN :
           /\ Puts(ev_fd_set_events(G, f, e, bad), G, f, d, w, ch, G.cleanup)
           /\ EventsSet(G.efd[f], G.epoll[f], e, bad, d, w, G.changed, ch)
<1> DEFINE d0 == G.efd[f]
           w0 == G.epoll[f]
           R  == ev_fd_set_events(G, f, e, bad)
           d1 == [d0 EXCEPT !.events = e]
           d2 == [d0 EXCEPT !.events = e, !.has_changed = TRUE]
           d3 == [d0 EXCEPT !.events = e, !.is_set = TRUE]
           d4 == [d0 EXCEPT !.events = e, !.is_set = FALSE]
           G1 == [G EXCEPT !.efd[f].events = e]
           Later == [G1 EXCEPT !.efd[f].has_changed = TRUE, !.changed = TRUE]
           Added == [Watch(G1, f, e) EXCEPT !.efd[f].is_set = TRUE]
           Gone  == [Watch(G1, f, NONE) EXCEPT !.efd[f].is_set = FALSE]
           Goal  == \E d \in EfdType, w \in Events \cup {NONE}, ch \in BOOLEAN :
                      /\ Puts(R, G, f, d, w, ch, G.cleanup)
                      /\ EventsSet(d0, w0, e, bad, d, w, G.changed, ch)
<1>1. d0 \in EfdType /\ w0 \in Events \cup {NONE} /\ NONE \in Events \cup {NONE} /\ e \in Events \cup {NONE}
      /\ G.changed \in BOOLEAN /\ G.cleanup \in BOOLEAN
  BY FdsAccess
<1>2. d1 \in EfdType /\ d2 \in EfdType /\ d3 \in EfdType /\ d4 \in EfdType
  BY <1>1, Zenon DEF EfdType
<1>3. d0.is_set \in BOOLEAN /\ d0.is_active \in BOOLEAN
  BY <1>1, Zenon DEF EfdType
<1>4. R = IF d0.events = e THEN G
          ELSE IF d0.is_active /\ d0.is_set THEN IF ModFails(G, f, bad) THEN Later ELSE Watch(G1, f, e)
          ELSE IF d0.is_active THEN IF AddFails(G, f, bad) THEN Later ELSE Added
          ELSE IF d0.is_set THEN IF DelFails(G, f) THEN Later ELSE Gone
          ELSE G1
  BY Zenon DEF ev_fd_set_events
<1>5. Puts(Later, G, f, d2, w0, TRUE, G.cleanup)
  BY <1>2, Zenon DEF Puts, FdsType
<1>6. Puts(Watch(G1, f, e), G, f, d1, e, G.changed, G.cleanup)
  BY <1>1, <1>2, Zenon DEF Puts, FdsType, Watch
<1>7. Puts(Added, G, f, d3, e, G.changed, G.cleanup)
  BY <1>1, <1>2, Zenon DEF Puts, FdsType, Watch
<1>8. Puts(Gone, G, f, d4, NONE, G.changed, G.cleanup)
  BY <1>1, <1>2, Zenon DEF Puts, FdsType, Watch
<1>9. Puts(G1, G, f, d1, w0, G.changed, G.cleanup)
  BY <1>2, Zenon DEF Puts, FdsType
<1> HIDE DEF Later, Added, Gone, G1
<1>10. ASSUME R = G PROVE Goal
  <2>1. Puts(R, G, f, d0, w0, G.changed, G.cleanup)
    BY <1>10, SamePuts
  <2>2. EventsSet(d0, w0, e, bad, d0, w0, G.changed, G.changed)
    BY Zenon DEF EventsSet
  <2> QED
    BY <1>1, <2>1, <2>2, Zenon
<1>11. ASSUME /\ R = Later
            /\ \/ d0.is_active /\ d0.is_set /\ ModFails(G, f, bad)
               \/ d0.is_active /\ ~d0.is_set /\ AddFails(G, f, bad)
               \/ ~d0.is_active /\ d0.is_set /\ DelFails(G, f)
       PROVE  Goal
  <2>1. Puts(R, G, f, d2, w0, TRUE, G.cleanup)
    BY <1>5, <1>11
  <2>2. EventsSet(d0, w0, e, bad, d2, w0, G.changed, TRUE)
    BY <1>1, <1>3, <1>11, Zenon DEF EventsSet, EfdType, ModFails, AddFails, DelFails
  <2> QED
    BY <1>1, <1>2, <2>1, <2>2, Zenon
<1>12. ASSUME R = Watch(G1, f, e) /\ d0.is_active /\ d0.is_set PROVE Goal
  <2>1. Puts(R, G, f, d1, e, G.changed, G.cleanup)
    BY <1>6, <1>12, Zenon
  <2>2. EventsSet(d0, w0, e, bad, d1, e, G.changed, G.changed)
    <3>1. d0.is_set = TRUE
      BY <1>3, <1>12, Zenon
    <3> QED
      BY <1>1, <1>12, <3>1, Zenon DEF EventsSet, EfdType
  <2> QED
    BY <1>1, <1>2, <2>1, <2>2, Zenon
<1>13. ASSUME R = Added /\ d0.is_active PROVE Goal
  <2>1. Puts(R, G, f, d3, e, G.changed, G.cleanup)
    BY <1>7, <1>13, Zenon
  <2>2. EventsSet(d0, w0, e, bad, d3, e, G.changed, G.changed)
    BY <1>1, <1>13, Zenon DEF EventsSet, EfdType
  <2> QED
    BY <1>1, <1>2, <2>1, <2>2, Zenon
<1>14. ASSUME R = Gone /\ ~d0.is_active /\ d0.is_set PROVE Goal
  <2>1. Puts(R, G, f, d4, NONE, G.changed, G.cleanup)
    BY <1>8, <1>14, Zenon
  <2>2. EventsSet(d0, w0, e, bad, d4, NONE, G.changed, G.changed)
    BY <1>1, <1>14, Zenon DEF EventsSet, EfdType
  <2> QED
    BY <1>1, <1>2, <2>1, <2>2, Zenon
<1>15. ASSUME R = G1 /\ ~d0.is_active /\ ~d0.is_set PROVE Goal
  <2>1. Puts(R, G, f, d1, w0, G.changed, G.cleanup)
    BY <1>9, <1>15, Zenon
  <2>2. EventsSet(d0, w0, e, bad, d1, w0, G.changed, G.changed)
    <3>1. d0.is_set = FALSE
      BY <1>3, <1>15, Zenon
    <3> QED
      BY <1>1, <1>15, <3>1, Zenon DEF EventsSet, EfdType
  <2> QED
    BY <1>1, <1>2, <2>1, <2>2, Zenon
<1> HIDE DEF R
<1>16. Goal
  <2>1. \/ R = G
        \/ /\ R = Later
           /\ \/ d0.is_active /\ d0.is_set /\ ModFails(G, f, bad)
              \/ d0.is_active /\ ~d0.is_set /\ AddFails(G, f, bad)
              \/ ~d0.is_active /\ d0.is_set /\ DelFails(G, f)
        \/ R = Watch(G1, f, e) /\ d0.is_active /\ d0.is_set
        \/ R = Added /\ d0.is_active
        \/ R = Gone /\ ~d0.is_active /\ d0.is_set
        \/ R = G1 /\ ~d0.is_active /\ ~d0.is_set
    BY <1>4, Zenon
  <2> HIDE DEF Goal
  <2> QED
    BY <2>1, <1>10, <1>11, <1>12, <1>13, <1>14, <1>15
<1> QED
  BY <1>16, Zenon DEF R

(* ev_fd_addref changes the counter of its object only.                    *)
LEMMA AddrefPuts ==
  ASSUME NEW G \in FdsType, NEW f \in Fds
  PROVE  \E d \in EfdType :
           /\ Puts(ev_fd_addref(G, f), G, f, d, G.epoll[f], G.changed, G.cleanup)
           /\ d.st = G.efd[f].st /\ d.refcount = IncRef(G.efd[f].refcount)
           /\ d.is_deleted = G.efd[f].is_deleted /\ d.mgr = G.efd[f].mgr /\ d.events = G.efd[f].events
           /\ d.is_active = G.efd[f].is_active /\ d.is_set = G.efd[f].is_set /\ d.open = G.efd[f].open
<1> DEFINE d0 == G.efd[f]
           d  == [d0 EXCEPT !.refcount = IncRef(@)]
<1>1. d0 \in EfdType
  BY FdsAccess
<1>2. d0.refcount \in 0 .. RefMod - 1
  BY <1>1, Zenon DEF EfdType
<1>3. d \in EfdType
  BY <1>1, <1>2, DecRefType, Zenon DEF EfdType
<1>4. Puts(ev_fd_addref(G, f), G, f, d, G.epoll[f], G.changed, G.cleanup)
  BY <1>3, Zenon DEF Puts, FdsType, ev_fd_addref
<1> QED
  BY <1>1, <1>3, <1>4, Zenon DEF EfdType

(* ev_mgr_add_fd makes a live and active object that is not set yet, and   *)
(* marks the manager as changed.                                           *)
LEMMA AddPuts ==
  ASSUME NEW G \in FdsType, NEW f \in Fds, NEW e \in Events, NEW au \in BOOLEAN, NEW ac \in BOOLEAN
  PROVE  \E d \in EfdType :
           /\ Puts(ev_mgr_add_fd(G, f, e, au, ac), G, f, d, G.epoll[f], TRUE, G.cleanup)
           /\ d.st = "live" /\ d.refcount = 1 /\ d.is_deleted = FALSE /\ d.mgr = TRUE
           /\ d.is_active = TRUE /\ d.is_set = FALSE /\ d.open = TRUE
<1> DEFINE d == [NoEfd(e) EXCEPT !.st = "live", !.refcount = 1, !.is_active = TRUE,
                   !.open = TRUE, !.mgr = TRUE, !.auto_unref = au, !.auto_close = ac]
<1>1. NoEfd(e) \in EfdType
  BY ZeroIsCount, Zenon DEF EfdType, NoEfd
<1>2. d \in EfdType
  BY <1>1, ZeroIsCount, Zenon DEF EfdType
<1>3. Puts(ev_mgr_add_fd(G, f, e, au, ac), G, f, d, G.epoll[f], TRUE, G.cleanup)
  BY <1>2, Zenon DEF Puts, FdsType, ev_mgr_add_fd
<1>4. NoEfd(e).is_deleted = FALSE /\ NoEfd(e).is_set = FALSE
  BY Zenon DEF NoEfd
<1>5. /\ d.st = "live" /\ d.refcount = 1 /\ d.is_deleted = FALSE /\ d.mgr = TRUE
      /\ d.is_active = TRUE /\ d.is_set = FALSE /\ d.open = TRUE
  BY <1>1, <1>4, Zenon DEF EfdType
<1> HIDE DEF d
<1> QED
  BY <1>2, <1>3, <1>5, Zenon

(* What the walks of the whole list do to each object.                     *)
SameObject(d, d0) ==
  /\ d.refcount = d0.refcount /\ d.is_deleted = d0.is_deleted /\ d.events = d0.events
  /\ d.is_active = d0.is_active

(* What efds_prepare makes of an object when no epoll_ctl fails.           *)
Prepared(d0, w0, d, w) ==
  /\ SameObject(d, d0) /\ d.st = d0.st /\ d.mgr = d0.mgr /\ d.open = d0.open
  /\ d.is_set = d0.is_active
  /\ d0.is_active /\ ~d0.is_set => w = IF d0.open /\ w0 = NONE THEN d0.events ELSE w0
  /\ d0.is_active /\ d0.is_set => w \in {w0, d0.events} /\ (w0 = NONE => w = w0)
  /\ ~d0.is_active /\ d0.is_set => w = NONE
  /\ ~d0.is_active /\ ~d0.is_set => w = w0

(* What efds_prepare makes of an object: nothing, or it is set exactly     *)
(* when it is active.                                                      *)
PreparedFd(H, G, f, bad) ==
  \/ H.efd[f] = G.efd[f] /\ H.epoll[f] = G.epoll[f] /\ (G.changed => G.efd[f].st # "live")
  \/ /\ SameObject(H.efd[f], G.efd[f]) /\ H.efd[f].st = G.efd[f].st
     /\ H.efd[f].mgr = G.efd[f].mgr /\ H.efd[f].is_set = G.efd[f].is_active
     /\ H.epoll[f] # NONE => G.efd[f].is_active \/ G.epoll[f] # NONE
     /\ G.efd[f].st = "live"
     /\ bad = {} => Prepared(G.efd[f], G.epoll[f], H.efd[f], H.epoll[f])

(* efds_prepare treats each object of the list alone, and clears the mark  *)
(* of changes.                                                             *)
LEMMA PrepareFields ==
  ASSUME NEW G \in FdsType, NEW bad \in SUBSET LiveFds(G), NEW H, H = efds_prepare(G, bad)
  PROVE  /\ H \in FdsType /\ H.cleanup = G.cleanup /\ H.changed = FALSE
         /\ \A f \in Fds : PreparedFd(H, G, f, bad)
<1> DEFINE New(f)   == G.efd[f].is_active /\ ~G.efd[f].is_set
           Mod(f)   == G.efd[f].is_active /\ G.efd[f].is_set /\ G.efd[f].has_changed
           Old(f)   == ~G.efd[f].is_active /\ G.efd[f].is_set
           Efd(f)   == [G.efd[f] EXCEPT !.is_set = G.efd[f].is_active,
                          !.has_changed = @ /\ ~(New(f) \/ Mod(f) \/ Old(f))]
           Epoll(f) == CASE New(f) /\ ~AddFails(G, f, f \in bad) -> G.efd[f].events
                         [] Mod(f) /\ ~ModFails(G, f, f \in bad) -> G.efd[f].events
                         [] Old(f)                               -> NONE
                         [] OTHER                                -> G.epoll[f]
           L == LiveFds(G)
           K == [G EXCEPT !.changed = FALSE,
                   !.efd   = [f \in Fds |-> IF f \in L THEN Efd(f) ELSE G.efd[f]],
                   !.epoll = [f \in Fds |-> IF f \in L THEN Epoll(f) ELSE G.epoll[f]]]
<1>1. \A f \in Fds : G.efd[f] \in EfdType /\ G.epoll[f] \in Events \cup {NONE}
  BY FdsAccess
<1>2. H = IF ~G.changed THEN G ELSE K
  BY Zenon DEF efds_prepare
<1>3. CASE ~G.changed
  <2>1. H = G /\ G.changed = FALSE
    BY <1>2, <1>3, FdsAccess, Zenon DEF FdsType
  <2> QED
    BY <1>3, <2>1, Zenon DEF PreparedFd
<1>4. CASE G.changed
  <2>1. \A f \in Fds : Efd(f) \in EfdType
    <3> SUFFICES ASSUME NEW f \in Fds PROVE Efd(f) \in EfdType
      OBVIOUS
    <3>1. G.efd[f].is_active \in BOOLEAN /\ G.efd[f].has_changed \in BOOLEAN
      BY <1>1, Zenon DEF EfdType
    <3>2. (G.efd[f].has_changed /\ ~(New(f) \/ Mod(f) \/ Old(f))) \in BOOLEAN
      OBVIOUS
    <3> HIDE DEF New, Mod, Old
    <3> QED
      BY <1>1, <3>1, <3>2, ZenonT(60) DEF EfdType
  <2>2. \A f \in Fds : Epoll(f) \in Events \cup {NONE}
    <3> SUFFICES ASSUME NEW f \in Fds PROVE Epoll(f) \in Events \cup {NONE}
      OBVIOUS
    <3>1. G.efd[f].events \in Events
      BY <1>1, Zenon DEF EfdType
    <3> QED
      BY <1>1, <3>1
  <2>3. ASSUME NEW f \in Fds
        PROVE  /\ SameObject(Efd(f), G.efd[f]) /\ Efd(f).st = G.efd[f].st
               /\ Efd(f).mgr = G.efd[f].mgr /\ Efd(f).open = G.efd[f].open
               /\ Efd(f).is_set = G.efd[f].is_active
    BY <1>1, Zenon DEF SameObject, EfdType
  <2>4. ASSUME NEW f \in Fds, bad = {}
        PROVE  Prepared(G.efd[f], G.epoll[f], Efd(f), Epoll(f))
    <3> DEFINE d0 == G.efd[f]
               w0 == G.epoll[f]
    <3>1. d0.is_set \in BOOLEAN /\ d0.is_active \in BOOLEAN /\ d0.open \in BOOLEAN
      BY <1>1, Zenon DEF EfdType
    <3>2. Epoll(f) = CASE New(f) /\ d0.open /\ w0 = NONE -> d0.events
                       [] Mod(f) /\ w0 # NONE -> d0.events
                       [] Old(f)              -> NONE
                       [] OTHER               -> w0
      BY <2>4 DEF AddFails, ModFails
    <3> DEFINE d == Efd(f)
               w == Epoll(f)
    <3>3. d0.is_active /\ ~d0.is_set => w = IF d0.open /\ w0 = NONE THEN d0.events ELSE w0
      BY <3>1, <3>2
    <3>4. d0.is_active /\ d0.is_set => w \in {w0, d0.events} /\ (w0 = NONE => w = w0)
      BY <3>1, <3>2
    <3>5. ~d0.is_active => w = IF d0.is_set THEN NONE ELSE w0
      BY <3>1, <3>2
    <3> HIDE DEF d, w
    <3>6. Prepared(d0, w0, d, w)
      BY <2>3, <3>3, <3>4, <3>5, Zenon DEF Prepared, d
    <3> QED
      BY <3>6 DEF d, w
  <2>5. ASSUME NEW f \in Fds PROVE Epoll(f) # NONE => G.efd[f].is_active \/ G.epoll[f] # NONE
    OBVIOUS
  <2> HIDE DEF Efd, Epoll
  <2>6. K \in FdsType /\ K.cleanup = G.cleanup /\ K.changed = FALSE
        /\ \A f \in Fds : /\ f \in L => K.efd[f] = Efd(f) /\ K.epoll[f] = Epoll(f)
                          /\ f \notin L => K.efd[f] = G.efd[f] /\ K.epoll[f] = G.epoll[f]
    BY <1>1, <2>1, <2>2, Zenon DEF FdsType
  <2>7. \A f \in Fds : f \in L <=> G.efd[f].st = "live"
    BY DEF LiveFds
  <2> HIDE DEF K, L
  <2>8. H = K
    BY <1>2, <1>4
  <2>9. ASSUME NEW f \in Fds PROVE PreparedFd(H, G, f, bad)
    <3>1. CASE f \in L
      <4>1. H.efd[f] = Efd(f) /\ H.epoll[f] = Epoll(f)
        BY <2>6, <2>8, <3>1
      <4>2. G.efd[f].st = "live"
        BY <2>7, <3>1
      <4> QED
        BY <2>3, <2>4, <2>5, <4>1, <4>2 DEF PreparedFd
    <3>2. CASE f \notin L
      BY <2>6, <2>7, <2>8, <3>2 DEF PreparedFd
    <3> QED
      BY <3>1, <3>2
  <2> QED
    BY <2>6, <2>8, <2>9, Zenon
<1> QED
  BY <1>3, <1>4

(* What efds_cleanup makes of an object: nothing, or it is freed because   *)
(* it was to be deleted.                                                   *)
CleanedUp(H, G, f) ==
  \/ /\ H.efd[f] = G.efd[f] /\ H.epoll[f] = G.epoll[f]
     /\ G.cleanup => ~(G.efd[f].st = "live" /\ G.efd[f].is_deleted)
  \/ /\ SameObject(H.efd[f], G.efd[f]) /\ H.efd[f].st = "freed"
     /\ H.efd[f].mgr = G.efd[f].mgr /\ H.efd[f].is_set = G.efd[f].is_set
     /\ G.efd[f].st = "live" /\ G.efd[f].is_deleted
     /\ H.epoll[f] = NONE \/ (H.epoll[f] = G.epoll[f] /\ ~G.efd[f].is_set)

(* efds_cleanup treats each object of the list alone, and clears its mark. *)
LEMMA CleanupFields ==
  ASSUME NEW G \in FdsType, NEW H, H = efds_cleanup(G)
  PROVE  /\ H \in FdsType /\ H.cleanup = FALSE /\ H.changed = G.changed
         /\ \A f \in Fds : CleanedUp(H, G, f)
<1> DEFINE D == {f \in LiveFds(G) : G.efd[f].is_deleted}
           Shut(f) == G.efd[f].auto_close /\ G.efd[f].open
           Efd(f) == [G.efd[f] EXCEPT !.st = "freed", !.open = @ /\ ~Shut(f)]
           Epoll(f) == IF f \in D /\ (G.efd[f].is_set \/ Shut(f)) THEN NONE ELSE G.epoll[f]
           K == [G EXCEPT !.cleanup = FALSE,
                   !.epoll = [f \in Fds |-> Epoll(f)],
                   !.efd = [f \in Fds |-> IF f \in D THEN Efd(f) ELSE G.efd[f]]]
<1>1. \A f \in Fds : G.efd[f] \in EfdType /\ G.epoll[f] \in Events \cup {NONE}
  BY FdsAccess
<1>2. H = IF ~G.cleanup THEN G ELSE K
  BY Zenon DEF efds_cleanup
<1>3. CASE ~G.cleanup
  <2>1. H = G /\ G.cleanup = FALSE
    BY <1>2, <1>3, FdsAccess, Zenon DEF FdsType
  <2> QED
    BY <1>3, <2>1, Zenon DEF CleanedUp
<1>4. CASE G.cleanup
  <2>1. ASSUME NEW f \in Fds
        PROVE  Efd(f) \in EfdType /\ Epoll(f) \in Events \cup {NONE}
    <3>1. (G.efd[f].open /\ ~Shut(f)) \in BOOLEAN
      OBVIOUS
    <3> HIDE DEF Shut
    <3>2. Efd(f) \in EfdType
      BY <1>1, <3>1, Zenon DEF EfdType
    <3>3. Epoll(f) \in Events \cup {NONE}
      BY <1>1
    <3> QED
      BY <3>2, <3>3
  <2>2. ASSUME NEW f \in Fds
        PROVE  /\ SameObject(Efd(f), G.efd[f]) /\ Efd(f).st = "freed"
               /\ Efd(f).mgr = G.efd[f].mgr /\ Efd(f).is_set = G.efd[f].is_set
    BY <1>1, Zenon DEF SameObject, EfdType
  <2>3. ASSUME NEW f \in Fds
        PROVE  /\ f \notin D => Epoll(f) = G.epoll[f]
               /\ f \in D => Epoll(f) = NONE \/ (Epoll(f) = G.epoll[f] /\ ~G.efd[f].is_set)
    BY Zenon
  <2>4. ASSUME NEW f \in Fds PROVE f \in D <=> G.efd[f].st = "live" /\ G.efd[f].is_deleted
    BY DEF LiveFds
  <2> HIDE DEF Efd, Epoll, D
  <2>5. K \in FdsType /\ K.cleanup = FALSE /\ K.changed = G.changed
        /\ \A f \in Fds : /\ K.epoll[f] = Epoll(f)
                          /\ f \in D => K.efd[f] = Efd(f)
                          /\ f \notin D => K.efd[f] = G.efd[f]
    BY <1>1, <2>1, Zenon DEF FdsType
  <2> HIDE DEF K
  <2>6. H = K
    BY <1>2, <1>4
  <2>7. ASSUME NEW f \in Fds
        PROVE  CleanedUp(H, G, f)
    <3>1. CASE f \in D
      <4>1. H.efd[f] = Efd(f) /\ H.epoll[f] = Epoll(f)
        BY <2>5, <2>6, <3>1
      <4> QED
        BY <2>2, <2>3, <2>4, <3>1, <4>1 DEF CleanedUp
    <3>2. CASE f \notin D
      BY <2>3, <2>4, <2>5, <2>6, <3>2 DEF CleanedUp
    <3> QED
      BY <3>1, <3>2
  <2> QED
    BY <2>5, <2>6, <2>7, Zenon
<1> QED
  BY <1>3, <1>4

(* When the manager is freed its epoll is closed, and its fd objects have  *)
(* no manager any more.                                                    *)
LEMMA OrphanFields ==
  ASSUME NEW G \in FdsType, NEW H, H = OrphanFds(G)
  PROVE  /\ H \in FdsType /\ H.cleanup = G.cleanup /\ H.changed = G.changed
         /\ \A f \in Fds : /\ H.epoll[f] = NONE /\ SameObject(H.efd[f], G.efd[f])
                           /\ H.efd[f].st = G.efd[f].st /\ H.efd[f].mgr = FALSE
                           /\ H.efd[f].is_set = G.efd[f].is_set /\ H.efd[f].open = G.efd[f].open
<1> DEFINE Efd(f) == [G.efd[f] EXCEPT !.mgr = FALSE]
<1>1. \A f \in Fds : G.efd[f] \in EfdType
  BY FdsAccess
<1>2. ASSUME NEW f \in Fds
      PROVE  /\ Efd(f) \in EfdType /\ SameObject(Efd(f), G.efd[f])
             /\ Efd(f).st = G.efd[f].st /\ Efd(f).mgr = FALSE
             /\ Efd(f).is_set = G.efd[f].is_set /\ Efd(f).open = G.efd[f].open
  BY <1>1, Zenon DEF SameObject, EfdType
<1>3. H = [G EXCEPT !.efd = [f \in Fds |-> Efd(f)], !.epoll = [f \in Fds |-> NONE]]
  BY Zenon DEF OrphanFds
<1> HIDE DEF Efd
<1> DEFINE ep == [f \in Fds |-> NONE]
<1>4. ep \in [Fds -> Events \cup {NONE}] /\ \A f \in Fds : ep[f] = NONE
  OBVIOUS
<1> HIDE DEF ep
<1>5. H = [G EXCEPT !.efd = [f \in Fds |-> Efd(f)], !.epoll = ep]
  BY <1>3 DEF ep
<1>6. H \in FdsType /\ H.cleanup = G.cleanup /\ H.changed = G.changed
      /\ \A f \in Fds : H.epoll[f] = NONE /\ H.efd[f] = Efd(f)
  BY <1>2, <1>4, <1>5, ZenonT(60) DEF FdsType
<1> QED
  BY <1>2, <1>6, Zenon

(* What epoll knows of an object agrees with its flags.                    *)
FdGood(d, w) ==
  /\ w # NONE => d.mgr /\ d.is_set /\ w = d.events
  /\ d.is_set /\ d.mgr => w # NONE
  /\ d.is_set => d.is_active
  /\ d.is_active => d.st = "live" /\ d.open /\ ~d.is_deleted

(* Each object agrees with epoll.                                          *)
FdsGood(G) == G \in FdsType /\ \A f \in Fds : FdGood(G.efd[f], G.epoll[f])

(* From d0 to d: what is active was, and stays set.                        *)
ObjectKept(d, d0) ==
  /\ d.st = "live" => d0.st = "live" /\ d.mgr = d0.mgr
  /\ d0.st # "none" => d.st # "none"
  /\ d.is_active => d0.is_active /\ (d0.is_set => d.is_set)

(* From G to H the mark of changes is not lost, and what is active was.    *)
FdsKept(H, G) ==
  /\ ~H.changed => ~G.changed
  /\ \A f \in Fds : ObjectKept(H.efd[f], G.efd[f])

(* A change of one object keeps the agreement of all with epoll when it    *)
(* keeps that of this one.                                                 *)
LEMMA GoodAt ==
  ASSUME NEW G \in FdsType, NEW f \in Fds, NEW H, NEW d, NEW w, NEW ch, NEW cl,
         Puts(H, G, f, d, w, ch, cl), FdsGood(G), FdGood(d, w), ObjectKept(d, G.efd[f]),
         ~ch => ~G.changed
  PROVE  FdsGood(H) /\ FdsKept(H, G)
<1>1. H \in FdsType /\ H.changed = ch /\ H.efd[f] = d /\ H.epoll[f] = w
      /\ \A g \in Fds : g # f => H.efd[g] = G.efd[g] /\ H.epoll[g] = G.epoll[g]
  BY Zenon DEF Puts
<1>2. \A g \in Fds : FdGood(H.efd[g], H.epoll[g])
  BY <1>1, Zenon DEF FdsGood
<1>3. \A g \in Fds : ObjectKept(H.efd[g], G.efd[g])
  <2>1. \A g \in Fds : ObjectKept(G.efd[g], G.efd[g])
    BY Zenon DEF ObjectKept
  <2> QED
    BY <1>1, <2>1, Zenon
<1> QED
  BY <1>1, <1>2, <1>3, Zenon DEF FdsGood, FdsKept

(* Dropping a reference keeps the agreement of an object with epoll.       *)
LEMMA UnreffedGood ==
  ASSUME NEW d0 \in EfdType, NEW d \in EfdType, NEW w0, NEW w, NEW c0, NEW c,
         Unreffed(d0, w0, c0, d, w, c), FdGood(d0, w0), d0.mgr \/ ~(d0.is_active /\ d0.is_set)
  PROVE  FdGood(d, w) /\ ObjectKept(d, d0)
<1>1. /\ d.is_set \in BOOLEAN /\ d.is_active \in BOOLEAN /\ d0.is_set \in BOOLEAN
      /\ d0.is_active \in BOOLEAN /\ d.st \in {"none", "live", "freed"}
  BY Zenon DEF EfdType
<1>2. CASE DecRef(d0.refcount) # 0
  BY <1>1, <1>2, Zenon DEF Unreffed, FdGood, ObjectKept
<1>3. CASE DecRef(d0.refcount) = 0
  <2>1. d.is_active = FALSE /\ d.mgr = d0.mgr /\ d.st = (IF d0.mgr THEN d0.st ELSE "freed")
    BY <1>3, Zenon DEF Unreffed
  <2>2. d.is_set = FALSE /\ w = NONE
    <3>1. CASE d0.is_active /\ d0.is_set /\ w0 # NONE
      BY <1>3, <3>1, Zenon DEF Unreffed
    <3>2. CASE ~(d0.is_active /\ d0.is_set /\ w0 # NONE)
      <4>1. d0.is_set = FALSE /\ w0 = NONE
        BY <1>1, <3>2, Zenon DEF FdGood
      <4>2. d.is_set = d0.is_set /\ w \in {w0, NONE}
        BY <1>3, <3>2, Zenon DEF Unreffed
      <4> QED
        BY <4>1, <4>2
    <3> QED
      BY <3>1, <3>2
  <2>3. ObjectKept(d, d0)
    <3>1. d.st = "live" => d0.st = "live"
      BY <2>1
    <3>2. d0.st # "none" => d.st # "none"
      BY <2>1
    <3> QED
      BY <2>1, <3>1, <3>2, Zenon DEF ObjectKept
  <2>4. FdGood(d, w)
    BY <2>1, <2>2, Zenon DEF FdGood
  <2> QED
    BY <2>3, <2>4
<1> QED
  BY <1>2, <1>3

(* ev_fd_unref keeps the agreement of the objects with epoll.              *)
LEMMA UnrefGood ==
  ASSUME NEW G, FdsGood(G), NEW f \in Fds, ~UnrefIsFault(G, f)
  PROVE  FdsGood(ev_fd_unref(G, f)) /\ FdsKept(ev_fd_unref(G, f), G)
<1>1. G \in FdsType /\ FdGood(G.efd[f], G.epoll[f]) /\ G.efd[f] \in EfdType
  BY FdsAccess DEF FdsGood
<1>2. PICK d \in EfdType, w \in Events \cup {NONE}, cl \in BOOLEAN :
        /\ Puts(ev_fd_unref(G, f), G, f, d, w, G.changed, cl)
        /\ Unreffed(G.efd[f], G.epoll[f], G.cleanup, d, w, cl)
  BY <1>1, UnrefPuts
<1>3. FdGood(d, w) /\ ObjectKept(d, G.efd[f])
  <2>1. CASE G.efd[f].mgr \/ ~(G.efd[f].is_active /\ G.efd[f].is_set)
    BY <1>1, <1>2, <2>1, UnreffedGood
  <2>2. CASE ~(G.efd[f].mgr \/ ~(G.efd[f].is_active /\ G.efd[f].is_set))
    <3>1. DecRef(G.efd[f].refcount) # 0
      BY <2>2, Zenon DEF UnrefIsFault
    <3> QED
      BY <1>1, <1>2, <3>1, Zenon DEF Unreffed, FdGood, ObjectKept
  <2> QED
    BY <2>1, <2>2
<1> QED
  BY <1>1, <1>2, <1>3, GoodAt

(* ev_fd_addref keeps the agreement of the objects with epoll.             *)
LEMMA AddrefGood ==
  ASSUME NEW G, FdsGood(G), NEW f \in Fds
  PROVE  FdsGood(ev_fd_addref(G, f)) /\ FdsKept(ev_fd_addref(G, f), G)
<1>1. G \in FdsType /\ FdGood(G.efd[f], G.epoll[f]) /\ G.efd[f] \in EfdType
  BY FdsAccess DEF FdsGood
<1>2. PICK d \in EfdType :
        /\ Puts(ev_fd_addref(G, f), G, f, d, G.epoll[f], G.changed, G.cleanup)
        /\ d.st = G.efd[f].st
        /\ d.is_deleted = G.efd[f].is_deleted /\ d.mgr = G.efd[f].mgr /\ d.events = G.efd[f].events
        /\ d.is_active = G.efd[f].is_active /\ d.is_set = G.efd[f].is_set /\ d.open = G.efd[f].open
  BY <1>1, AddrefPuts, Zenon
<1>3. FdGood(d, G.epoll[f]) /\ ObjectKept(d, G.efd[f])
  BY <1>1, <1>2, Zenon DEF FdGood, ObjectKept
<1> QED
  BY <1>1, <1>2, <1>3, GoodAt

(* ev_fd_set_events keeps the agreement of the objects with epoll when     *)
(* epoll_ctl does not fail.                                                *)
LEMMA SetEventsGood ==
  ASSUME NEW G, FdsGood(G), NEW f \in Fds, NEW e \in Events, ~SetEventsIsFault(G, f, e)
  PROVE  FdsGood(ev_fd_set_events(G, f, e, FALSE)) /\ FdsKept(ev_fd_set_events(G, f, e, FALSE), G)
<1> DEFINE d0 == G.efd[f]
           w0 == G.epoll[f]
           R  == ev_fd_set_events(G, f, e, FALSE)
<1>1. G \in FdsType /\ FdGood(d0, w0) /\ d0 \in EfdType
  BY FdsAccess DEF FdsGood
<1>2. d0.is_set \in BOOLEAN /\ d0.is_active \in BOOLEAN /\ e # NONE
  BY <1>1, EventsAssumption, Zenon DEF EfdType
<1>3. CASE d0.events = e
  <2>1. R = G
    BY <1>3, Zenon DEF ev_fd_set_events
  <2>2. FdsKept(G, G)
    BY Zenon DEF FdsKept, ObjectKept
  <2> QED
    BY <2>1, <2>2
<1>4. CASE d0.events # e
  <2>1. d0.is_active \/ d0.is_set => d0.mgr
    BY <1>4, Zenon DEF SetEventsIsFault
  <2>2. PICK d \in EfdType, w \in Events \cup {NONE}, ch \in BOOLEAN :
          /\ Puts(R, G, f, d, w, ch, G.cleanup)
          /\ EventsSet(d0, w0, e, FALSE, d, w, G.changed, ch)
    BY <1>1, EventsPuts
  <2> HIDE DEF R, d0, w0
  <2>3. FdGood(d, w) /\ ObjectKept(d, d0) /\ (~ch => ~G.changed)
    <3>1. CASE d = d0 /\ w = w0 /\ ch = G.changed
      BY <1>1, <3>1, Zenon DEF ObjectKept
    <3>2. CASE ch = TRUE /\ (d0.is_active /\ d0.is_set => w0 = NONE)
                  /\ (d0.is_active /\ ~d0.is_set => w0 # NONE \/ ~d0.open)
                  /\ (~d0.is_active => d0.is_set /\ w0 = NONE)
      BY <1>1, <1>2, <2>1, <3>2, Zenon DEF FdGood
    <3>3. CASE ch = G.changed /\ d.events = e /\ d0.is_active /\ d.is_set = TRUE /\ w = e
      BY <1>1, <1>2, <2>1, <2>2, <3>3, Zenon DEF FdGood, ObjectKept, EventsSet
    <3>4. CASE ch = G.changed /\ d.events = e /\ ~d0.is_active /\ d.is_set = FALSE /\ w \in {w0, NONE}
      <4>1. w0 = NONE /\ w = NONE
        BY <1>1, <3>4, Zenon DEF FdGood
      <4>2. d.is_active = d0.is_active /\ d.st = d0.st /\ d.mgr = d0.mgr
        BY <2>2, Zenon DEF EventsSet
      <4> QED
        BY <1>2, <3>4, <4>1, <4>2, Zenon DEF FdGood, ObjectKept
    <3> QED
      BY <2>2, <3>1, <3>2, <3>3, <3>4, Zenon DEF EventsSet
  <2> QED
    BY <1>1, <2>2, <2>3, GoodAt DEF R, d0, w0
<1> QED
  BY <1>3, <1>4

(* What follows the handler of an fd keeps the agreement of the objects    *)
(* with epoll.                                                             *)
LEMMA EndGood ==
  ASSUME NEW G, FdsGood(G), NEW f \in Fds, NEW hup \in BOOLEAN,
         G.efd[f].mgr, G.efd[f].is_set \/ ~G.efd[f].is_active
  PROVE  FdsGood(fd_dispatch_end(G, f, hup)) /\ FdsKept(fd_dispatch_end(G, f, hup), G)
<1> DEFINE d0 == G.efd[f]
           w0 == G.epoll[f]
           R  == fd_dispatch_end(G, f, hup)
<1>1. G \in FdsType /\ FdGood(d0, w0) /\ d0 \in EfdType
  BY FdsAccess DEF FdsGood
<1>2. PICK d1 \in EfdType, w1 \in Events \cup {NONE}, d \in EfdType, w \in Events \cup {NONE}, cl \in BOOLEAN :
        /\ Ended(d0, w0, d1, w1)
        /\ Puts(R, G, f, d, w, G.changed, cl)
        /\ IF hup /\ d0.auto_unref THEN Unreffed(d1, w1, G.cleanup, d, w, cl)
           ELSE d = d1 /\ w = w1 /\ cl = G.cleanup
  BY <1>1, EndPuts
<1>3. FdGood(d1, w1) /\ ObjectKept(d1, d0) /\ d1.mgr
  <2>1. d1.st = d0.st /\ d1.is_deleted = d0.is_deleted /\ d1.mgr = d0.mgr /\ d1.events = d0.events
    BY <1>2, Zenon DEF Ended
  <2>2. CASE d1.is_set = FALSE /\ d1.is_active = FALSE /\ w1 = NONE
    BY <2>1, <2>2, Zenon DEF FdGood, ObjectKept
  <2>3. CASE d1.is_set = d0.is_set /\ d1.is_active = d0.is_active /\ d1.open = d0.open /\ w1 = w0
    BY <1>1, <2>1, <2>3, Zenon DEF FdGood, ObjectKept
  <2>4. CASE d0.is_set = FALSE /\ d1.is_set = FALSE /\ d1.is_active = d0.is_active /\ w1 \in {w0, NONE}
    <3>1. w0 = NONE /\ w1 = NONE /\ ~d0.is_active
      BY <1>1, <2>4, Zenon DEF FdGood
    <3> QED
      BY <2>1, <2>4, <3>1, Zenon DEF FdGood, ObjectKept
  <2> QED
    BY <1>2, <2>1, <2>2, <2>3, <2>4, Zenon DEF Ended
<1>4. FdGood(d, w) /\ ObjectKept(d, d0)
  <2>1. CASE hup /\ d0.auto_unref
    <3>1. FdGood(d, w) /\ ObjectKept(d, d1)
      BY <1>2, <1>3, <2>1, UnreffedGood
    <3> QED
      BY <1>3, <3>1, Zenon DEF ObjectKept
  <2>2. CASE ~(hup /\ d0.auto_unref)
    BY <1>2, <1>3, <2>2
  <2> QED
    BY <2>1, <2>2
<1> QED
  BY <1>1, <1>2, <1>4, GoodAt

(* The objects other than f are the same.                                  *)
OtherFdsSame(H, G, f) == \A g \in Fds : g # f => H.efd[g] = G.efd[g]

(* The object lives and has a manager.                                     *)
OwnedFd(H, f) == H.efd[f].st = "live" /\ H.efd[f].mgr

(* ev_mgr_add_fd adds an object that agrees with epoll, and the manager    *)
(* has something to prepare.                                               *)
LEMMA AddGood ==
  ASSUME NEW G, FdsGood(G), NEW f \in Fds, G.efd[f].st = "none",
         NEW e \in Events, NEW au \in BOOLEAN, NEW ac \in BOOLEAN
  PROVE  /\ FdsGood(ev_mgr_add_fd(G, f, e, au, ac)) /\ ev_mgr_add_fd(G, f, e, au, ac).changed = TRUE
         /\ OwnedFd(ev_mgr_add_fd(G, f, e, au, ac), f)
         /\ OtherFdsSame(ev_mgr_add_fd(G, f, e, au, ac), G, f)
<1> DEFINE H == ev_mgr_add_fd(G, f, e, au, ac)
<1> SUFFICES /\ FdsGood(H) /\ H.changed = TRUE
             /\ OwnedFd(H, f)
             /\ OtherFdsSame(H, G, f)
  OBVIOUS
<1>1. G \in FdsType /\ \A g \in Fds : FdGood(G.efd[g], G.epoll[g])
  BY DEF FdsGood
<1>2. PICK d \in EfdType :
        /\ Puts(H, G, f, d, G.epoll[f], TRUE, G.cleanup)
        /\ d.st = "live" /\ d.is_deleted = FALSE /\ d.mgr = TRUE
        /\ d.is_active = TRUE /\ d.is_set = FALSE /\ d.open = TRUE
  BY <1>1, AddPuts, Zenon
<1> HIDE DEF H
<1>3. G.epoll[f] = NONE
  <2>1. G.efd[f].st # "live"
    OBVIOUS
  <2> QED
    BY <1>1, <2>1, Zenon DEF FdGood
<1>4. FdGood(d, G.epoll[f])
  BY <1>2, <1>3, Zenon DEF FdGood
<1>5. H \in FdsType /\ H.changed = TRUE /\ H.efd[f] = d /\ H.epoll[f] = G.epoll[f]
      /\ \A g \in Fds : g # f => H.efd[g] = G.efd[g] /\ H.epoll[g] = G.epoll[g]
  BY <1>2, Zenon DEF Puts
<1>6. \A g \in Fds : FdGood(H.efd[g], H.epoll[g])
  BY <1>1, <1>4, <1>5, Zenon
<1> QED
  BY <1>2, <1>5, <1>6, Zenon DEF FdsGood, OwnedFd, OtherFdsSame

(* After efds_prepare without failure every active object is set.          *)
LEMMA PrepareGood ==
  ASSUME NEW G, FdsGood(G), \A f \in Fds : G.efd[f].st = "live" => G.efd[f].mgr,
         ~G.changed => \A f \in Fds : G.efd[f].is_active => G.efd[f].is_set,
         NEW H, H = efds_prepare(G, {})
  PROVE  /\ FdsGood(H) /\ \A f \in Fds : ObjectKept(H.efd[f], G.efd[f])
         /\ \A f \in Fds : H.efd[f].is_active => H.efd[f].is_set
<1>1. G \in FdsType /\ \A f \in Fds : FdGood(G.efd[f], G.epoll[f]) /\ G.efd[f] \in EfdType
  BY FdsAccess DEF FdsGood
<1>2. H \in FdsType /\ \A f \in Fds : PreparedFd(H, G, f, {})
  <2>1. {} \in SUBSET LiveFds(G)
    OBVIOUS
  <2> QED
    BY <1>1, <2>1, PrepareFields, Zenon
<1>3. ASSUME NEW f \in Fds
      PROVE  /\ FdGood(H.efd[f], H.epoll[f]) /\ ObjectKept(H.efd[f], G.efd[f])
             /\ H.efd[f].is_active => H.efd[f].is_set
  <2>1. FdGood(G.efd[f], G.epoll[f]) /\ G.efd[f].is_set \in BOOLEAN /\ G.efd[f].is_active \in BOOLEAN
    BY <1>1, Zenon DEF EfdType
  <2>2. CASE H.efd[f] = G.efd[f] /\ H.epoll[f] = G.epoll[f] /\ (G.changed => G.efd[f].st # "live")
    BY <2>1, <2>2, Zenon DEF FdGood, ObjectKept
  <2>3. CASE Prepared(G.efd[f], G.epoll[f], H.efd[f], H.epoll[f])
    <3> DEFINE d0 == G.efd[f]
               w0 == G.epoll[f]
               d  == H.efd[f]
               w  == H.epoll[f]
    <3> HIDE DEF d0, w0, d, w
    <3>1. /\ d.is_deleted = d0.is_deleted /\ d.events = d0.events /\ d.is_active = d0.is_active
          /\ d.st = d0.st /\ d.mgr = d0.mgr /\ d.open = d0.open /\ d.is_set = d0.is_active
      BY <2>3, Zenon DEF Prepared, SameObject, d0, w0, d, w
    <3>2. FdGood(d0, w0) /\ (d0.st = "live" => d0.mgr)
      BY <2>1 DEF d0, w0
    <3>3. CASE d0.is_active
      <4>1. d0.open /\ d0.mgr /\ ~d0.is_deleted /\ d0.st = "live"
        BY <3>2, <3>3, Zenon DEF FdGood
      <4>2. w = d0.events
        <5>1. CASE ~d0.is_set
          <6>1. w0 = NONE
            BY <3>2, <5>1, Zenon DEF FdGood
          <6>2. w = IF d0.open /\ w0 = NONE THEN d0.events ELSE w0
            BY <2>3, <3>3, <5>1, Zenon DEF Prepared, d0, w0, d, w
          <6> QED
            BY <4>1, <6>1, <6>2
        <5>2. CASE d0.is_set
          <6>1. w0 = d0.events
            BY <3>2, <4>1, <5>2, Zenon DEF FdGood
          <6>2. w \in {w0, d0.events}
            BY <2>3, <3>3, <5>2, Zenon DEF Prepared, d0, w0, d, w
          <6> QED
            BY <6>1, <6>2
        <5> QED
          BY <5>1, <5>2
      <4>3. d0.events # NONE
        <5>1. d0.events \in Events
          BY <1>1, Zenon DEF EfdType, d0
        <5> QED
          BY <5>1, EventsAssumption
      <4> QED
        BY <3>1, <3>3, <4>1, <4>2, <4>3, Zenon DEF FdGood, ObjectKept, d0, d, w
    <3>4. CASE ~d0.is_active
      <4>1. ~d0.is_set /\ w0 = NONE
        BY <3>2, <3>4, Zenon DEF FdGood
      <4>2. w = w0
        BY <2>3, <3>4, <4>1, Zenon DEF Prepared, d0, w0, d, w
      <4> QED
        BY <3>1, <3>4, <4>1, <4>2, Zenon DEF FdGood, ObjectKept, d0, d, w
    <3> QED
      BY <3>3, <3>4
  <2> QED
    BY <1>2, <2>2, <2>3, Zenon DEF PreparedFd
<1> QED
  BY <1>2, <1>3, Zenon DEF FdsGood

(* efds_cleanup keeps the agreement of the objects with epoll.             *)
LEMMA CleanupGood ==
  ASSUME NEW G, FdsGood(G), NEW H, H = efds_cleanup(G)
  PROVE  FdsGood(H) /\ FdsKept(H, G)
<1>1. G \in FdsType /\ \A f \in Fds : FdGood(G.efd[f], G.epoll[f]) /\ G.efd[f] \in EfdType
  BY FdsAccess DEF FdsGood
<1>2. H \in FdsType /\ H.changed = G.changed /\ \A f \in Fds : CleanedUp(H, G, f)
  BY <1>1, CleanupFields, Zenon
<1>3. ASSUME NEW f \in Fds
      PROVE  FdGood(H.efd[f], H.epoll[f]) /\ ObjectKept(H.efd[f], G.efd[f])
  <2>1. CASE H.efd[f] = G.efd[f] /\ H.epoll[f] = G.epoll[f]
    BY <1>1, <2>1, Zenon DEF ObjectKept
  <2>2. CASE ~(H.efd[f] = G.efd[f] /\ H.epoll[f] = G.epoll[f])
    <3>1. /\ SameObject(H.efd[f], G.efd[f]) /\ H.efd[f].st = "freed"
          /\ H.efd[f].mgr = G.efd[f].mgr /\ H.efd[f].is_set = G.efd[f].is_set
          /\ G.efd[f].st = "live" /\ G.efd[f].is_deleted
          /\ H.epoll[f] = NONE \/ (H.epoll[f] = G.epoll[f] /\ ~G.efd[f].is_set)
      BY <1>2, <2>2, Zenon DEF CleanedUp
    <3>2. ~G.efd[f].is_active /\ ~G.efd[f].is_set /\ G.epoll[f] = NONE
      BY <1>1, <3>1, Zenon DEF FdGood
    <3>3. ~H.efd[f].is_active /\ ~H.efd[f].is_set /\ H.epoll[f] = NONE
      BY <3>1, <3>2, Zenon DEF SameObject
    <3>4. H.efd[f].st # "live" /\ H.efd[f].st # "none"
      BY <3>1
    <3> QED
      BY <3>3, <3>4, Zenon DEF FdGood, ObjectKept
  <2> QED
    BY <2>1, <2>2
<1> QED
  BY <1>2, <1>3, Zenon DEF FdsGood, FdsKept

(* The end of the manager keeps the agreement of the objects with epoll.   *)
LEMMA OrphanGood ==
  ASSUME NEW G, FdsGood(G), NEW H, H = OrphanFds(G)
  PROVE  /\ FdsGood(H) /\ H.changed = G.changed
         /\ \A f \in Fds : /\ H.efd[f].st = G.efd[f].st
                           /\ H.efd[f].is_active = G.efd[f].is_active
                           /\ H.efd[f].is_set = G.efd[f].is_set
<1>1. G \in FdsType /\ \A f \in Fds : FdGood(G.efd[f], G.epoll[f])
  BY DEF FdsGood
<1>2. /\ H \in FdsType /\ H.changed = G.changed
      /\ \A f \in Fds : /\ H.epoll[f] = NONE /\ SameObject(H.efd[f], G.efd[f])
                        /\ H.efd[f].st = G.efd[f].st /\ H.efd[f].mgr = FALSE
                        /\ H.efd[f].is_set = G.efd[f].is_set /\ H.efd[f].open = G.efd[f].open
  BY <1>1, OrphanFields, ZenonT(60)
<1>3. ASSUME NEW f \in Fds PROVE FdGood(H.efd[f], H.epoll[f])
  <2>1. FdGood(G.efd[f], G.epoll[f])
    BY <1>1
  <2>2. /\ H.epoll[f] = NONE /\ H.efd[f].mgr = FALSE /\ H.efd[f].st = G.efd[f].st
        /\ H.efd[f].is_set = G.efd[f].is_set /\ H.efd[f].open = G.efd[f].open
        /\ H.efd[f].is_active = G.efd[f].is_active /\ H.efd[f].is_deleted = G.efd[f].is_deleted
    BY <1>2, Zenon DEF SameObject
  <2> QED
    BY <2>1, <2>2, Zenon DEF FdGood
<1> QED
  BY <1>2, <1>3, Zenon DEF FdsGood, SameObject

(* A new manager has no object and agrees with epoll.                      *)
LEMMA NoFdsGood == FdsGood(NoFds) /\ \A f \in Fds : NoFds.efd[f].st = "none" /\ ~NoFds.efd[f].is_active
<1> DEFINE e == CHOOSE e \in Events : TRUE
<1>1. e \in Events
  BY EventsAssumption
<1> HIDE DEF e
<1>2. NoEfd(e) \in EfdType
  BY <1>1, ZeroIsCount, Zenon DEF EfdType, NoEfd
<1>3. FdGood(NoEfd(e), NONE) /\ NoEfd(e).st = "none" /\ ~NoEfd(e).is_active
  BY Zenon DEF FdGood, NoEfd
<1> DEFINE d == NoEfd(e)
<1> HIDE DEF d
<1>4. d \in EfdType /\ FdGood(d, NONE) /\ d.st = "none" /\ ~d.is_active
  BY <1>2, <1>3 DEF d
<1> DEFINE ep == [f \in Fds |-> NONE]
<1>5. ep \in [Fds -> Events \cup {NONE}] /\ \A f \in Fds : ep[f] = NONE
  OBVIOUS
<1> HIDE DEF ep
<1>6. NoFds = [efd |-> [f \in Fds |-> d], epoll |-> ep, changed |-> FALSE, cleanup |-> FALSE]
  BY DEF NoFds, d, e, ep
<1> QED
  BY <1>4, <1>5, <1>6, Zenon DEF FdsGood, FdsType

(* An active object that epoll does not watch yet is announced by the mark *)
(* of changes: efds_prepare will find it.                                  *)
Told == ~F.changed => \A f \in Fds : F.efd[f].is_active => F.efd[f].is_set

(* As long as there is a manager, the live objects are its own.            *)
Owned == refcount # 0 => \A f \in Fds : F.efd[f].st = "live" => F.efd[f].mgr

(* The loop has the event of an fd in hand: received and not dispatched,   *)
(* or in its handler.                                                      *)
AtEvent == (state = "Pending" \/ pc = "fdcb") /\ event.ptr \in Fds

(* The object whose event is in hand was added, and is set unless it was   *)
(* disabled meanwhile.                                                     *)
Dispatched ==
  AtEvent => /\ F.efd[event.ptr].st # "none"
             /\ F.efd[event.ptr].is_set \/ ~F.efd[event.ptr].is_active

(* The event in hand is that of an fd, of the timerfd or of nothing.       *)
EventType == event \in [ptr : Fds \cup {TIMER, NONE}, hup : BOOLEAN] /\ (pc = "fdcb" => event.ptr \in Fds)

(* The inductive invariant behind EpollAgrees.                             *)
EpollInv == FdsGood(F) /\ Told /\ Owned /\ Dispatched /\ EventType

(* It holds at first.                                                      *)
LEMMA EpollInit == Init => EpollInv
<1> SUFFICES ASSUME Init PROVE EpollInv
  OBVIOUS
<1>1. F = NoFds /\ state = "Idle" /\ pc = "out" /\ event = [ptr |-> NONE, hup |-> FALSE]
  BY DEF Init, NoEvent
<1>2. FdsGood(F) /\ \A f \in Fds : F.efd[f].st = "none" /\ ~F.efd[f].is_active
  BY <1>1, NoFdsGood
<1> QED
  BY <1>1, <1>2 DEF EpollInv, Told, Owned, Dispatched, AtEvent, EventType

(* It implies the property.                                                *)
LEMMA EpollImplies == EpollInv => EpollAgrees
<1> SUFFICES ASSUME EpollInv PROVE EpollAgrees
  OBVIOUS
<1>1. \A f \in Fds : FdGood(F.efd[f], F.epoll[f]) /\ F.efd[f].events \in Events
  <2>1. F \in FdsType /\ \A f \in Fds : FdGood(F.efd[f], F.epoll[f])
    BY DEF EpollInv, FdsGood
  <2> QED
    BY <2>1, FdsAccess, Zenon DEF EfdType
<1>2. DeletedNotWatched
  BY <1>1, Zenon DEF DeletedNotWatched, St, FdGood
<1>3. IsSetInEpoll
  BY <1>1, Zenon DEF IsSetInEpoll, FdGood, LiveFds
<1>4. WatchesWhatIsAsked
  <2> SUFFICES ASSUME ~F.changed, refcount # 0, NEW f \in Fds, F.efd[f].st = "live"
               PROVE  F.epoll[f] = IF F.efd[f].is_active THEN F.efd[f].events ELSE NONE
    BY DEF WatchesWhatIsAsked, LiveFds
  <2>1. F.efd[f].mgr /\ (F.efd[f].is_active => F.efd[f].is_set)
    BY DEF EpollInv, Told, Owned
  <2> QED
    BY <1>1, <2>1, Zenon DEF FdGood
<1> QED
  BY <1>2, <1>3, <1>4 DEF EpollAgrees

(* A step that changes nothing but what other parts are made of.           *)
LEMMA EpollSame ==
  ASSUME EpollInv, F' = F, event' = event, state' = "Pending" => state = "Pending", pc' = "fdcb" => pc = "fdcb",
         refcount' # 0 => refcount # 0
  PROVE  EpollInv'
BY Zenon DEF EpollInv, FdsGood, Told, Owned, Dispatched, AtEvent, EventType

(* An operation on the fd objects keeps it when it keeps the agreement     *)
(* with epoll.                                                             *)
LEMMA EpollKept ==
  ASSUME EpollInv, FdsGood(F'), FdsKept(F', F), event' = event,
         state' = "Pending" => state = "Pending", pc' = "fdcb" => pc = "fdcb",
         refcount' # 0 => refcount # 0
  PROVE  EpollInv'
<1>1. /\ ~F'.changed => ~F.changed
      /\ \A f \in Fds : ObjectKept(F'.efd[f], F.efd[f])
  BY DEF FdsKept
<1>2. Told'
  <2> SUFFICES ASSUME ~F'.changed, NEW f \in Fds, F'.efd[f].is_active PROVE F'.efd[f].is_set
    BY DEF Told
  <2>1. F.efd[f].is_active => F.efd[f].is_set
    BY <1>1 DEF EpollInv, Told
  <2> QED
    BY <1>1, <2>1, Zenon DEF ObjectKept
<1>3. Owned'
  <2> SUFFICES ASSUME refcount' # 0, NEW f \in Fds, F'.efd[f].st = "live" PROVE F'.efd[f].mgr
    BY DEF Owned
  <2>1. F.efd[f].st = "live" => F.efd[f].mgr
    BY DEF EpollInv, Owned
  <2> QED
    BY <1>1, <2>1, Zenon DEF ObjectKept
<1>4. Dispatched'
  <2> SUFFICES ASSUME AtEvent'
               PROVE  /\ F'.efd[event.ptr].st # "none"
                      /\ F'.efd[event.ptr].is_set \/ ~F'.efd[event.ptr].is_active
    BY DEF Dispatched
  <2>1. AtEvent
    BY DEF AtEvent
  <2>2. /\ F.efd[event.ptr].st # "none" /\ event.ptr \in Fds
        /\ F.efd[event.ptr].is_set \/ ~F.efd[event.ptr].is_active
    BY <2>1 DEF EpollInv, Dispatched, AtEvent
  <2> QED
    BY <1>1, <2>2, Zenon DEF ObjectKept
<1>5. EventType'
  BY DEF EpollInv, EventType
<1> QED
  BY <1>2, <1>3, <1>4, <1>5 DEF EpollInv

(* ev_mgr_add_fd keeps it.                                                 *)
LEMMA EpollAddFd == EpollInv /\ AddFd => EpollInv'
<1> SUFFICES ASSUME EpollInv, AddFd PROVE EpollInv'
  OBVIOUS
<1>1. PICK f \in Fds, e \in Events, a \in FdArgs :
        F.efd[f].st = "none" /\ F' = ev_mgr_add_fd(F, f, e, a.aunref, a.aclose)
  BY DEF AddFd
<1>2. a.aunref \in BOOLEAN /\ a.aclose \in BOOLEAN
  BY FdArgsAssumption
<1>3. FdsGood(F)
  BY DEF EpollInv
<1>4. /\ FdsGood(F') /\ F'.changed = TRUE
      /\ F'.efd[f].st = "live" /\ F'.efd[f].mgr
      /\ \A g \in Fds : g # f => F'.efd[g] = F.efd[g]
  <2> DEFINE H == ev_mgr_add_fd(F, f, e, a.aunref, a.aclose)
  <2>1. FdsGood(H) /\ H.changed = TRUE /\ OwnedFd(H, f) /\ OtherFdsSame(H, F, f)
    <3>1. F.efd[f].st = "none"
      BY <1>1
    <3> QED
      BY <1>2, <1>3, <3>1, AddGood, Zenon
  <2>2. F' = H
    BY <1>1
  <2> HIDE DEF H
  <2> QED
    BY <2>1, <2>2, Zenon DEF OwnedFd, OtherFdsSame
<1>5. event' = event /\ state' = state /\ pc' = pc /\ refcount' = refcount
  BY DEF AddFd, LoopSame
<1>6. Owned'
  <2>1. \A g \in Fds : g # f => F'.efd[g] = F.efd[g]
    BY <1>4
  <2> QED
    BY <1>4, <1>5, <2>1, Zenon DEF EpollInv, Owned
<1>7. Dispatched' /\ EventType'
  BY <1>1, <1>4, <1>5, Zenon DEF EpollInv, Dispatched, AtEvent, EventType
<1>8. Told'
  BY <1>4 DEF Told
<1> QED
  BY <1>4, <1>6, <1>7, <1>8 DEF EpollInv

(* The client's other operations on fd objects keep it.                    *)
LEMMA EpollFdOps ==
  ASSUME EpollInv, CtlMayFail = FALSE, FdAddref \/ FdUnref \/ FdSetEvents
  PROVE  EpollInv'
<1>1. FdsGood(F)
  BY DEF EpollInv
<1>2. CASE FdAddref
  <2>1. PICK f \in Fds : F' = ev_fd_addref(F, f)
    BY <1>2 DEF FdAddref
  <2>2. event' = event /\ state' = state /\ pc' = pc /\ refcount' = refcount
    BY <1>2 DEF FdAddref, LoopSame
  <2> QED
    BY <1>1, <2>1, <2>2, AddrefGood, EpollKept
<1>3. CASE FdUnref
  <2>1. PICK f \in Fds : IF UnrefIsFault(F, f) THEN F' = F ELSE F' = ev_fd_unref(F, f)
    BY <1>3, Zenon DEF FdUnref
  <2>2. event' = event /\ state' = state /\ pc' = pc /\ refcount' = refcount
    BY <1>3 DEF FdUnref, LoopSame
  <2>3. CASE UnrefIsFault(F, f)
    BY <2>1, <2>2, <2>3, EpollSame
  <2>4. CASE ~UnrefIsFault(F, f)
    BY <1>1, <2>1, <2>2, <2>4, UnrefGood, EpollKept
  <2> QED
    BY <2>3, <2>4
<1>4. CASE FdSetEvents
  <2>1. PICK f \in Fds, e \in Events :
          IF SetEventsIsFault(F, f, e) THEN F' = F ELSE F' = ev_fd_set_events(F, f, e, FALSE)
    BY <1>4, Zenon DEF FdSetEvents
  <2>2. event' = event /\ state' = state /\ pc' = pc /\ refcount' = refcount
    BY <1>4 DEF FdSetEvents, LoopSame
  <2>3. CASE SetEventsIsFault(F, f, e)
    BY <2>1, <2>2, <2>3, EpollSame
  <2>4. CASE ~SetEventsIsFault(F, f, e)
    BY <1>1, <2>1, <2>2, <2>4, SetEventsGood, EpollKept
  <2> QED
    BY <2>3, <2>4
<1> QED
  BY <1>2, <1>3, <1>4

(* ev_mgr_unref keeps it, also when the manager ends.                      *)
LEMMA EpollMgrUnref == EpollInv /\ ev_mgr_unref => EpollInv'
<1> SUFFICES ASSUME EpollInv, ev_mgr_unref PROVE EpollInv'
  OBVIOUS
<1>1. FdsGood(F)
  BY DEF EpollInv
<1>2. event' = event /\ state' = state /\ pc' = pc /\ refcount # 0 /\ refcount' = refcount - 1
  BY DEF ev_mgr_unref, LoopSame
<1> DEFINE G == efds_cleanup(F)
<1>3. FdsGood(G) /\ FdsKept(G, F)
  BY <1>1, CleanupGood
<1>4. CASE refcount # 1
  <2>1. F' = G
    BY <1>4, Zenon DEF ev_mgr_unref
  <2> QED
    BY <1>2, <1>3, <2>1, EpollKept
<1>5. CASE refcount = 1
  <2>1. F' = OrphanFds(G)
    BY <1>5, Zenon DEF ev_mgr_unref
  <2>2. refcount' = 0
    BY <1>2, <1>5
  <2> HIDE DEF G
  <2>3. /\ FdsGood(F') /\ F'.changed = G.changed
        /\ \A f \in Fds : /\ F'.efd[f].st = G.efd[f].st
                          /\ F'.efd[f].is_active = G.efd[f].is_active
                          /\ F'.efd[f].is_set = G.efd[f].is_set
    BY <1>3, <2>1, OrphanGood
  <2>4. (~G.changed => ~F.changed) /\ \A f \in Fds : ObjectKept(G.efd[f], F.efd[f])
    BY <1>3 DEF FdsKept
  <2>5. Told'
    BY <2>3, <2>4, Zenon DEF EpollInv, Told, ObjectKept
  <2>6. Owned'
    BY <2>2 DEF Owned
  <2>7. Dispatched'
    <3> SUFFICES ASSUME AtEvent'
                 PROVE  /\ F'.efd[event.ptr].st # "none"
                        /\ F'.efd[event.ptr].is_set \/ ~F'.efd[event.ptr].is_active
      BY <1>2 DEF Dispatched
    <3>1. event.ptr \in Fds /\ AtEvent
      BY <1>2 DEF AtEvent
    <3>2. /\ F.efd[event.ptr].st # "none"
          /\ F.efd[event.ptr].is_set \/ ~F.efd[event.ptr].is_active
      BY <3>1 DEF EpollInv, Dispatched
    <3> QED
      BY <2>3, <2>4, <3>1, <3>2, Zenon DEF ObjectKept
  <2>8. EventType'
    BY <1>2 DEF EpollInv, EventType
  <2> QED
    BY <2>3, <2>5, <2>6, <2>7, <2>8 DEF EpollInv
<1> QED
  BY <1>4, <1>5

(* The end of the preparation, where efds_prepare runs, keeps it.          *)
LEMMA EpollEndPrepare ==
  ASSUME EpollInv, CtlMayFail = FALSE, NEW G, FdsGood(G), FdsKept(G, F), NEW U, NEW up,
         EndPrepare(G, U, up), refcount # 0, refcount' = refcount, event' = event
  PROVE  EpollInv'
<1>1. F' = efds_prepare(G, {}) /\ state' = "Ready" /\ pc' = "out"
  BY Zenon DEF EndPrepare
<1>2. /\ ~G.changed => ~F.changed
      /\ \A f \in Fds : ObjectKept(G.efd[f], F.efd[f])
  BY DEF FdsKept
<1>3. \A f \in Fds : G.efd[f].st = "live" => G.efd[f].mgr
  BY <1>2, Zenon DEF EpollInv, Owned, ObjectKept
<1>4. ~G.changed => \A f \in Fds : G.efd[f].is_active => G.efd[f].is_set
  BY <1>2, Zenon DEF EpollInv, Told, ObjectKept
<1>5. /\ FdsGood(F') /\ \A f \in Fds : ObjectKept(F'.efd[f], G.efd[f])
      /\ \A f \in Fds : F'.efd[f].is_active => F'.efd[f].is_set
  BY <1>1, <1>3, <1>4, PrepareGood
<1>6. Told'
  BY <1>5 DEF Told
<1>7. Owned'
  BY <1>3, <1>5, Zenon DEF Owned, ObjectKept
<1>8. Dispatched' /\ EventType'
  BY <1>1 DEF Dispatched, AtEvent, EventType, EpollInv
<1> QED
  BY <1>5, <1>6, <1>7, <1>8 DEF EpollInv

(* The beginning of the preparation keeps it.                              *)
LEMMA EpollDoPrepare ==
  ASSUME EpollInv, CtlMayFail = FALSE, NEW up, do_prepare(up)
  PROVE  EpollInv'
<1> DEFINE G == efds_cleanup(F)
           U == timers_cleanup(T)
           p == NextPreparer(preparers_cleanup(P), NONE)
<1>1. FdsGood(G) /\ FdsKept(G, F)
  BY CleanupGood DEF EpollInv
<1>2. refcount # 0 /\ refcount' = refcount /\ event' = event
  BY DEF do_prepare, Running
<1>3. \/ EndPrepare(G, U, up)
      \/ F' = G /\ state' = "Preparing" /\ pc' = "prep"
  BY Zenon DEF do_prepare
<1> HIDE DEF G, U
<1>4. CASE EndPrepare(G, U, up)
  BY <1>1, <1>2, <1>4, EpollEndPrepare
<1>5. CASE F' = G /\ state' = "Preparing" /\ pc' = "prep"
  BY <1>1, <1>2, <1>5, EpollKept
<1> QED
  BY <1>3, <1>4, <1>5

(* The return of the handler of a preparer keeps it.                       *)
LEMMA EpollPreparerReturns ==
  ASSUME EpollInv, CtlMayFail = FALSE, PreparerReturns
  PROVE  EpollInv'
<1>1. refcount # 0 /\ refcount' = refcount /\ event' = event
  BY DEF PreparerReturns, Running
<1>2. \/ EndPrepare(F, T, upper)
      \/ F' = F /\ state' = state /\ pc' = pc
  BY Zenon DEF PreparerReturns
<1>3. FdsGood(F) /\ FdsKept(F, F)
  BY Zenon DEF EpollInv, FdsKept, ObjectKept
<1>4. CASE EndPrepare(F, T, upper)
  BY <1>1, <1>3, <1>4, EpollEndPrepare
<1>5. CASE F' = F /\ state' = state /\ pc' = pc
  BY <1>1, <1>5, EpollSame
<1> QED
  BY <1>2, <1>4, <1>5

(* epoll_wait returns an event of an object that is set.                   *)
LEMMA EpollWaitEvent == EpollInv /\ WaitEvent => EpollInv'
<1> SUFFICES ASSUME EpollInv, WaitEvent PROVE EpollInv'
  OBVIOUS
<1>1. F' = F /\ refcount' = refcount /\ pc' = "out"
  BY DEF WaitEvent, Return
<1>2. \/ event' = [ptr |-> TIMER, hup |-> FALSE]
      \/ \E f \in Fds, hup \in BOOLEAN : F.epoll[f] # NONE /\ event' = [ptr |-> f, hup |-> hup]
  BY Zenon DEF WaitEvent, Return
<1>3. EventType'
  <2>1. CASE event' = [ptr |-> TIMER, hup |-> FALSE]
    BY <1>1, <2>1 DEF EventType
  <2>2. CASE \E f \in Fds, hup \in BOOLEAN : event' = [ptr |-> f, hup |-> hup]
    BY <1>1, <2>2 DEF EventType
  <2> QED
    BY <1>2, <2>1, <2>2
<1>4. Dispatched'
  <2>1. CASE event' = [ptr |-> TIMER, hup |-> FALSE]
    BY <2>1, TimerAssumption DEF Dispatched, AtEvent
  <2>2. ASSUME NEW f \in Fds, NEW hup \in BOOLEAN, F.epoll[f] # NONE, event' = [ptr |-> f, hup |-> hup]
        PROVE  Dispatched'
    <3>1. FdGood(F.efd[f], F.epoll[f])
      BY DEF EpollInv, FdsGood
    <3>2. F.efd[f].is_set /\ F.efd[f].st = "live"
      BY <2>2, <3>1, Zenon DEF FdGood
    <3>3. event'.ptr = f
      BY <2>2
    <3> QED
      BY <1>1, <3>2, <3>3, Zenon DEF Dispatched
  <2> QED
    BY <1>2, <2>1, <2>2
<1>5. FdsGood(F') /\ Told' /\ Owned'
  BY <1>1, Zenon DEF EpollInv, Told, Owned
<1> QED
  BY <1>3, <1>4, <1>5 DEF EpollInv

(* The call of the handler of an fd keeps it.                              *)
LEMMA EpollDispatchFd == EpollInv /\ DispatchFd => EpollInv'
<1> SUFFICES ASSUME EpollInv, DispatchFd PROVE EpollInv'
  OBVIOUS
<1>1. F' = F /\ refcount' = refcount /\ event' = event /\ event.ptr \in Fds /\ state = "Pending"
  BY DEF DispatchFd
<1> QED
  BY <1>1, Zenon DEF EpollInv, FdsGood, Told, Owned, Dispatched, AtEvent, EventType

(* The return of the handler of an fd keeps it, with the automatic close   *)
(* and unref.                                                              *)
LEMMA EpollFdReturns == EpollInv /\ FdReturns => EpollInv'
<1> SUFFICES ASSUME EpollInv, FdReturns PROVE EpollInv'
  OBVIOUS
<1>1. refcount # 0 /\ refcount' = refcount /\ event' = event /\ pc = "fdcb"
  BY DEF FdReturns, Running
<1> DEFINE f == event.ptr
<1>2. FdsGood(F) /\ f \in Fds /\ event.hup \in BOOLEAN
      /\ (F.efd[f].st = "live" => F.efd[f].mgr) /\ (F.efd[f].is_set \/ ~F.efd[f].is_active)
  BY <1>1, Zenon DEF EpollInv, EventType, Owned, Dispatched, AtEvent
<1>3. \/ F' = F /\ state' = state /\ pc' = pc
      \/ /\ F.efd[f].st = "live" /\ F' = fd_dispatch_end(F, f, event.hup)
         /\ state' = "Idle" /\ pc' = "out"
  BY Zenon DEF FdReturns
<1> HIDE DEF f
<1>4. CASE F' = F /\ state' = state /\ pc' = pc
  BY <1>1, <1>4, EpollSame
<1>5. CASE F.efd[f].st = "live" /\ F' = fd_dispatch_end(F, f, event.hup) /\ state' = "Idle" /\ pc' = "out"
  BY <1>1, <1>2, <1>5, EndGood, EpollKept
<1> QED
  BY <1>3, <1>4, <1>5

(* The actions that do not touch the fd objects keep it.                   *)
LEMMA EpollOthers ==
  ASSUME EpollInv,
         \/ ev_mgr_wait \/ timer_event \/ TimerReturns \/ Tick
         \/ AddPrepare \/ PrepareAddref \/ PrepareUnref
         \/ AddTimer \/ TimerAddref \/ TimerUnref
         \/ ev_mgr_addref \/ ev_mgr_wakeup \/ ev_mgr_recover_run \/ UNCHANGED vars
  PROVE  EpollInv'
<1>1. /\ F' = F /\ event' = event /\ (refcount' # 0 => refcount # 0)
  <2>1. CASE ev_mgr_addref
    <3>1. refcount # 0
      BY <2>1, BoundsAssumption DEF ev_mgr_addref
    <3> QED
      BY <2>1, <3>1 DEF ev_mgr_addref, LoopSame
  <2>2. CASE ~ev_mgr_addref
    BY <2>2, Zenon
       DEF ev_mgr_wait, timer_event, TimerReturns, Tick, AddPrepare, PrepareAddref, PrepareUnref,
           AddTimer, TimerAddref, TimerUnref, ev_mgr_wakeup, ev_mgr_recover_run, vars, LoopSame
  <2> QED
    BY <2>1, <2>2
<1>2. (state' = "Pending" => state = "Pending") /\ (pc' = "fdcb" => pc = "fdcb")
  BY DEF ev_mgr_wait, timer_event, TimerReturns, Continue, Tick, AddPrepare, PrepareAddref, PrepareUnref,
         AddTimer, TimerAddref, TimerUnref, ev_mgr_addref, ev_mgr_wakeup, ev_mgr_recover_run,
         vars, LoopSame
<1> QED
  BY <1>1, <1>2, EpollSame

(* A wait that fails or is woken keeps it.                                 *)
LEMMA EpollWaits == EpollInv /\ (WaitFails \/ WaitWoken) => EpollInv'
<1> SUFFICES ASSUME EpollInv, WaitFails \/ WaitWoken PROVE EpollInv'
  OBVIOUS
<1>1. F' = F /\ refcount' = refcount /\ state' = "Idle" /\ pc' = "out"
  BY DEF WaitFails, WaitWoken, Return
<1>2. event' = [event EXCEPT !.hup = FALSE] \/ event' = NoEvent
  BY DEF WaitFails, WaitWoken, Return
<1>3. event' \in [ptr : Fds \cup {TIMER, NONE}, hup : BOOLEAN]
  <2>1. event \in [ptr : Fds \cup {TIMER, NONE}, hup : BOOLEAN]
    BY DEF EpollInv, EventType
  <2>2. CASE event' = [event EXCEPT !.hup = FALSE]
    BY <2>1, <2>2, Zenon
  <2>3. CASE event' = NoEvent
    BY <2>3, Zenon DEF NoEvent
  <2> QED
    BY <1>2, <2>2, <2>3
<1> QED
  BY <1>1, <1>3, Zenon DEF EpollInv, FdsGood, Told, Owned, Dispatched, AtEvent, EventType

(* For every set of objects and every client: as long as no epoll_ctl      *)
(* fails, what epoll watches is what the fd objects ask for, no deleted    *)
(* object is watched, and the flag is_set tells it. The hypothesis is that *)
(* of the code: a failing EPOLL_CTL_ADD or MOD is reported but never       *)
(* retried (efds_prepare, ev-mgr.c).                                       *)
THEOREM EpollCorrect == CtlMayFail = FALSE => (Spec => []EpollAgrees)
<1> SUFFICES ASSUME CtlMayFail = FALSE PROVE Spec => []EpollAgrees
  OBVIOUS
<1>1. EpollInv /\ [Next]_vars => EpollInv'
  <2> SUFFICES ASSUME EpollInv, [Next]_vars PROVE EpollInv'
    OBVIOUS
  <2>1. CASE ev_mgr_prepare \/ ev_mgr_prepare_with_wakeup
    BY <2>1, EpollDoPrepare DEF ev_mgr_prepare, ev_mgr_prepare_with_wakeup
  <2>2. CASE PreparerReturns
    BY <2>2, EpollPreparerReturns
  <2>3. CASE WaitEvent \/ DispatchFd \/ FdReturns \/ WaitFails \/ WaitWoken
    BY <2>3, EpollWaitEvent, EpollDispatchFd, EpollFdReturns, EpollWaits
  <2>4. CASE AddFd \/ FdAddref \/ FdUnref \/ FdSetEvents
    BY <2>4, EpollAddFd, EpollFdOps
  <2>5. CASE ev_mgr_unref
    BY <2>5, EpollMgrUnref
  <2>6. CASE \/ ev_mgr_wait \/ timer_event \/ TimerReturns \/ Tick
             \/ AddPrepare \/ PrepareAddref \/ PrepareUnref
             \/ AddTimer \/ TimerAddref \/ TimerUnref
             \/ ev_mgr_addref \/ ev_mgr_wakeup \/ ev_mgr_recover_run \/ UNCHANGED vars
    BY <2>6, EpollOthers
  <2> QED
    BY <2>1, <2>2, <2>3, <2>4, <2>5, <2>6 DEF Next, Loop, Client
<1> QED
  BY <1>1, EpollInit, EpollImplies, PTL DEF Spec

(* An object that the client holds r references on; n: the manager lives.  *)
FdHeld(d, w, r, n) ==
  /\ w # NONE => d.st = "live" /\ d.is_active /\ d.is_set
  /\ d.is_active => d.st = "live" /\ ~d.is_deleted
  /\ r > 0 => d.st = "live"
  /\ n # 0 /\ d.st = "live" => d.mgr

(* A live object counts the references of the client, and without any it   *)
(* is to be deleted and the manager will be told.                          *)
FdCounted(d, r, cl) ==
  d.st = "live" => IF r > 0 THEN d.refcount = r /\ ~d.is_deleted
                   ELSE d.is_deleted /\ (d.mgr => cl)

(* All fd objects are held and counted.                                    *)
FdsRefs(G, R, n) ==
  G \in FdsType /\ \A f \in Fds : FdHeld(G.efd[f], G.epoll[f], R[f], n) /\ FdCounted(G.efd[f], R[f], G.cleanup)

(* A change of one object keeps the count of all when it keeps that of     *)
(* this one.                                                               *)
LEMMA RefsAt ==
  ASSUME NEW G \in FdsType, NEW f \in Fds, NEW H, NEW d, NEW w, NEW ch, NEW cl \in BOOLEAN, NEW R, NEW R2, NEW n,
         Puts(H, G, f, d, w, ch, cl), FdsRefs(G, R, n),
         \A g \in Fds : g # f => R2[g] = R[g],
         FdHeld(d, w, R2[f], n), FdCounted(d, R2[f], cl), G.cleanup => cl
  PROVE  FdsRefs(H, R2, n)
<1>1. H \in FdsType /\ H.cleanup = cl /\ H.efd[f] = d /\ H.epoll[f] = w
      /\ \A g \in Fds : g # f => H.efd[g] = G.efd[g] /\ H.epoll[g] = G.epoll[g]
  BY Zenon DEF Puts
<1>2. ASSUME NEW g \in Fds
      PROVE  FdHeld(H.efd[g], H.epoll[g], R2[g], n) /\ FdCounted(H.efd[g], R2[g], H.cleanup)
  <2>1. CASE g = f
    BY <1>1, <2>1
  <2>2. CASE g # f
    <3>1. FdHeld(G.efd[g], G.epoll[g], R[g], n) /\ FdCounted(G.efd[g], R[g], G.cleanup)
      BY DEF FdsRefs
    <3>2. FdCounted(G.efd[g], R[g], cl)
      BY <3>1, Zenon DEF FdCounted
    <3> QED
      BY <1>1, <2>2, <3>1, <3>2
  <2> QED
    BY <2>1, <2>2
<1> QED
  BY <1>1, <1>2, Zenon DEF FdsRefs

(* The client's references fit the counter.                                *)
LEMMA RefMax == MaxRef \in Nat /\ MaxRef >= 1 /\ \A r \in 0 .. MaxRef : r \in 0 .. RefMod - 1 /\ r >= 0
BY RefAssumption, BoundsAssumption

(* Dropping a reference keeps an object held and counted.                  *)
LEMMA UnreffedRefs ==
  ASSUME NEW d0 \in EfdType, NEW d \in EfdType, NEW w0, NEW w, NEW c0 \in BOOLEAN, NEW c \in BOOLEAN, NEW n,
         NEW r0 \in 0 .. MaxRef, NEW r, r = IF r0 > 0 THEN r0 - 1 ELSE r0,
         Unreffed(d0, w0, c0, d, w, c), FdHeld(d0, w0, r0, n), FdCounted(d0, r0, c0)
  PROVE  FdHeld(d, w, r, n) /\ FdCounted(d, r, c) /\ (c0 => c)
<1>1. /\ d.is_set \in BOOLEAN /\ d.is_active \in BOOLEAN /\ d0.is_set \in BOOLEAN /\ d0.mgr \in BOOLEAN
      /\ d0.is_active \in BOOLEAN /\ d.st \in {"none", "live", "freed"} /\ d0.refcount \in 0 .. RefMod - 1
  BY Zenon DEF EfdType
<1>2. r0 \in 0 .. RefMod - 1 /\ (r > 0 => r0 > 0)
  BY RefMax
<1>3. d.mgr = d0.mgr
  BY Zenon DEF Unreffed
<1>4. CASE DecRef(d0.refcount) # 0
  <2>1. /\ d.refcount = DecRef(d0.refcount) /\ w = w0 /\ c = c0
        /\ d.st = d0.st /\ d.is_active = d0.is_active /\ d.is_set = d0.is_set
        /\ d.is_deleted = d0.is_deleted
    BY <1>4, Zenon DEF Unreffed
  <2>2. FdHeld(d, w, r, n)
    BY <1>2, <1>3, <2>1, Zenon DEF FdHeld
  <2>3. CASE r0 > 0
    <3>1. d0.refcount = r0 /\ d0.st = "live" /\ ~d0.is_deleted
      BY <2>3, Zenon DEF FdHeld, FdCounted
    <3>2. DecRef(r0) = r0 - 1 /\ r = r0 - 1
      BY <1>2, <2>3, DecRefType
    <3>3. r # 0 /\ r >= 0
      BY <1>4, <3>1, <3>2, <2>3
    <3>4. r > 0
      BY <3>2, <3>3
    <3>5. d.refcount = r
      BY <2>1, <3>1, <3>2
    <3> QED
      BY <2>1, <2>2, <3>1, <3>4, <3>5, Zenon DEF FdCounted
  <2>4. CASE ~(r0 > 0)
    <3>1. r = r0
      BY <2>4
    <3> QED
      BY <1>3, <2>1, <2>2, <2>4, <3>1, Zenon DEF FdCounted
  <2> QED
    BY <2>3, <2>4
<1>5. CASE DecRef(d0.refcount) = 0
  <2>1. /\ d.is_active = FALSE /\ d.is_deleted = TRUE
        /\ d.st = (IF d0.mgr THEN d0.st ELSE "freed") /\ (d0.mgr => c = TRUE) /\ c \in {c0, TRUE}
    BY <1>5, Zenon DEF Unreffed
  <2>2. w = NONE
    <3>1. CASE d0.is_active /\ d0.is_set /\ w0 # NONE
      BY <1>5, <3>1, Zenon DEF Unreffed
    <3>2. CASE ~(d0.is_active /\ d0.is_set /\ w0 # NONE)
      <4>1. w0 = NONE
        BY <3>2, Zenon DEF FdHeld
      <4>2. w \in {w0, NONE}
        BY <1>5, <3>2, Zenon DEF Unreffed
      <4> QED
        BY <4>1, <4>2
    <3> QED
      BY <3>1, <3>2
  <2>3. ~(r > 0)
    <3>1. CASE r0 > 0
      <4>1. d0.refcount = r0
        BY <3>1, Zenon DEF FdHeld, FdCounted
      <4>2. r0 = 1
        BY <1>2, <1>5, <4>1, DecRefType
      <4> QED
        BY <4>2
    <3>2. CASE ~(r0 > 0)
      BY <3>2
    <3> QED
      BY <3>1, <3>2
  <2>4. d.st = "live" => d0.st = "live" /\ d0.mgr
    BY <2>1
  <2>5. FdHeld(d, w, r, n)
    BY <1>3, <2>1, <2>2, <2>3, <2>4, Zenon DEF FdHeld
  <2>6. FdCounted(d, r, c)
    BY <2>1, <2>3, <2>4, Zenon DEF FdCounted
  <2> QED
    BY <2>1, <2>5, <2>6
<1> QED
  BY <1>4, <1>5

(* ev_fd_unref keeps the fd objects held and counted.                      *)
LEMMA UnrefRefs ==
  ASSUME NEW G, NEW R, NEW R2, NEW n, FdsRefs(G, R, n), NEW f \in Fds, R[f] \in 0 .. MaxRef,
         R2[f] = IF R[f] > 0 THEN R[f] - 1 ELSE R[f], \A g \in Fds : g # f => R2[g] = R[g]
  PROVE  FdsRefs(ev_fd_unref(G, f), R2, n)
<1>1. G \in FdsType /\ FdHeld(G.efd[f], G.epoll[f], R[f], n) /\ FdCounted(G.efd[f], R[f], G.cleanup)
      /\ G.efd[f] \in EfdType /\ G.cleanup \in BOOLEAN
  BY FdsAccess DEF FdsRefs
<1>2. PICK d \in EfdType, w \in Events \cup {NONE}, cl \in BOOLEAN :
        /\ Puts(ev_fd_unref(G, f), G, f, d, w, G.changed, cl)
        /\ Unreffed(G.efd[f], G.epoll[f], G.cleanup, d, w, cl)
  BY <1>1, UnrefPuts
<1> DEFINE r == R2[f]
           r0 == R[f]
<1>3. r0 \in 0 .. MaxRef /\ r = IF r0 > 0 THEN r0 - 1 ELSE r0
  OBVIOUS
<1> HIDE DEF r, r0
<1>4. FdHeld(G.efd[f], G.epoll[f], r0, n) /\ FdCounted(G.efd[f], r0, G.cleanup)
  BY <1>1 DEF r0
<1>5. FdHeld(d, w, r, n) /\ FdCounted(d, r, cl) /\ (G.cleanup => cl)
  BY <1>1, <1>2, <1>3, <1>4, UnreffedRefs
<1>6. FdHeld(d, w, R2[f], n) /\ FdCounted(d, R2[f], cl) /\ (G.cleanup => cl)
  BY <1>5 DEF r
<1> QED
  BY <1>1, <1>2, <1>6, RefsAt

(* ev_fd_addref keeps the fd objects held and counted.                     *)
LEMMA AddrefRefs ==
  ASSUME NEW G, NEW R, NEW R2, NEW n, FdsRefs(G, R, n), NEW f \in Fds, R[f] \in 0 .. MaxRef,
         R[f] > 0, R[f] < MaxRef,
         R2[f] = R[f] + 1, \A g \in Fds : g # f => R2[g] = R[g]
  PROVE  FdsRefs(ev_fd_addref(G, f), R2, n)
<1>1. G \in FdsType /\ FdHeld(G.efd[f], G.epoll[f], R[f], n) /\ FdCounted(G.efd[f], R[f], G.cleanup)
      /\ G.efd[f] \in EfdType /\ G.cleanup \in BOOLEAN
  BY FdsAccess DEF FdsRefs
<1>2. PICK d \in EfdType :
        /\ Puts(ev_fd_addref(G, f), G, f, d, G.epoll[f], G.changed, G.cleanup)
        /\ d.st = G.efd[f].st /\ d.refcount = IncRef(G.efd[f].refcount)
        /\ d.is_deleted = G.efd[f].is_deleted /\ d.mgr = G.efd[f].mgr /\ d.events = G.efd[f].events
        /\ d.is_active = G.efd[f].is_active /\ d.is_set = G.efd[f].is_set /\ d.open = G.efd[f].open
  BY <1>1, AddrefPuts, Zenon
<1>3. G.efd[f].refcount = R[f] /\ ~G.efd[f].is_deleted /\ G.efd[f].st = "live"
  BY <1>1, Zenon DEF FdHeld, FdCounted
<1>4. IncRef(R[f]) = R[f] + 1 /\ R2[f] > 0
  BY RefAssumption, BoundsAssumption DEF IncRef
<1>5. FdHeld(d, G.epoll[f], R2[f], n) /\ FdCounted(d, R2[f], G.cleanup)
  <2>1. d.refcount = R2[f]
    BY <1>2, <1>3, <1>4
  <2> QED
    BY <1>1, <1>2, <1>3, <1>4, <2>1, Zenon DEF FdHeld, FdCounted
<1> QED
  BY <1>1, <1>2, <1>5, RefsAt

(* ev_fd_set_events keeps the fd objects held and counted, whether         *)
(* epoll_ctl fails or not.                                                 *)
LEMMA SetEventsRefs ==
  ASSUME NEW G, NEW R, NEW n, FdsRefs(G, R, n), NEW f \in Fds, NEW e \in Events, NEW bad \in BOOLEAN,
         NEW H, H = ev_fd_set_events(G, f, e, bad)
  PROVE  FdsRefs(H, R, n)
<1> DEFINE d0 == G.efd[f]
           w0 == G.epoll[f]
<1>1. G \in FdsType /\ FdHeld(d0, w0, R[f], n) /\ FdCounted(d0, R[f], G.cleanup)
      /\ d0 \in EfdType /\ G.cleanup \in BOOLEAN
  BY FdsAccess DEF FdsRefs
<1>2. PICK d \in EfdType, w \in Events \cup {NONE}, ch \in BOOLEAN :
        /\ Puts(ev_fd_set_events(G, f, e, bad), G, f, d, w, ch, G.cleanup)
        /\ EventsSet(d0, w0, e, bad, d, w, G.changed, ch)
  BY <1>1, EventsPuts
<1> HIDE DEF d0, w0
<1>3. /\ d.st = d0.st /\ d.refcount = d0.refcount /\ d.is_deleted = d0.is_deleted
      /\ d.mgr = d0.mgr /\ d.is_active = d0.is_active
  BY <1>2, Zenon DEF EventsSet
<1>4. FdCounted(d, R[f], G.cleanup)
  BY <1>1, <1>3, Zenon DEF FdCounted
<1>5. w # NONE => d.st = "live" /\ d.is_active /\ d.is_set
  <2>1. CASE d = d0 /\ w = w0
    BY <1>1, <2>1, Zenon DEF FdHeld
  <2>2. CASE w = w0 /\ d.is_set = d0.is_set
    BY <1>1, <1>3, <2>2, Zenon DEF FdHeld
  <2>3. CASE d0.is_active /\ d.is_set = TRUE /\ w = e
    BY <1>1, <1>3, <2>3, Zenon DEF FdHeld
  <2>4. CASE ~d0.is_active /\ w \in {w0, NONE}
    BY <1>1, <2>4, Zenon DEF FdHeld
  <2> QED
    BY <1>2, <2>1, <2>2, <2>3, <2>4, Zenon DEF EventsSet
<1>6. FdHeld(d, w, R[f], n)
  BY <1>1, <1>3, <1>5, Zenon DEF FdHeld
<1> QED
  BY <1>1, <1>2, <1>4, <1>6, RefsAt DEF d0, w0

(* What follows the handler of an fd keeps them, and the automatic unref   *)
(* takes one of the client's references.                                   *)
LEMMA EndRefs ==
  ASSUME NEW G, NEW R, NEW R2, NEW n, FdsRefs(G, R, n), NEW f \in Fds, NEW hup \in BOOLEAN, R[f] \in 0 .. MaxRef,
         G.efd[f].mgr,
         R2[f] = IF hup /\ G.efd[f].auto_unref /\ R[f] > 0 THEN R[f] - 1 ELSE R[f],
         \A g \in Fds : g # f => R2[g] = R[g]
  PROVE  FdsRefs(fd_dispatch_end(G, f, hup), R2, n)
<1> DEFINE d0 == G.efd[f]
           w0 == G.epoll[f]
           H  == fd_dispatch_end(G, f, hup)
           r0 == R[f]
           r  == R2[f]
<1>1. G \in FdsType /\ FdHeld(d0, w0, r0, n) /\ FdCounted(d0, r0, G.cleanup)
      /\ d0 \in EfdType /\ G.cleanup \in BOOLEAN
  BY FdsAccess DEF FdsRefs
<1>2. PICK d1 \in EfdType, w1 \in Events \cup {NONE}, d \in EfdType, w \in Events \cup {NONE}, cl \in BOOLEAN :
        /\ Ended(d0, w0, d1, w1)
        /\ Puts(H, G, f, d, w, G.changed, cl)
        /\ IF hup /\ d0.auto_unref THEN Unreffed(d1, w1, G.cleanup, d, w, cl)
           ELSE d = d1 /\ w = w1 /\ cl = G.cleanup
  BY <1>1, EndPuts
<1>3. r0 \in 0 .. MaxRef /\ d0.mgr /\ r = IF hup /\ d0.auto_unref /\ r0 > 0 THEN r0 - 1 ELSE r0
  OBVIOUS
<1> HIDE DEF r, r0, H
<1>4. FdHeld(d1, w1, r0, n) /\ FdCounted(d1, r0, G.cleanup)
  <2>1. d1.st = d0.st /\ d1.is_deleted = d0.is_deleted /\ d1.mgr = d0.mgr /\ d1.refcount = d0.refcount
    BY <1>2, Zenon DEF Ended
  <2>2. FdCounted(d1, r0, G.cleanup)
    BY <1>1, <2>1, Zenon DEF FdCounted
  <2>3. CASE d1.is_set = FALSE /\ d1.is_active = FALSE /\ w1 = NONE
    BY <1>1, <2>1, <2>2, <2>3, Zenon DEF FdHeld
  <2>4. CASE d1.is_set = d0.is_set /\ d1.is_active = d0.is_active /\ w1 = w0
    BY <1>1, <2>1, <2>2, <2>4, Zenon DEF FdHeld
  <2>5. CASE d0.is_set = FALSE /\ d1.is_active = d0.is_active /\ w1 \in {w0, NONE}
    <3>1. w1 = NONE
      BY <1>1, <2>5, Zenon DEF FdHeld
    <3> QED
      BY <1>1, <2>1, <2>2, <2>5, <3>1, Zenon DEF FdHeld
  <2> QED
    BY <1>2, <1>3, <2>3, <2>4, <2>5, Zenon DEF Ended
<1>5. FdHeld(d, w, r, n) /\ FdCounted(d, r, cl) /\ (G.cleanup => cl)
  <2>1. CASE hup /\ d0.auto_unref
    <3>1. r = IF r0 > 0 THEN r0 - 1 ELSE r0
      BY <1>3, <2>1
    <3>2. Unreffed(d1, w1, G.cleanup, d, w, cl)
      BY <1>2, <2>1
    <3> HIDE DEF d0, w0
    <3> QED
      BY <1>1, <1>3, <1>4, <3>1, <3>2, UnreffedRefs
  <2>2. CASE ~(hup /\ d0.auto_unref)
    BY <1>2, <1>3, <1>4, <2>2
  <2> QED
    BY <2>1, <2>2
<1> QED
  BY <1>1, <1>2, <1>5, RefsAt DEF r, H

(* ev_mgr_add_fd gives the client one reference.                           *)
LEMMA AddRefs ==
  ASSUME NEW G, NEW R, NEW R2, NEW n, FdsRefs(G, R, n), NEW f \in Fds, NEW e \in Events,
         NEW au \in BOOLEAN, NEW ac \in BOOLEAN, G.efd[f].st = "none",
         R2[f] = 1, \A g \in Fds : g # f => R2[g] = R[g]
  PROVE  FdsRefs(ev_mgr_add_fd(G, f, e, au, ac), R2, n)
<1> DEFINE H == ev_mgr_add_fd(G, f, e, au, ac)
<1> SUFFICES FdsRefs(H, R2, n)
  OBVIOUS
<1>1. G \in FdsType /\ FdHeld(G.efd[f], G.epoll[f], R[f], n) /\ G.cleanup \in BOOLEAN
  BY FdsAccess DEF FdsRefs
<1>2. PICK d \in EfdType, ch \in BOOLEAN :
        /\ Puts(H, G, f, d, G.epoll[f], ch, G.cleanup)
        /\ d.st = "live" /\ d.refcount = 1 /\ d.is_deleted = FALSE /\ d.mgr = TRUE
        /\ d.is_active = TRUE /\ d.is_set = FALSE /\ d.open = TRUE
  BY <1>1, AddPuts, Zenon
<1>3. G.epoll[f] = NONE
  <2>1. G.efd[f].st # "live"
    OBVIOUS
  <2> QED
    BY <1>1, <2>1, Zenon DEF FdHeld
<1>4. R2[f] > 0
  OBVIOUS
<1>5. FdHeld(d, G.epoll[f], R2[f], n) /\ FdCounted(d, R2[f], G.cleanup)
  BY <1>2, <1>3, <1>4, Zenon DEF FdHeld, FdCounted
<1> HIDE DEF H
<1> QED
  BY <1>1, <1>2, <1>5, RefsAt

(* efds_cleanup frees only objects that the client does not hold.          *)
LEMMA CleanupRefs ==
  ASSUME NEW G, NEW R, NEW n, FdsRefs(G, R, n), NEW H, H = efds_cleanup(G)
  PROVE  FdsRefs(H, R, n)
<1>1. G \in FdsType
  BY DEF FdsRefs
<1>2. H \in FdsType /\ H.cleanup = FALSE /\ \A f \in Fds : CleanedUp(H, G, f)
  BY <1>1, CleanupFields, Zenon
<1>3. ASSUME NEW f \in Fds
      PROVE  FdHeld(H.efd[f], H.epoll[f], R[f], n) /\ FdCounted(H.efd[f], R[f], H.cleanup)
  <2>1. FdHeld(G.efd[f], G.epoll[f], R[f], n) /\ FdCounted(G.efd[f], R[f], G.cleanup)
    BY DEF FdsRefs
  <2>2. CASE H.efd[f] = G.efd[f] /\ H.epoll[f] = G.epoll[f]
    <3>1. G.cleanup => ~(G.efd[f].st = "live" /\ G.efd[f].is_deleted)
      BY <1>2, <2>2, Zenon DEF CleanedUp
    <3> QED
      BY <2>1, <2>2, <3>1, Zenon DEF FdCounted
  <2>3. CASE ~(H.efd[f] = G.efd[f] /\ H.epoll[f] = G.epoll[f])
    <3>1. /\ SameObject(H.efd[f], G.efd[f]) /\ H.efd[f].st = "freed"
          /\ G.efd[f].st = "live" /\ G.efd[f].is_deleted
          /\ H.epoll[f] = NONE \/ (H.epoll[f] = G.epoll[f] /\ ~G.efd[f].is_set)
      BY <1>2, <2>3, Zenon DEF CleanedUp
    <3>2. ~G.efd[f].is_active /\ G.epoll[f] = NONE /\ ~(R[f] > 0)
      BY <2>1, <3>1, Zenon DEF FdHeld, FdCounted
    <3>3. ~H.efd[f].is_active /\ H.epoll[f] = NONE
      BY <3>1, <3>2, Zenon DEF SameObject
    <3>4. H.efd[f].st # "live"
      BY <3>1
    <3> QED
      BY <3>2, <3>3, <3>4, Zenon DEF FdHeld, FdCounted
  <2> QED
    BY <2>2, <2>3
<1> QED
  BY <1>2, <1>3, Zenon DEF FdsRefs

(* The end of the manager keeps the fd objects held and counted.           *)
LEMMA OrphanRefs ==
  ASSUME NEW G, NEW R, NEW n, FdsRefs(G, R, n), NEW H, H = OrphanFds(G)
  PROVE  FdsRefs(H, R, 0)
<1>1. G \in FdsType
  BY DEF FdsRefs
<1>2. /\ H \in FdsType /\ H.cleanup = G.cleanup /\ H.changed = G.changed
      /\ \A f \in Fds : /\ H.epoll[f] = NONE /\ SameObject(H.efd[f], G.efd[f])
                        /\ H.efd[f].st = G.efd[f].st /\ H.efd[f].mgr = FALSE
                        /\ H.efd[f].is_set = G.efd[f].is_set /\ H.efd[f].open = G.efd[f].open
  BY <1>1, OrphanFields, ZenonT(60)
<1>3. ASSUME NEW f \in Fds
      PROVE  FdHeld(H.efd[f], H.epoll[f], R[f], 0) /\ FdCounted(H.efd[f], R[f], H.cleanup)
  <2>1. FdHeld(G.efd[f], G.epoll[f], R[f], n) /\ FdCounted(G.efd[f], R[f], G.cleanup)
    BY DEF FdsRefs
  <2>2. /\ H.epoll[f] = NONE /\ H.efd[f].mgr = FALSE /\ H.efd[f].st = G.efd[f].st
        /\ H.efd[f].is_active = G.efd[f].is_active /\ H.efd[f].is_deleted = G.efd[f].is_deleted
        /\ H.efd[f].refcount = G.efd[f].refcount
    BY <1>2, Zenon DEF SameObject
  <2>3. FdHeld(H.efd[f], H.epoll[f], R[f], 0)
    BY <2>1, <2>2, Zenon DEF FdHeld
  <2>4. FdCounted(H.efd[f], R[f], H.cleanup)
    BY <2>1, <2>2, Zenon DEF FdCounted
  <2> QED
    BY <2>3, <2>4
<1> QED
  BY <1>2, <1>3, Zenon DEF FdsRefs

(* efds_prepare keeps the fd objects held and counted, whether epoll_ctl   *)
(* fails or not.                                                           *)
LEMMA PrepareRefs ==
  ASSUME NEW G, NEW R, NEW n, FdsRefs(G, R, n), NEW bad \in SUBSET LiveFds(G), NEW H, H = efds_prepare(G, bad)
  PROVE  FdsRefs(H, R, n)
<1>1. G \in FdsType
  BY DEF FdsRefs
<1>2. H \in FdsType /\ H.cleanup = G.cleanup /\ \A f \in Fds : PreparedFd(H, G, f, bad)
  BY <1>1, PrepareFields, Zenon
<1>3. ASSUME NEW f \in Fds
      PROVE  FdHeld(H.efd[f], H.epoll[f], R[f], n) /\ FdCounted(H.efd[f], R[f], H.cleanup)
  <2>1. FdHeld(G.efd[f], G.epoll[f], R[f], n) /\ FdCounted(G.efd[f], R[f], G.cleanup)
    BY DEF FdsRefs
  <2>2. CASE H.efd[f] = G.efd[f] /\ H.epoll[f] = G.epoll[f]
    BY <1>2, <2>1, <2>2
  <2>3. CASE ~(H.efd[f] = G.efd[f] /\ H.epoll[f] = G.epoll[f])
    <3>1. /\ SameObject(H.efd[f], G.efd[f]) /\ H.efd[f].st = G.efd[f].st
          /\ H.efd[f].mgr = G.efd[f].mgr /\ H.efd[f].is_set = G.efd[f].is_active
          /\ H.epoll[f] # NONE => G.efd[f].is_active \/ G.epoll[f] # NONE
          /\ G.efd[f].st = "live"
      BY <1>2, <2>3, Zenon DEF PreparedFd
    <3>2. H.epoll[f] # NONE => G.efd[f].is_active
      BY <2>1, <3>1, Zenon DEF FdHeld
    <3>3. FdHeld(H.efd[f], H.epoll[f], R[f], n)
      BY <2>1, <3>1, <3>2, Zenon DEF FdHeld, SameObject
    <3>4. FdCounted(H.efd[f], R[f], H.cleanup)
      BY <1>2, <2>1, <3>1, Zenon DEF FdCounted, SameObject
    <3> QED
      BY <3>3, <3>4
  <2> QED
    BY <2>2, <2>3
<1> QED
  BY <1>2, <1>3, Zenon DEF FdsRefs

(* A new manager has no object that is held.                               *)
LEMMA NoFdsRefs ==
  ASSUME NEW R, \A f \in Fds : R[f] = 0, NEW n
  PROVE  FdsRefs(NoFds, R, n)
<1>1. /\ NoFds \in FdsType
      /\ \A f \in Fds : /\ FdGood(NoFds.efd[f], NoFds.epoll[f])
                        /\ NoFds.efd[f].st = "none" /\ ~NoFds.efd[f].is_active
  BY NoFdsGood DEF FdsGood
<1>2. ASSUME NEW f \in Fds
      PROVE  FdHeld(NoFds.efd[f], NoFds.epoll[f], R[f], n) /\ FdCounted(NoFds.efd[f], R[f], NoFds.cleanup)
  <2>1. ~(R[f] > 0)
    OBVIOUS
  <2>2. NoFds.efd[f].st # "live" /\ ~NoFds.efd[f].is_active /\ FdGood(NoFds.efd[f], NoFds.epoll[f])
    BY <1>1
  <2> QED
    BY <2>1, <2>2, Zenon DEF FdHeld, FdCounted, FdGood
<1> QED
  BY <1>1, <1>2, Zenon DEF FdsRefs

(* The first of a set of positions, 0 when it is empty: what SelectInSeq is. *)
Select(I) == IF I # {} THEN Min(I) ELSE 0

(* It is the least position of the set.                                    *)
LEMMA SelectFirst ==
  ASSUME NEW n \in Nat, NEW I \in SUBSET (1 .. n)
  PROVE  /\ Select(I) \in 0 .. n
         /\ Select(I) = 0 <=> I = {}
         /\ I # {} => Select(I) \in I /\ \A i \in I : Select(I) <= i
<1>1. CASE I = {}
  BY <1>1 DEF Select
<1>2. CASE I # {}
  <2>1. I \subseteq Nat
    OBVIOUS
  <2>2. PICK x \in I : \A y \in I : ~(<<y, x>> \in OpToRel(<, Nat))
    BY <1>2, <2>1, NatLessThanWellFounded, WFMin
  <2>3. \A y \in I : x <= y
    <3> SUFFICES ASSUME NEW y \in I, ~(x <= y) PROVE FALSE
      OBVIOUS
    <3>1. x \in Nat /\ y \in Nat /\ y < x
      BY <2>1
    <3>2. <<y, x>> \in OpToRel(<, Nat)
      BY <3>1 DEF OpToRel
    <3> QED
      BY <2>2, <3>2
  <2>4. Min(I) \in I /\ \A y \in I : Min(I) <= y
    BY <2>3 DEF Min
  <2>5. Select(I) \in I /\ \A i \in I : Select(I) <= i
    BY <1>2, <2>4 DEF Select
  <2>6. Select(I) \in 1 .. n
    BY <2>5
  <2>7. Select(I) \in 0 .. n /\ Select(I) # 0
    BY <2>6
  <2> QED
    BY <1>2, <2>5, <2>7
<1> QED
  BY <1>1, <1>2

(* The elements of a sequence are those at its positions.                  *)
LEMMA ToSetSeq ==
  ASSUME NEW V, NEW list \in Seq(V)
  PROVE  /\ ToSet(list) \subseteq V
         /\ \A x : x \in ToSet(list) <=> \E k \in 1 .. Len(list) : list[k] = x
BY DEF ToSet

(* Without removes the elements of D.                                      *)
LEMMA WithoutSet ==
  ASSUME NEW V, NEW list \in Seq(V), NEW D
  PROVE  Without(list, D) \in Seq(V) /\ ToSet(Without(list, D)) = ToSet(list) \ D
<1>1. Without(list, D) \in Seq(V)
  BY WithoutKeeps
<1>2. PICK m : Keeps(list, D, Len(list), Without(list, D), m)
  BY WithoutKeeps
<1> DEFINE s == Without(list, D)
<1>3. \A x : x \in ToSet(list) <=> \E k \in 1 .. Len(list) : list[k] = x
  BY ToSetSeq
<1>4. \A x : x \in ToSet(s) <=> \E k \in 1 .. Len(s) : s[k] = x
  BY <1>1, ToSetSeq
<1> HIDE DEF s
<1>5. ASSUME NEW x \in ToSet(s) PROVE x \in ToSet(list) \ D
  <2>1. PICK k \in 1 .. Len(s) : s[k] = x
    BY <1>4
  <2>2. m[k] \in 1 .. Len(list) /\ s[k] = list[m[k]] /\ list[m[k]] \notin D
    BY <1>2, Zenon DEF Keeps, s
  <2> QED
    BY <1>3, <2>1, <2>2, Zenon
<1>6. ASSUME NEW x \in ToSet(list), x \notin D PROVE x \in ToSet(s)
  <2>1. PICK j \in 1 .. Len(list) : list[j] = x
    BY <1>3
  <2>2. PICK i \in 1 .. Len(s) : m[i] = j
    BY <1>2, <1>6, <2>1, Zenon DEF Keeps, s
  <2>3. s[i] = list[m[i]]
    BY <1>2, Zenon DEF Keeps, s
  <2> QED
    BY <1>4, <2>1, <2>2, <2>3, Zenon
<1>7. ToSet(s) = ToSet(list) \ D
  BY <1>5, <1>6
<1> QED
  BY <1>1, <1>7 DEF s

(* An element is added at the head of a list.                              *)
LEMMA ConsSet ==
  ASSUME NEW V, NEW list \in Seq(V), NEW x \in V
  PROVE  /\ <<x>> \o list \in Seq(V)
         /\ ToSet(<<x>> \o list) = ToSet(list) \cup {x}
<1> DEFINE s == <<x>> \o list
<1>1. s \in Seq(V) /\ Len(s) = Len(list) + 1 /\ s[1] = x
      /\ \A k \in 1 .. Len(list) : s[k + 1] = list[k]
  OBVIOUS
<1> HIDE DEF s
<1>2. Len(list) \in Nat
  OBVIOUS
<1>3. \A y : y \in ToSet(list) <=> \E k \in 1 .. Len(list) : list[k] = y
  BY ToSetSeq
<1>4. \A y : y \in ToSet(s) <=> \E k \in 1 .. Len(s) : s[k] = y
  BY <1>1, ToSetSeq
<1>5. ASSUME NEW y \in ToSet(s) PROVE y \in ToSet(list) \cup {x}
  <2>1. PICK k \in 1 .. Len(s) : s[k] = y
    BY <1>4
  <2>2. CASE k = 1
    BY <1>1, <2>1, <2>2
  <2>3. CASE k # 1
    <3>1. k - 1 \in 1 .. Len(list) /\ (k - 1) + 1 = k
      BY <1>1, <1>2, <2>3
    <3>2. list[k - 1] = y
      BY <1>1, <2>1, <3>1
    <3> QED
      BY <1>3, <3>1, <3>2
  <2> QED
    BY <2>2, <2>3
<1>6. ASSUME NEW y \in ToSet(list) \cup {x} PROVE y \in ToSet(s)
  <2>1. CASE y = x
    <3>1. 1 \in 1 .. Len(s)
      BY <1>1, <1>2
    <3> QED
      BY <1>1, <1>4, <2>1, <3>1
  <2>2. CASE y # x
    <3>1. PICK k \in 1 .. Len(list) : list[k] = y
      BY <1>3, <2>2
    <3>2. k + 1 \in 1 .. Len(s) /\ s[k + 1] = y
      BY <1>1, <1>2, <3>1
    <3> QED
      BY <1>4, <3>2
  <2> QED
    BY <2>1, <2>2
<1> QED
  BY <1>1, <1>5, <1>6 DEF s

(* The preparers.                                                          *)
PrepType == [st : {"none", "live", "freed"}, refcount : 0 .. RefMod - 1, mgr : BOOLEAN]

(* The preparers of a manager: struct ev_prepare, and the list.            *)
PrepsType == [pr : [Preps -> PrepType], list : Seq(Preps), cleanup : BOOLEAN]

(* A preparer that the client holds r references on lives, and one that it *)
(* holds none on is to be cleaned up.                                      *)
PrepHeld(d, r, cl, n) ==
  /\ r > 0 => d.st = "live"
  /\ d.st = "live" => d.refcount = r /\ (r = 0 /\ d.mgr => cl) /\ (n # 0 => d.mgr)

(* All preparers are held, and the list has the live ones only, as long as *)
(* the manager has not ended.                                              *)
PrepsRefs(Q, R, n) ==
  /\ Q \in PrepsType
  /\ \A p \in Preps : /\ PrepHeld(Q.pr[p], R[p], Q.cleanup, n)
                      /\ Q.pr[p].st = "live" /\ Q.pr[p].mgr => p \in ToSet(Q.list)
  /\ n # 0 => \A p \in ToSet(Q.list) : Q.pr[p].st = "live"

(* H is G but for the preparer p, for the list and for the mark.           *)
PrepPuts(H, G, p, d, list, cl) ==
  /\ H \in PrepsType /\ H.pr[p] = d /\ H.list = list /\ H.cleanup = cl
  /\ \A q \in Preps : q # p => H.pr[q] = G.pr[q]

(* The parts of a state of the preparers have their types.                 *)
LEMMA PrepsAccess ==
  ASSUME NEW Q \in PrepsType
  PROVE  /\ Q.list \in Seq(Preps) /\ Q.cleanup \in BOOLEAN /\ ToSet(Q.list) \subseteq Preps
         /\ \A p \in Preps : Q.pr[p] \in PrepType
<1>1. Q.list \in Seq(Preps) /\ Q.cleanup \in BOOLEAN /\ \A p \in Preps : Q.pr[p] \in PrepType
  BY Zenon DEF PrepsType
<1> QED
  BY <1>1, ToSetSeq

(* A change of one preparer keeps all of them held when it keeps this one. *)
LEMMA PrepRefsAt ==
  ASSUME NEW G \in PrepsType, NEW p \in Preps, NEW H, NEW d, NEW list, NEW cl \in BOOLEAN, NEW R, NEW R2, NEW n,
         PrepPuts(H, G, p, d, list, cl), PrepsRefs(G, R, n),
         \A q \in Preps : q # p => R2[q] = R[q],
         PrepHeld(d, R2[p], cl, n), G.cleanup => cl,
         ToSet(list) \in {ToSet(G.list), ToSet(G.list) \cup {p}},
         d.st = "live" /\ d.mgr => p \in ToSet(list),
         n # 0 /\ p \in ToSet(list) => d.st = "live"
  PROVE  PrepsRefs(H, R2, n)
<1>1. H \in PrepsType /\ H.cleanup = cl /\ H.pr[p] = d /\ H.list = list
      /\ \A q \in Preps : q # p => H.pr[q] = G.pr[q]
  BY Zenon DEF PrepPuts
<1>2. ASSUME NEW q \in Preps
      PROVE  /\ PrepHeld(H.pr[q], R2[q], H.cleanup, n)
             /\ H.pr[q].st = "live" /\ H.pr[q].mgr => q \in ToSet(H.list)
  <2>1. CASE q = p
    BY <1>1, <2>1
  <2>2. CASE q # p
    <3>1. PrepHeld(G.pr[q], R[q], G.cleanup, n) /\ (G.pr[q].st = "live" /\ G.pr[q].mgr => q \in ToSet(G.list))
      BY DEF PrepsRefs
    <3>2. PrepHeld(G.pr[q], R[q], cl, n)
      BY <3>1, Zenon DEF PrepHeld
    <3> QED
      BY <1>1, <2>2, <3>1, <3>2
  <2> QED
    BY <2>1, <2>2
<1>3. ASSUME n # 0, NEW q \in ToSet(H.list) PROVE H.pr[q].st = "live"
  <2>1. q \in Preps
    BY <1>1, PrepsAccess
  <2>2. CASE q = p
    BY <1>1, <1>3, <2>2
  <2>3. CASE q # p
    <3>1. q \in ToSet(G.list)
      BY <1>1, <2>3
    <3> QED
      BY <1>1, <1>3, <2>1, <2>3, <3>1 DEF PrepsRefs
  <2> QED
    BY <2>2, <2>3
<1> QED
  BY <1>1, <1>2, <1>3, Zenon DEF PrepsRefs

(* ev_mgr_add_prepare gives the client one reference.                      *)
LEMMA PrepAddRefs ==
  ASSUME NEW G, NEW R, NEW R2, NEW n, PrepsRefs(G, R, n), NEW p \in Preps,
         R2[p] = 1, \A q \in Preps : q # p => R2[q] = R[q],
         NEW H, H = [G EXCEPT !.pr[p] = [st |-> "live", refcount |-> 1, mgr |-> TRUE], !.list = <<p>> \o @]
  PROVE  PrepsRefs(H, R2, n)
<1>1. G \in PrepsType
  BY DEF PrepsRefs
<1> DEFINE d == [st |-> "live", refcount |-> 1, mgr |-> TRUE]
           list == <<p>> \o G.list
<1>2. d \in PrepType /\ d.st = "live" /\ d.refcount = 1 /\ d.mgr = TRUE
  BY ZeroIsCount DEF PrepType
<1>3. list \in Seq(Preps) /\ ToSet(list) = ToSet(G.list) \cup {p} /\ G.cleanup \in BOOLEAN
  BY <1>1, PrepsAccess, ConsSet
<1>4. H = [G EXCEPT !.pr[p] = d, !.list = list]
  BY Zenon
<1> HIDE DEF d, list
<1>5. H \in PrepsType /\ H.pr = [G.pr EXCEPT ![p] = d] /\ H.list = list /\ H.cleanup = G.cleanup
  BY ONLY <1>1, <1>2, <1>3, <1>4, p \in Preps, Zenon DEF PrepsType
<1>6. G.pr \in [Preps -> PrepType]
  BY <1>1, Zenon DEF PrepsType
<1>7. PrepPuts(H, G, p, d, list, G.cleanup)
  BY <1>5, <1>6, SMTT(60) DEF PrepPuts
<1>8. PrepHeld(d, R2[p], G.cleanup, n)
  BY <1>2 DEF PrepHeld
<1>9. p \in ToSet(list)
  BY <1>3
<1> QED
  BY <1>1, <1>2, <1>3, <1>7, <1>8, <1>9, PrepRefsAt

(* ev_prepare_addref keeps the preparers held.                             *)
LEMMA PrepAddrefRefs ==
  ASSUME NEW G, NEW R, NEW R2, NEW n, PrepsRefs(G, R, n), NEW p \in Preps, R[p] \in 0 .. MaxRef,
         R[p] > 0, R[p] < MaxRef,
         R2[p] = R[p] + 1, \A q \in Preps : q # p => R2[q] = R[q],
         NEW H, H = [G EXCEPT !.pr[p].refcount = IncRef(@)]
  PROVE  PrepsRefs(H, R2, n)
<1>1. G \in PrepsType /\ PrepHeld(G.pr[p], R[p], G.cleanup, n)
      /\ (G.pr[p].st = "live" /\ G.pr[p].mgr => p \in ToSet(G.list))
  BY DEF PrepsRefs
<1>2. G.pr[p] \in PrepType /\ G.cleanup \in BOOLEAN /\ G.list \in Seq(Preps)
  BY <1>1, PrepsAccess
<1>3. G.pr[p].refcount = R[p] /\ G.pr[p].st = "live"
  BY <1>1, Zenon DEF PrepHeld
<1>4. IncRef(R[p]) = R2[p] /\ R2[p] > 0 /\ R2[p] # 0 /\ R2[p] \in 0 .. RefMod - 1
  BY RefAssumption, BoundsAssumption DEF IncRef
<1> DEFINE d == [G.pr[p] EXCEPT !.refcount = R2[p]]
<1>5. d \in PrepType /\ d.st = "live" /\ d.mgr = G.pr[p].mgr /\ d.refcount = R2[p]
  BY <1>2, <1>3, <1>4, Zenon DEF PrepType
<1>6. PrepPuts(H, G, p, d, G.list, G.cleanup)
  BY <1>1, <1>2, <1>3, <1>4, <1>5, Zenon DEF PrepPuts, PrepsType
<1> HIDE DEF d
<1>7. PrepHeld(d, R2[p], G.cleanup, n)
  BY <1>1, <1>3, <1>4, <1>5, Zenon DEF PrepHeld
<1> QED
  BY <1>1, <1>2, <1>3, <1>5, <1>6, <1>7, PrepRefsAt

(* ev_prepare_unref keeps the preparers held: the last reference asks for  *)
(* the cleanup, or frees when there is no manager.                         *)
LEMMA PrepUnrefRefs ==
  ASSUME PrepsRefs(P, refs, refcount), NEW R2, NEW p \in Preps, refs[p] \in 0 .. MaxRef, refs[p] > 0,
         R2[p] = refs[p] - 1, \A q \in Preps : q # p => R2[q] = refs[q],
         NEW H, H = ev_prepare_unref(p)
  PROVE  PrepsRefs(H, R2, refcount)
<1> DEFINE c == DecRef(P.pr[p].refcount)
           Q == [P EXCEPT !.pr[p].refcount = c]
<1>1. P \in PrepsType /\ PrepHeld(P.pr[p], refs[p], P.cleanup, refcount)
      /\ (P.pr[p].st = "live" /\ P.pr[p].mgr => p \in ToSet(P.list))
  BY DEF PrepsRefs
<1>2. P.pr[p] \in PrepType /\ P.cleanup \in BOOLEAN /\ P.list \in Seq(Preps)
  BY <1>1, PrepsAccess
<1>3. P.pr[p].refcount = refs[p] /\ P.pr[p].st = "live" /\ (refcount # 0 => P.pr[p].mgr)
  BY <1>1, Zenon DEF PrepHeld
<1>4. refs[p] \in 0 .. RefMod - 1
  BY RefMax
<1>5. c = R2[p] /\ c \in 0 .. RefMod - 1
  BY <1>3, <1>4, DecRefType
<1> DEFINE d == [P.pr[p] EXCEPT !.refcount = c]
<1>6. d \in PrepType /\ d.st = "live" /\ d.mgr = P.pr[p].mgr /\ d.refcount = c
  BY <1>2, <1>3, <1>5, Zenon DEF PrepType
<1>7. H = IF c # 0 THEN Q ELSE IF P.pr[p].mgr THEN [Q EXCEPT !.cleanup = TRUE] ELSE [Q EXCEPT !.pr[p].st = "freed"]
  BY Zenon DEF ev_prepare_unref
<1>8. Q \in PrepsType /\ PrepPuts(Q, P, p, d, P.list, P.cleanup)
  BY <1>1, <1>2, <1>5, <1>6, Zenon DEF PrepPuts, PrepsType
<1>9. CASE c # 0
  <2>1. PrepHeld(d, R2[p], P.cleanup, refcount)
    BY <1>3, <1>5, <1>6, <1>9, Zenon DEF PrepHeld
  <2>2. H = Q
    BY <1>7, <1>9
  <2> HIDE DEF d, Q
  <2> QED
    BY <1>1, <1>2, <1>3, <1>6, <1>8, <2>1, <2>2, PrepRefsAt
<1>10. CASE c = 0 /\ P.pr[p].mgr
  <2>1. PrepHeld(d, R2[p], TRUE, refcount)
    BY <1>3, <1>5, <1>6, <1>10, Zenon DEF PrepHeld
  <2>2. H = [Q EXCEPT !.cleanup = TRUE]
    BY <1>7, <1>10
  <2> HIDE DEF d, Q
  <2>3. PrepPuts(H, P, p, d, P.list, TRUE)
    BY <1>8, <2>2, Zenon DEF PrepPuts, PrepsType
  <2>4. PICK cl \in BOOLEAN : cl /\ PrepPuts(H, P, p, d, P.list, cl) /\ PrepHeld(d, R2[p], cl, refcount)
    BY <2>1, <2>3, Zenon
  <2>5. P.cleanup => cl
    BY <2>4
  <2>6. ToSet(P.list) \in {ToSet(P.list), ToSet(P.list) \cup {p}}
    OBVIOUS
  <2>7. /\ d.st = "live" /\ d.mgr => p \in ToSet(P.list)
        /\ refcount # 0 /\ p \in ToSet(P.list) => d.st = "live"
    BY <1>1, <1>3, <1>6
  <2>8. /\ P \in PrepsType /\ PrepsRefs(P, refs, refcount)
        /\ PrepPuts(H, P, p, d, P.list, cl) /\ PrepHeld(d, R2[p], cl, refcount)
    BY <1>1, <2>4
  <2> HIDE DEF d, Q, c
  <2> QED
    BY ONLY <2>5, <2>6, <2>7, <2>8, p \in Preps, cl \in BOOLEAN, \A q \in Preps : q # p => R2[q] = refs[q], PrepRefsAt
<1>11. CASE c = 0 /\ ~P.pr[p].mgr
  <2> DEFINE e == [d EXCEPT !.st = "freed"]
  <2>1. e \in PrepType /\ e.st = "freed"
    BY <1>6, Zenon DEF PrepType
  <2>2. refcount = 0 /\ ~(R2[p] > 0) /\ e.st # "live"
    BY <1>3, <1>5, <1>11, <2>1
  <2>3. H = [Q EXCEPT !.pr[p].st = "freed"]
    BY <1>7, <1>11
  <2> HIDE DEF d, Q
  <2>4. Q.pr[p] = d /\ Q.list = P.list /\ Q.cleanup = P.cleanup /\ \A q \in Preps : q # p => Q.pr[q] = P.pr[q]
    BY <1>8, Zenon DEF PrepPuts
  <2>5. H = [Q EXCEPT !.pr[p] = e]
    BY <1>8, <2>3, <2>4, Zenon DEF PrepsType
  <2>6. H \in PrepsType /\ H.pr = [Q.pr EXCEPT ![p] = e] /\ H.list = Q.list /\ H.cleanup = Q.cleanup
    BY <1>8, <2>1, <2>5, ZenonT(60) DEF PrepsType
  <2>7. Q.pr \in [Preps -> PrepType]
    BY <1>8, Zenon DEF PrepsType
  <2> HIDE DEF e
  <2>8. PrepPuts(H, P, p, e, P.list, P.cleanup)
    BY <2>4, <2>6, <2>7, Zenon DEF PrepPuts
  <2>9. PrepHeld(e, R2[p], P.cleanup, refcount)
    BY <2>2, Zenon DEF PrepHeld
  <2> HIDE DEF e
  <2> QED
    BY <1>1, <1>2, <2>2, <2>8, <2>9, PrepRefsAt
<1> QED
  BY <1>9, <1>10, <1>11

(* preparers_cleanup frees only preparers that nobody holds, and unlinks   *)
(* them.                                                                   *)
LEMMA PrepCleanupRefs ==
  ASSUME NEW G, NEW R, NEW n, PrepsRefs(G, R, n), n # 0, NEW H, H = preparers_cleanup(G)
  PROVE  /\ PrepsRefs(H, R, n) /\ ToSet(H.list) \subseteq ToSet(G.list)
<1> DEFINE D == {p \in ToSet(G.list) : G.pr[p].refcount = 0}
           list == Without(G.list, D)
           pr == [p \in Preps |-> IF p \in D THEN [G.pr[p] EXCEPT !.st = "freed"] ELSE G.pr[p]]
           K == [G EXCEPT !.cleanup = FALSE, !.list = list, !.pr = pr]
<1>1. G \in PrepsType
  BY DEF PrepsRefs
<1>2. /\ G.list \in Seq(Preps) /\ G.cleanup \in BOOLEAN /\ ToSet(G.list) \subseteq Preps
      /\ \A p \in Preps : G.pr[p] \in PrepType
  BY <1>1, PrepsAccess
<1>3. H = IF ~G.cleanup THEN G ELSE K
  BY Zenon DEF preparers_cleanup
<1>4. CASE ~G.cleanup
  <2>1. H = G
    BY <1>3, <1>4
  <2> QED
    BY <2>1
<1>5. CASE G.cleanup
  <2>1. list \in Seq(Preps) /\ ToSet(list) = ToSet(G.list) \ D
    BY <1>2, WithoutSet
  <2>2. pr \in [Preps -> PrepType] /\ \A p \in Preps : IF p \in D THEN pr[p].st = "freed" ELSE pr[p] = G.pr[p]
    <3> HIDE DEF D
    <3> QED
      BY <1>2, Zenon DEF PrepType
  <2>3. \A p \in Preps : p \in D <=> p \in ToSet(G.list) /\ G.pr[p].refcount = 0
    OBVIOUS
  <2> HIDE DEF D, list, pr
  <2>4. K \in PrepsType /\ K.pr = pr /\ K.list = list /\ K.cleanup = FALSE
    BY <1>1, <2>1, <2>2, Zenon DEF PrepsType
  <2>5. H = K
    BY <1>3, <1>5
  <2> HIDE DEF K
  <2>6. ASSUME NEW p \in Preps
        PROVE  /\ PrepHeld(H.pr[p], R[p], H.cleanup, n)
               /\ H.pr[p].st = "live" /\ H.pr[p].mgr => p \in ToSet(H.list)
    <3>1. /\ PrepHeld(G.pr[p], R[p], G.cleanup, n)
          /\ G.pr[p].st = "live" /\ G.pr[p].mgr => p \in ToSet(G.list)
          /\ p \in ToSet(G.list) => G.pr[p].st = "live"
      BY DEF PrepsRefs
    <3>2. CASE p \in D
      <4>1. ~(R[p] > 0)
        <5>1. R[p] = 0
          BY <2>3, <3>1, <3>2, Zenon DEF PrepHeld
        <5> QED
          BY <5>1
      <4>2. H.pr[p].st # "live"
        BY <2>2, <2>4, <2>5, <3>2
      <4> QED
        BY <4>1, <4>2, Zenon DEF PrepHeld
    <3>3. CASE p \notin D
      <4>1. H.pr[p] = G.pr[p]
        BY <2>2, <2>4, <2>5, <3>3
      <4>2. G.pr[p].st = "live" => G.pr[p].mgr /\ G.pr[p].refcount = R[p]
        BY <3>1, Zenon DEF PrepHeld
      <4>3. G.pr[p].st = "live" => p \in ToSet(H.list) /\ R[p] # 0
        BY <2>1, <2>3, <2>4, <2>5, <3>1, <3>3, <4>2
      <4> QED
        BY <3>1, <4>1, <4>2, <4>3, Zenon DEF PrepHeld
    <3> QED
      BY <3>2, <3>3
  <2>7. ASSUME NEW p \in ToSet(H.list) PROVE H.pr[p].st = "live" /\ p \in ToSet(G.list)
    <3>1. p \in ToSet(G.list) /\ p \notin D /\ p \in Preps
      BY <1>2, <2>1, <2>4, <2>5
    <3>2. G.pr[p].st = "live"
      BY <3>1 DEF PrepsRefs
    <3> QED
      BY <2>2, <2>4, <2>5, <3>1, <3>2
  <2> QED
    BY <2>4, <2>5, <2>6, <2>7, Zenon DEF PrepsRefs
<1> QED
  BY <1>4, <1>5

(* The end of the manager keeps the preparers held.                        *)
LEMMA PrepOrphanRefs ==
  ASSUME NEW G, NEW R, NEW n, PrepsRefs(G, R, n),
         NEW H, H = [G EXCEPT !.pr = [p \in Preps |-> [G.pr[p] EXCEPT !.mgr = FALSE]]]
  PROVE  PrepsRefs(H, R, 0)
<1>1. G \in PrepsType
  BY DEF PrepsRefs
<1> DEFINE pr == [p \in Preps |-> [G.pr[p] EXCEPT !.mgr = FALSE]]
<1>2. /\ pr \in [Preps -> PrepType]
      /\ \A p \in Preps : pr[p].st = G.pr[p].st /\ pr[p].refcount = G.pr[p].refcount /\ pr[p].mgr = FALSE
  BY <1>1, PrepsAccess, Zenon DEF PrepType
<1> HIDE DEF pr
<1>3. H = [G EXCEPT !.pr = pr]
  BY DEF pr
<1>4. H \in PrepsType /\ H.pr = pr /\ H.list = G.list /\ H.cleanup = G.cleanup
  BY <1>1, <1>2, <1>3, Zenon DEF PrepsType
<1>5. ASSUME NEW p \in Preps
      PROVE  PrepHeld(H.pr[p], R[p], H.cleanup, 0) /\ ~H.pr[p].mgr
  <2>1. PrepHeld(G.pr[p], R[p], G.cleanup, n)
    BY DEF PrepsRefs
  <2> QED
    BY <1>2, <1>4, <2>1, Zenon DEF PrepHeld
<1> QED
  BY <1>4, <1>5, Zenon DEF PrepsRefs

(* The next preparer is one of the list.                                   *)
LEMMA NextPreparerListed ==
  ASSUME NEW Q \in PrepsType, NEW p
  PROVE  NextPreparer(Q, p) = NONE \/ NextPreparer(Q, p) \in ToSet(Q.list)
<1>1. Q.list \in Seq(Preps)
  BY PrepsAccess
<1> DEFINE n == Len(Q.list)
           i == Select({j \in 1 .. n : Q.list[j] = p})
           rest == IF p = NONE THEN Q.list ELSE SubSeq(Q.list, i + 1, n)
           k == Select({j \in 1 .. Len(rest) : Q.pr[rest[j]].refcount # 0})
<1>2. NextPreparer(Q, p) = IF k = 0 THEN NONE ELSE rest[k]
  BY DEF NextPreparer, SelectInSeq, Select
<1>3. n \in Nat /\ i \in 0 .. n
  <2>1. n \in Nat
    BY <1>1
  <2>2. {j \in 1 .. n : Q.list[j] = p} \in SUBSET (1 .. n)
    OBVIOUS
  <2> QED
    BY <2>1, <2>2, SelectFirst
<1> HIDE DEF i
<1>4. rest \in Seq(Preps) /\ \A j \in 1 .. Len(rest) : \E l \in 1 .. n : rest[j] = Q.list[l]
  <2>1. CASE p = NONE
    BY <1>1, <2>1
  <2>2. CASE p # NONE
    <3>1. rest = SubSeq(Q.list, i + 1, n)
      BY <2>2
    <3>2. rest \in Seq(Preps) /\ Len(rest) = n - i /\ \A j \in 1 .. n - i : rest[j] = Q.list[i + j]
      BY <1>1, <1>3, <3>1
    <3>3. \A j \in 1 .. n - i : i + j \in 1 .. n
      BY <1>3
    <3> HIDE DEF rest, n
    <3> QED
      BY <3>2, <3>3
  <2> QED
    BY <2>1, <2>2
<1> HIDE DEF rest
<1>5. k \in 0 .. Len(rest) /\ Len(rest) \in Nat
  <2>1. Len(rest) \in Nat
    BY <1>4
  <2>2. {j \in 1 .. Len(rest) : Q.pr[rest[j]].refcount # 0} \in SUBSET (1 .. Len(rest))
    OBVIOUS
  <2> QED
    BY <2>1, <2>2, SelectFirst
<1> HIDE DEF k
<1>6. CASE k = 0
  BY <1>2, <1>6
<1>7. CASE k # 0
  <2>1. k \in 1 .. Len(rest)
    BY <1>5, <1>7
  <2>2. rest[k] \in ToSet(Q.list)
    BY <1>1, <1>4, <2>1, ToSetSeq
  <2> QED
    BY <1>2, <1>7, <2>2
<1> QED
  BY <1>6, <1>7

(* The timers of a manager: struct ev_timer, the list, and what the        *)
(* timerfd was armed with.                                                 *)
TimersType ==
  [tm : [Timers -> TimerType], list : Seq(Timers), cleanup : BOOLEAN,
   last : Nat, when : Nat, fired : BOOLEAN]

(* What never changes of a timer while it is not called.                   *)
SameTimer(d, d0) ==
  /\ d.next_ms = d0.next_ms /\ d.period_ms = d0.period_ms /\ d.decount = d0.decount
  /\ d.accuracy_ms = d0.accuracy_ms

(* Nor is it disabled, or taken from its manager.                          *)
SameFlags(d, d0) == d.mgr = d0.mgr /\ d.is_active = d0.is_active

(* The timers of D are freed; the others stay.                             *)
Freed(H, G, D) ==
  /\ H \in TimersType /\ H.list \in Seq(Timers) /\ ToSet(H.list) = ToSet(G.list) \ D
  /\ \A t \in Timers : /\ SameTimer(H.tm[t], G.tm[t]) /\ SameFlags(H.tm[t], G.tm[t])
                       /\ H.tm[t].st = IF t \in D THEN "freed" ELSE G.tm[t].st

(* The parts of a state of the timers have their types.                    *)
LEMMA TimersAccess ==
  ASSUME NEW G \in TimersType
  PROVE  /\ G.list \in Seq(Timers) /\ G.cleanup \in BOOLEAN /\ G.last \in Nat /\ G.when \in Nat
         /\ G.fired \in BOOLEAN /\ ToSet(G.list) \subseteq Timers
         /\ \A t \in Timers : G.tm[t] \in TimerType
         /\ G.tm \in [Timers -> TimerType]
<1>1. /\ G.list \in Seq(Timers) /\ G.cleanup \in BOOLEAN /\ G.last \in Nat /\ G.when \in Nat
      /\ G.fired \in BOOLEAN /\ G.tm \in [Timers -> TimerType]
      /\ \A t \in Timers : G.tm[t] \in TimerType
  BY Zenon DEF TimersType
<1>2. ToSet(G.list) \subseteq Timers
  BY <1>1, ToSetSeq
<1> QED
  BY <1>1, <1>2

(* Nothing is freed.                                                       *)
LEMMA FreedNone ==
  ASSUME NEW G \in TimersType, NEW H \in TimersType, H.list = G.list,
         \A t \in Timers : SameTimer(H.tm[t], G.tm[t]) /\ SameFlags(H.tm[t], G.tm[t]) /\ H.tm[t].st = G.tm[t].st
  PROVE  Freed(H, G, {})
<1>1. ToSet(H.list) = ToSet(G.list) \ {}
  OBVIOUS
<1>2. \A t \in Timers : H.tm[t].st = IF t \in {} THEN "freed" ELSE G.tm[t].st
  OBVIOUS
<1>3. H.list \in Seq(Timers)
  BY TimersAccess
<1> QED
  BY <1>1, <1>2, <1>3, Zenon DEF Freed

(* Free frees the timers of D and unlinks them.                            *)
LEMMA FreeIsFreed ==
  ASSUME NEW G \in TimersType, NEW D
  PROVE  /\ Freed(Free(G, D), G, D) /\ Free(G, D).list = Without(G.list, D)
         /\ Free(G, D).when = G.when /\ Free(G, D).fired = G.fired /\ Free(G, D).last = G.last
<1>1. /\ G.list \in Seq(Timers) /\ G.tm \in [Timers -> TimerType]
      /\ \A t \in Timers : G.tm[t] \in TimerType
  BY TimersAccess
<1> DEFINE list == Without(G.list, D)
           tm == [t \in Timers |-> IF t \in D THEN [G.tm[t] EXCEPT !.st = "freed"] ELSE G.tm[t]]
           H == Free(G, D)
<1>2. list \in Seq(Timers) /\ ToSet(list) = ToSet(G.list) \ D
  BY <1>1, WithoutSet
<1>3. /\ tm \in [Timers -> TimerType]
      /\ \A t \in Timers : /\ SameTimer(tm[t], G.tm[t]) /\ SameFlags(tm[t], G.tm[t])
                           /\ tm[t].st = IF t \in D THEN "freed" ELSE G.tm[t].st
  <2>1. ASSUME NEW t \in Timers
        PROVE  /\ [G.tm[t] EXCEPT !.st = "freed"] \in TimerType
               /\ SameTimer([G.tm[t] EXCEPT !.st = "freed"], G.tm[t])
               /\ [G.tm[t] EXCEPT !.st = "freed"].st = "freed"
               /\ SameFlags([G.tm[t] EXCEPT !.st = "freed"], G.tm[t])
    BY <1>1, Zenon DEF TimerType, SameTimer, SameFlags
  <2>2. \A t \in Timers : SameTimer(G.tm[t], G.tm[t]) /\ SameFlags(G.tm[t], G.tm[t])
    BY DEF SameTimer, SameFlags
  <2>3. \A t \in Timers : tm[t] = IF t \in D THEN [G.tm[t] EXCEPT !.st = "freed"] ELSE G.tm[t]
    BY Zenon
  <2>4. ASSUME NEW t \in Timers
        PROVE  /\ tm[t] \in TimerType
               /\ SameTimer(tm[t], G.tm[t]) /\ SameFlags(tm[t], G.tm[t])
               /\ tm[t].st = IF t \in D THEN "freed" ELSE G.tm[t].st
    <3>1. CASE t \in D
      <4>1. tm[t] = [G.tm[t] EXCEPT !.st = "freed"]
        BY <2>3, <3>1
      <4> HIDE DEF tm
      <4> QED
        BY <2>1, <3>1, <4>1, Zenon
    <3>2. CASE t \notin D
      <4>1. tm[t] = G.tm[t]
        BY <2>3, <3>2
      <4> HIDE DEF tm
      <4> QED
        BY <1>1, <2>2, <3>2, <4>1
    <3> QED
      BY <3>1, <3>2
  <2> QED
    BY <2>4, Zenon
<1>4. H = [G EXCEPT !.list = list, !.tm = tm]
  BY Zenon DEF Free
<1> HIDE DEF list, tm, H
<1>5. H \in TimersType /\ H.list = list /\ H.tm = tm /\ H.when = G.when /\ H.fired = G.fired /\ H.last = G.last
  BY <1>2, <1>3, <1>4, Zenon DEF TimersType
<1>6. Freed(H, G, D)
  BY <1>2, <1>3, <1>5 DEF Freed
<1> QED
  BY <1>5, <1>6 DEF H, list

(* What is freed in two steps is freed.                                    *)
LEMMA FreedAgain ==
  ASSUME NEW G, NEW H, NEW K, NEW D, NEW E, Freed(H, G, D), Freed(K, H, E)
  PROVE  Freed(K, G, D \cup E)
<1>1. ToSet(K.list) = ToSet(G.list) \ (D \cup E)
  BY DEF Freed
<1>2. ASSUME NEW t \in Timers
      PROVE  K.tm[t].st = IF t \in D \cup E THEN "freed" ELSE G.tm[t].st
  <2>1. /\ H.tm[t].st = IF t \in D THEN "freed" ELSE G.tm[t].st
        /\ K.tm[t].st = IF t \in E THEN "freed" ELSE H.tm[t].st
    BY DEF Freed
  <2> QED
    BY <2>1
<1>3. ASSUME NEW t \in Timers
      PROVE  SameTimer(K.tm[t], G.tm[t]) /\ SameFlags(K.tm[t], G.tm[t])
  BY SMTT(60) DEF Freed, SameTimer, SameFlags
<1>4. K \in TimersType /\ K.list \in Seq(Timers)
  BY DEF Freed
<1> QED
  BY <1>1, <1>2, <1>3, <1>4, Zenon DEF Freed

(* timers_cleanup frees some of the timers of the list.                    *)
LEMMA CleanupFreed ==
  ASSUME NEW G \in TimersType
  PROVE  \E D \in SUBSET Timers :
           /\ Freed(timers_cleanup(G), G, D) /\ D \subseteq ToSet(G.list)
           /\ timers_cleanup(G).list \in {G.list, Without(G.list, D)}
<1> DEFINE D == {t \in ToSet(G.list) : G.tm[t].is_deleted}
           H == Free(G, D)
           K == [H EXCEPT !.cleanup = FALSE]
<1>1. timers_cleanup(G) = IF ~G.cleanup THEN G ELSE K
  BY Zenon DEF timers_cleanup
<1>2. ToSet(G.list) \subseteq Timers
  BY TimersAccess
<1>3. CASE ~G.cleanup
  <2>1. timers_cleanup(G) = G
    BY <1>1, <1>3
  <2>2. Freed(G, G, {})
    BY FreedNone, Zenon DEF SameTimer, SameFlags
  <2>3. {} \in SUBSET Timers /\ {} \subseteq ToSet(G.list)
    OBVIOUS
  <2> QED
    BY <2>1, <2>2, <2>3
<1>4. CASE G.cleanup
  <2>1. Freed(H, G, D) /\ H.list = Without(G.list, D)
    BY FreeIsFreed
  <2>2. D \in SUBSET Timers /\ D \subseteq ToSet(G.list)
    BY <1>2
  <2> HIDE DEF D, H
  <2>3. H \in TimersType
    BY <2>1 DEF Freed
  <2>4. K \in TimersType /\ K.list = H.list /\ K.tm = H.tm
    BY <2>3, Zenon DEF TimersType
  <2> HIDE DEF K
  <2>5. Freed(K, G, D)
    BY <2>1, <2>4, Zenon DEF Freed
  <2>6. timers_cleanup(G) = K
    BY <1>1, <1>4 DEF K
  <2> QED
    BY <2>1, <2>2, <2>4, <2>5, <2>6
<1> QED
  BY <1>3, <1>4

(* The slice of time in which the next wake up may be placed (timer_set).  *)
SliceType == [lower : Nat, upper : Nat]

(* A timer narrows the slice to a slice.                                   *)
LEMMA NarrowType ==
  ASSUME NEW s \in SliceType, NEW d \in TimerType
  PROVE  Narrow(s, d) \in SliceType
<1>1. s.lower \in Nat /\ s.upper \in Nat
  BY DEF SliceType
<1>2. d.next_ms \in Nat /\ d.accuracy_ms \in Nat
  <2>1. d.next_ms \in 0 .. TIME_MS_MAX /\ d.accuracy_ms \in Nat
    BY Zenon DEF TimerType
  <2> QED
    BY <2>1
<1> DEFINE lo == d.next_ms
           up == lo + d.accuracy_ms
           a == [lower |-> lo, upper |-> up]
           b == [lower |-> IF s.lower < lo THEN lo ELSE s.lower,
                 upper |-> IF up < s.upper THEN up ELSE s.upper]
<1>3. lo \in Nat /\ up \in Nat
  BY <1>2
<1>4. a \in SliceType /\ b \in SliceType
  BY <1>1, <1>3 DEF SliceType
<1>5. Narrow(s, d) = s \/ Narrow(s, d) = a \/ Narrow(s, d) = b
  BY Zenon DEF Narrow
<1> QED
  BY <1>4, <1>5

(* The time to wake up at is a time.                                       *)
LEMMA WakeupType ==
  ASSUME NEW G \in TimersType, NEW up \in Nat
  PROVE  WakeupTime(G, up) \in Nat
<1> DEFINE n == Len(G.list)
           base == [lower |-> 0, upper |-> up]
           Step == [x \in (1 .. n) \X SliceType |-> Narrow(x[2], G.tm[G.list[x[1]]])]
<1>1. n \in Nat /\ \A k \in 1 .. n : G.tm[G.list[k]] \in TimerType
  <2>1. G.list \in Seq(Timers) /\ \A t \in Timers : G.tm[t] \in TimerType
    BY TimersAccess
  <2>2. \A k \in 1 .. n : G.list[k] \in Timers
    BY <2>1
  <2> QED
    BY <2>1, <2>2
<1>2. Step \in [(1 .. n) \X SliceType -> SliceType]
  <2>1. \A x \in (1 .. n) \X SliceType : Narrow(x[2], G.tm[G.list[x[1]]]) \in SliceType
    BY <1>1, NarrowType
  <2> QED
    BY <2>1, Zenon
<1>3. base \in SliceType
  BY DEF SliceType
<1>4. PICK f \in [0 .. n -> SliceType] : Recursive(f, n, base, Step)
  <2> HIDE DEF n, base, Step
  <2> QED
    BY <1>1, <1>2, <1>3, Recursion
<1>5. \A k \in 0 .. n : k # 0 => k \in 1 .. n /\ k - 1 \in 0 .. n
  BY <1>1
<1>6. \A k \in 1 .. n : Step[<<k, f[k - 1]>>] = Narrow(f[k - 1], G.tm[G.list[k]])
  <2>1. \A k \in 1 .. n : <<k, f[k - 1]>> \in (1 .. n) \X SliceType
    BY <1>1
  <2> QED
    BY <2>1
<1>7. f = [k \in 0 .. n |-> IF k = 0 THEN base ELSE Narrow(f[k - 1], G.tm[G.list[k]])]
  <2>1. f = [k \in 0 .. n |-> f[k]]
    BY Zenon
  <2>2. \A k \in 0 .. n : f[k] = IF k = 0 THEN base ELSE Narrow(f[k - 1], G.tm[G.list[k]])
    <3> HIDE DEF Step
    <3> QED
      BY <1>4, <1>5, <1>6, Zenon DEF Recursive
  <2> QED
    BY <2>1, <2>2, Zenon
<1> DEFINE s == CHOOSE g : g = [k \in 0 .. n |-> IF k = 0 THEN base ELSE Narrow(g[k - 1], G.tm[G.list[k]])]
<1>8. s = [k \in 0 .. n |-> IF k = 0 THEN base ELSE Narrow(s[k - 1], G.tm[G.list[k]])]
  BY <1>7, Zenon
<1>9. Slice(G, up) = s[n]
  BY DEF Slice
<1> HIDE DEF s
<1>10. s[n] \in SliceType
  <2> DEFINE S == {k \in 0 .. n : s[k] \in SliceType}
  <2>1. 0 \in S
    <3>1. 0 \in 0 .. n
      BY <1>1
    <3>2. s[0] = base
      BY <1>8, <3>1, Zenon
    <3> QED
      BY <1>3, <3>1, <3>2
  <2>2. ASSUME NEW k \in 1 .. n, k - 1 \in S PROVE k \in S
    <3>1. k \in 0 .. n /\ k # 0
      OBVIOUS
    <3>2. s[k] = Narrow(s[k - 1], G.tm[G.list[k]])
      BY <1>8, <3>1, Zenon
    <3>3. s[k - 1] \in SliceType
      BY <2>2
    <3> QED
      BY <1>1, <3>1, <3>2, <3>3, NarrowType
  <2> HIDE DEF S
  <2>3. 0 .. n \subseteq S
    BY <1>1, <2>1, <2>2, UpTo
  <2>4. n \in S
    BY <1>1, <2>3
  <2> QED
    BY <2>4 DEF S
<1>11. Slice(G, up).lower \in Nat /\ Slice(G, up).upper \in Nat
  BY <1>9, <1>10 DEF SliceType
<1> QED
  BY <1>11 DEF WakeupTime

(* timerfd_settime changes no timer.                                       *)
LEMMA ArmMarks ==
  ASSUME NEW G \in TimersType, NEW when \in Nat, NEW time \in Nat, NEW bad \in BOOLEAN
  PROVE  /\ timer_arm(G, when, time, bad) \in TimersType
         /\ timer_arm(G, when, time, bad).list = G.list /\ timer_arm(G, when, time, bad).tm = G.tm
<1> DEFINE wh == IF when <= time THEN 0 ELSE when
           fi == when # 0 /\ when <= time
           H == [G EXCEPT !.when = wh, !.fired = fi]
           K == [H EXCEPT !.last = when]
<1>1. timer_arm(G, when, time, bad) = IF when = G.last \/ bad THEN G ELSE K
  BY Zenon DEF timer_arm, SetTime
<1>2. wh \in Nat /\ fi \in BOOLEAN
  OBVIOUS
<1> HIDE DEF wh, fi
<1>3. H \in TimersType /\ H.list = G.list /\ H.tm = G.tm
  BY <1>2, Zenon DEF TimersType
<1> HIDE DEF H
<1>4. K \in TimersType /\ K.list = H.list /\ K.tm = H.tm
  BY <1>3, Zenon DEF TimersType
<1> HIDE DEF K
<1> QED
  BY <1>1, <1>3, <1>4, Zenon

(* timer_set frees some of the timers of the list: those it meets that are *)
(* to be deleted.                                                          *)
LEMMA SetFreed ==
  ASSUME NEW G \in TimersType, NEW up \in Nat, NEW time \in Nat, NEW bad \in BOOLEAN
  PROVE  \E D \in SUBSET Timers :
           /\ Freed(timer_set(G, up, time, bad), G, D) /\ D \subseteq ToSet(G.list)
           /\ timer_set(G, up, time, bad).list \in {G.list, Without(G.list, D)}
<1> DEFINE U == timers_cleanup(G)
           K == timer_arm(U, WakeupTime(U, up), time, bad)
<1>1. timer_set(G, up, time, bad) = K
  BY Zenon DEF timer_set
<1>2. PICK D \in SUBSET Timers : Freed(U, G, D) /\ D \subseteq ToSet(G.list) /\ U.list \in {G.list, Without(G.list, D)}
  BY CleanupFreed
<1> HIDE DEF U
<1>3. U \in TimersType
  BY <1>2 DEF Freed
<1>4. WakeupTime(U, up) \in Nat
  BY <1>3, WakeupType
<1>5. K \in TimersType /\ K.list = U.list /\ K.tm = U.tm
  BY <1>3, <1>4, ArmMarks, ZenonT(60)
<1> HIDE DEF K
<1>6. Freed(K, G, D)
  BY <1>2, <1>5, Zenon DEF Freed
<1> QED
  BY <1>1, <1>2, <1>5, <1>6

(* A timer that was never added counts nothing; one that was added has a   *)
(* period, and its next time is not past the end of time.                  *)
TimerFine(d) ==
  /\ d.st = "none" => d.decount = 0
  /\ d.st # "none" => d.period_ms >= 1 /\ MaxNow + d.period_ms <= TIME_MS_MAX

(* The timers are fine, and those of the list were added.                  *)
TimersGood(G) ==
  /\ G \in TimersType
  /\ \A t \in Timers : TimerFine(G.tm[t])
  /\ \A t \in ToSet(G.list) : G.tm[t].st # "none"

(* The list holds the live timers, each once.                              *)
Once(list) == \A i, j \in 1 .. Len(list) : list[i] = list[j] => i = j

(* The list holds the live timers, each once.                              *)
Listed(G) ==
  /\ \A t \in Timers : G.tm[t].st = "live" <=> t \in ToSet(G.list)
  /\ Once(G.list)

(* The countdown of a timer ends with the timer.                           *)
Counts(H, G) ==
  \A t \in Timers : G.tm[t].decount > 0 /\ H.tm[t].decount = 0 => ~H.tm[t].is_active

(* From G to H, what was added stays so, and is due at the same time.      *)
Stays(H, G) ==
  \A t \in Timers : G.tm[t].st # "none" => H.tm[t].st # "none" /\ H.tm[t].next_ms = G.tm[t].next_ms

(* And no countdown goes on.                                               *)
SameCounts(H, G) == Stays(H, G) /\ \A t \in Timers : H.tm[t].decount = G.tm[t].decount

(* The timers have a manager.                                              *)
OwnedTimers(G) == \A t \in Timers : G.tm[t].st # "none" => G.tm[t].mgr

(* A list without some elements has the others once.                       *)
LEMMA WithoutOnce ==
  ASSUME NEW V, NEW list \in Seq(V), NEW D, Once(list)
  PROVE  Once(Without(list, D))
<1> DEFINE s == Without(list, D)
<1>1. PICK m : Keeps(list, D, Len(list), s, m)
  BY WithoutKeeps
<1>2. s \in Seq(V)
  BY WithoutKeeps
<1> HIDE DEF s
<1>3. ASSUME NEW i \in 1 .. Len(s), NEW j \in 1 .. Len(s), s[i] = s[j]
      PROVE  i = j
  <2>1. s[i] = list[m[i]] /\ s[j] = list[m[j]] /\ m[i] \in 1 .. Len(list) /\ m[j] \in 1 .. Len(list)
    BY <1>1 DEF Keeps
  <2>2. m[i] = m[j]
    BY <1>3, <2>1 DEF Once
  <2>3. ~(i < j) /\ ~(j < i)
    BY <1>1, <2>1, <2>2 DEF Keeps
  <2> QED
    BY <1>2, <2>3
<1> QED
  BY <1>3 DEF Once, s

(* Freeing timers keeps what is told of them.                              *)
LEMMA FreedGood ==
  ASSUME NEW G, TimersGood(G), NEW H, NEW D, Freed(H, G, D), D \subseteq ToSet(G.list)
  PROVE  /\ TimersGood(H) /\ SameCounts(H, G)
         /\ OwnedTimers(G) => OwnedTimers(H)
         /\ Listed(G) /\ H.list \in {G.list, Without(G.list, D)} => Listed(H)
<1>1. /\ H \in TimersType /\ ToSet(H.list) = ToSet(G.list) \ D
      /\ \A t \in Timers : /\ SameTimer(H.tm[t], G.tm[t]) /\ SameFlags(H.tm[t], G.tm[t])
                           /\ H.tm[t].st = IF t \in D THEN "freed" ELSE G.tm[t].st
  BY Zenon DEF Freed
<1>2. /\ G \in TimersType /\ G.list \in Seq(Timers) /\ ToSet(G.list) \subseteq Timers
      /\ \A t \in Timers : TimerFine(G.tm[t])
      /\ \A t \in ToSet(G.list) : G.tm[t].st # "none"
  BY TimersAccess DEF TimersGood
<1>3. ASSUME NEW t \in Timers
      PROVE  /\ G.tm[t].st = "none" => H.tm[t].st = "none"
             /\ H.tm[t].st = "none" => G.tm[t].st = "none"
  <2>1. CASE t \in D
    <3>1. G.tm[t].st # "none" /\ H.tm[t].st = "freed"
      BY <1>1, <1>2, <2>1
    <3> QED
      BY <3>1
  <2>2. CASE t \notin D
    BY <1>1, <2>2
  <2> QED
    BY <2>1, <2>2
<1>4. \A t \in Timers : TimerFine(H.tm[t])
  <2> SUFFICES ASSUME NEW t \in Timers PROVE TimerFine(H.tm[t])
    OBVIOUS
  <2>1. /\ H.tm[t].decount = G.tm[t].decount /\ H.tm[t].period_ms = G.tm[t].period_ms
        /\ TimerFine(G.tm[t])
    BY <1>1, <1>2, Zenon DEF SameTimer
  <2> QED
    BY <1>3, <2>1 DEF TimerFine
<1>5. \A t \in ToSet(H.list) : H.tm[t].st # "none"
  BY <1>1, <1>2, <1>3
<1>6. SameCounts(H, G)
  BY <1>1, <1>3, Zenon DEF SameTimer, SameCounts, Stays
<1>7. OwnedTimers(G) => OwnedTimers(H)
  BY <1>1, <1>3, Zenon DEF SameFlags, OwnedTimers
<1>8. ASSUME Listed(G), H.list \in {G.list, Without(G.list, D)} PROVE Listed(H)
  <2>1. Once(H.list)
    BY <1>2, <1>8, WithoutOnce DEF Listed
  <2>2. ASSUME NEW t \in Timers PROVE H.tm[t].st = "live" <=> t \in ToSet(H.list)
    <3>1. G.tm[t].st = "live" <=> t \in ToSet(G.list)
      BY <1>8 DEF Listed
    <3>2. CASE t \in D
      <4>1. H.tm[t].st = "freed"
        BY <1>1, <3>2
      <4> QED
        BY <1>1, <3>2, <4>1
    <3>3. CASE t \notin D
      BY <1>1, <3>1, <3>3
    <3> QED
      BY <3>2, <3>3
  <2> QED
    BY <2>1, <2>2, Zenon DEF Listed
<1> QED
  BY <1>1, <1>4, <1>5, <1>6, <1>7, <1>8 DEF TimersGood

(* Nothing is told of a state of the timers but these three parts of it.   *)
LEMMA SameTimersGood ==
  ASSUME NEW G, TimersGood(G), NEW H \in TimersType, H.list = G.list, H.tm = G.tm
  PROVE  /\ TimersGood(H) /\ SameCounts(H, G) /\ (OwnedTimers(G) => OwnedTimers(H))
         /\ Listed(G) => Listed(H)
<1>1. TimersGood(H)
  BY Zenon DEF TimersGood
<1>2. SameCounts(H, G)
  BY Zenon DEF SameCounts, Stays
<1> QED
  BY <1>1, <1>2, Zenon DEF Listed, OwnedTimers

(* timers_cleanup keeps what is told of the timers.                        *)
LEMMA CleanupTimers ==
  ASSUME NEW G, TimersGood(G), NEW H, H = timers_cleanup(G)
  PROVE  /\ TimersGood(H) /\ SameCounts(H, G) /\ (OwnedTimers(G) => OwnedTimers(H))
         /\ Listed(G) => Listed(H)
<1>1. G \in TimersType
  BY DEF TimersGood
<1>2. PICK D \in SUBSET Timers : /\ Freed(H, G, D) /\ D \subseteq ToSet(G.list)
                                 /\ H.list \in {G.list, Without(G.list, D)}
  BY <1>1, CleanupFreed
<1> QED
  BY <1>2, FreedGood

(* timer_set keeps what is told of the timers.                             *)
LEMMA SetTimers ==
  ASSUME NEW G, TimersGood(G), NEW up \in Nat, NEW time \in Nat, NEW bad \in BOOLEAN,
         NEW H, H = timer_set(G, up, time, bad)
  PROVE  /\ TimersGood(H) /\ SameCounts(H, G) /\ (OwnedTimers(G) => OwnedTimers(H))
         /\ Listed(G) => Listed(H)
<1>1. G \in TimersType
  BY DEF TimersGood
<1>2. PICK D \in SUBSET Timers : /\ Freed(H, G, D) /\ D \subseteq ToSet(G.list)
                                 /\ H.list \in {G.list, Without(G.list, D)}
  BY <1>1, SetFreed
<1> QED
  BY <1>2, FreedGood

(* The time that passes changes no timer.                                  *)
LEMMA TickTimers ==
  ASSUME NEW G, TimersGood(G), NEW time, NEW H, H = ClockTick(G, time)
  PROVE  /\ TimersGood(H) /\ H.tm = G.tm /\ H.list = G.list
<1> DEFINE K == [G EXCEPT !.when = 0, !.fired = TRUE]
<1>1. G \in TimersType
  BY DEF TimersGood
<1>2. K \in TimersType /\ K.list = G.list /\ K.tm = G.tm
  BY <1>1, Zenon DEF TimersType
<1>3. H = G \/ H = K
  BY Zenon DEF ClockTick
<1> HIDE DEF K
<1> QED
  BY <1>1, <1>2, <1>3, SameTimersGood

(* One timer is changed.                                                   *)
Replaced(H, G, t, d) ==
  /\ H \in TimersType /\ H.list = G.list /\ H.tm[t] = d
  /\ \A u \in Timers : u # t => H.tm[u] = G.tm[u]

(* The timers with t replaced.                                             *)
PutTimer(G, t, d, cl) == [G EXCEPT !.tm = [G.tm EXCEPT ![t] = d], !.cleanup = cl]

(* Only t is replaced.                                                     *)
LEMMA TimerPut ==
  ASSUME NEW G \in TimersType, NEW t \in Timers, NEW d \in TimerType, NEW cl \in BOOLEAN
  PROVE  Replaced(PutTimer(G, t, d, cl), G, t, d)
<1> DEFINE m == [G.tm EXCEPT ![t] = d]
           H == [G EXCEPT !.tm = m, !.cleanup = cl]
<1>1. G.tm \in [Timers -> TimerType] /\ G.cleanup \in BOOLEAN
  BY TimersAccess
<1>2. m \in [Timers -> TimerType] /\ m[t] = d /\ \A u \in Timers : u # t => m[u] = G.tm[u]
  BY <1>1
<1> HIDE DEF m
<1>3. H \in TimersType /\ H.list = G.list /\ H.tm = m
  BY <1>2, Zenon DEF TimersType
<1> HIDE DEF H
<1>4. Replaced(H, G, t, d)
  BY <1>2, <1>3 DEF Replaced
<1> QED
  BY <1>4 DEF H, m, PutTimer

(* Replacing a timer by one that is due at the same time keeps what is     *)
(* told of the timers.                                                     *)
LEMMA TimerPutGood ==
  ASSUME NEW G, TimersGood(G), NEW t \in Timers, NEW d \in TimerType, NEW H, Replaced(H, G, t, d),
         SameTimer(d, G.tm[t]), d.st = G.tm[t].st
  PROVE  /\ TimersGood(H) /\ SameCounts(H, G)
         /\ OwnedTimers(G) /\ d.mgr = G.tm[t].mgr => OwnedTimers(H)
         /\ Listed(G) => Listed(H)
<1> USE DEF Replaced
<1>1. \A u \in Timers : H.tm[u].st = G.tm[u].st
  OBVIOUS
<1>2. \A u \in Timers : TimerFine(H.tm[u])
  <2>1. TimerFine(G.tm[t])
    BY DEF TimersGood
  <2>2. TimerFine(d)
    BY <2>1, Zenon DEF TimerFine, SameTimer
  <2> QED
    BY <2>2, Zenon DEF TimersGood
<1>3. SameCounts(H, G)
  <2>1. \A u \in Timers : H.tm[u].decount = G.tm[u].decount /\ H.tm[u].next_ms = G.tm[u].next_ms
    BY DEF SameTimer
  <2> QED
    BY <1>1, <2>1 DEF SameCounts, Stays
<1>4. ToSet(H.list) \subseteq Timers
  BY TimersAccess
<1>5. TimersGood(H)
  BY <1>1, <1>2, <1>4, Zenon DEF TimersGood
<1>6. Listed(G) => Listed(H)
  BY <1>1, Zenon DEF Listed
<1>7. OwnedTimers(G) /\ d.mgr = G.tm[t].mgr => OwnedTimers(H)
  <2> SUFFICES ASSUME OwnedTimers(G), d.mgr = G.tm[t].mgr, NEW u \in Timers, H.tm[u].st # "none"
               PROVE  H.tm[u].mgr
    BY DEF OwnedTimers
  <2>1. G.tm[u].mgr
    BY <1>1 DEF OwnedTimers
  <2>2. CASE u = t
    BY <2>1, <2>2
  <2>3. CASE u # t
    BY <2>1, <2>3
  <2> QED
    BY <2>2, <2>3
<1> QED
  BY <1>3, <1>5, <1>6, <1>7

(* ev_timer_addref keeps what is told of the timers.                       *)
LEMMA AddrefTimers ==
  ASSUME NEW G, TimersGood(G), NEW t \in Timers, NEW H, H = ev_timer_addref(G, t)
  PROVE  /\ TimersGood(H) /\ SameCounts(H, G) /\ (OwnedTimers(G) => OwnedTimers(H))
         /\ Listed(G) => Listed(H)
<1> DEFINE c == IncRef(G.tm[t].refcount)
           d == [G.tm[t] EXCEPT !.refcount = c]
<1>1. G \in TimersType /\ G.tm \in [Timers -> TimerType] /\ G.tm[t] \in TimerType /\ G.cleanup \in BOOLEAN
  BY TimersAccess DEF TimersGood
<1>2. c \in 0 .. RefMod - 1
  <2>1. G.tm[t].refcount \in 0 .. RefMod - 1
    BY <1>1, Zenon DEF TimerType
  <2> QED
    BY <2>1, RefAssumption DEF IncRef
<1>3. H = [G EXCEPT !.tm[t].refcount = c]
  BY DEF ev_timer_addref
<1> HIDE DEF c
<1>4. d \in TimerType /\ SameTimer(d, G.tm[t]) /\ d.st = G.tm[t].st /\ d.mgr = G.tm[t].mgr
  BY <1>1, <1>2, Zenon DEF TimerType, SameTimer
<1>5. H = PutTimer(G, t, d, G.cleanup)
  BY <1>1, <1>3, Zenon DEF TimersType, PutTimer
<1> HIDE DEF d
<1>6. Replaced(H, G, t, d)
  BY <1>1, <1>4, <1>5, TimerPut, Zenon
<1> QED
  BY <1>4, <1>6, TimerPutGood, Zenon

(* The decrement of a counter, as above.                                   *)
LEMMA DecRefInt == ASSUME NEW c \in 0 .. RefMod - 1 PROVE DecRef(c) \in 0 .. RefMod - 1
BY RefAssumption DEF DecRef

(* ev_timer_unref keeps what is told of the timers.                        *)
LEMMA UnrefTimers ==
  ASSUME NEW G, TimersGood(G), NEW t \in Timers, NEW H, H = ev_timer_unref(G, t)
  PROVE  /\ TimersGood(H) /\ SameCounts(H, G) /\ (OwnedTimers(G) => OwnedTimers(H))
         /\ Listed(G) => Listed(H)
<1> DEFINE c == DecRef(G.tm[t].refcount)
           d == [G.tm[t] EXCEPT !.refcount = c]
           e == [G.tm[t] EXCEPT !.refcount = 0, !.is_active = FALSE, !.is_deleted = TRUE]
<1>1. G \in TimersType /\ G.tm \in [Timers -> TimerType] /\ G.tm[t] \in TimerType /\ G.cleanup \in BOOLEAN
  BY TimersAccess DEF TimersGood
<1>2. c \in 0 .. RefMod - 1 /\ 0 \in 0 .. RefMod - 1
  <2>1. G.tm[t].refcount \in 0 .. RefMod - 1
    BY <1>1, Zenon DEF TimerType
  <2> QED
    BY <2>1, DecRefInt, RefAssumption
<1>3. H = IF c # 0 THEN [G EXCEPT !.tm[t].refcount = c]
          ELSE [G EXCEPT !.tm[t].refcount = 0, !.tm[t].is_active = FALSE,
                         !.tm[t].is_deleted = TRUE, !.cleanup = TRUE]
  BY Zenon DEF ev_timer_unref
<1> HIDE DEF c
<1>4. d \in TimerType /\ SameTimer(d, G.tm[t]) /\ d.st = G.tm[t].st /\ d.mgr = G.tm[t].mgr
  BY <1>1, <1>2, Zenon DEF TimerType, SameTimer
<1>5. e \in TimerType /\ SameTimer(e, G.tm[t]) /\ e.st = G.tm[t].st /\ e.mgr = G.tm[t].mgr
  BY <1>1, <1>2, Zenon DEF TimerType, SameTimer
<1>6. \/ H = PutTimer(G, t, d, G.cleanup)
      \/ H = PutTimer(G, t, e, TRUE)
  <2>1. [G EXCEPT !.tm[t].refcount = c] = PutTimer(G, t, d, G.cleanup)
    BY <1>1, Zenon DEF TimersType, PutTimer
  <2>2. [G EXCEPT !.tm[t].refcount = 0, !.tm[t].is_active = FALSE,
                  !.tm[t].is_deleted = TRUE, !.cleanup = TRUE]
        = PutTimer(G, t, e, TRUE)
    BY <1>1, Zenon DEF TimersType, PutTimer
  <2> HIDE DEF d, e
  <2> QED
    BY <1>3, <2>1, <2>2, Zenon
<1> HIDE DEF d, e
<1>7. PICK cl \in BOOLEAN : \/ H = PutTimer(G, t, d, cl)
                            \/ H = PutTimer(G, t, e, cl)
  BY <1>1, <1>6, Zenon
<1>8. CASE H = PutTimer(G, t, d, cl)
  <2>1. Replaced(H, G, t, d)
    BY <1>1, <1>4, <1>8, TimerPut, Zenon
  <2> QED
    BY <1>4, <2>1, TimerPutGood, Zenon
<1>9. CASE H = PutTimer(G, t, e, cl)
  <2>1. Replaced(H, G, t, e)
    BY <1>1, <1>5, <1>9, TimerPut, Zenon
  <2> QED
    BY <1>5, <2>1, TimerPutGood, Zenon
<1> QED
  BY <1>7, <1>8, <1>9

(* The walk of timer_event: the link before the timer, the timer called    *)
(* and the time.                                                           *)
WalkType == [prv : Timers \cup {HEAD}, cur : Timers \cup {HEAD}, now : 0 .. MaxNow]

(* The link that the walk keeps leads to the timer that is called.         *)
Linked(list, prv, called) ==
  \E k \in 1 .. Len(list) :
    list[k] = called /\ IF k = 1 THEN prv = HEAD ELSE prv = list[k - 1]

(* The position of p in the list, 0 for the head.                          *)
Place(list, p) == IF p = HEAD THEN 0 ELSE Select({j \in 1 .. Len(list) : list[j] = p})

(* The sequence of the n elements of the list from the position i on.      *)
Piece(s, list, i, n) ==
  s \in Seq(Timers) /\ Len(s) = n /\ \A j \in 1 .. n : s[j] = list[i + j]

(* After and Upto are the pieces of the list after and up to p.            *)
LEMMA PlaceParts ==
  ASSUME NEW list \in Seq(Timers), NEW p
  PROVE  /\ Place(list, p) \in 0 .. Len(list)
         /\ Piece(After(list, p), list, Place(list, p), Len(list) - Place(list, p))
         /\ Piece(Upto(list, p), list, 0, Place(list, p))
         /\ p # HEAD /\ p \in ToSet(list) => Place(list, p) # 0 /\ list[Place(list, p)] = p
         /\ p = HEAD => Place(list, p) = 0
<1> DEFINE n == Len(list)
           I == {j \in 1 .. n : list[j] = p}
           i == Select(I)
<1>1. n \in Nat /\ I \in SUBSET (1 .. n)
  OBVIOUS
<1>2. i \in 0 .. n /\ (i = 0 <=> I = {}) /\ (I # {} => i \in I)
  BY <1>1, SelectFirst
<1>3. p # HEAD => /\ Place(list, p) = i /\ After(list, p) = SubSeq(list, i + 1, n)
                  /\ Upto(list, p) = SubSeq(list, 1, i)
  BY DEF Place, After, Upto, SelectInSeq, Select
<1>4. p = HEAD => Place(list, p) = 0 /\ After(list, p) = list /\ Upto(list, p) = <<>>
  BY DEF Place, After, Upto
<1>5. p \in ToSet(list) => I # {}
  BY ToSetSeq
<1>6. i # 0 => list[i] = p
  BY <1>2
<1> HIDE DEF i, I
<1>7. CASE p = HEAD
  <2>1. Piece(list, list, 0, n - 0) /\ Piece(<<>>, list, 0, 0)
    BY <1>1 DEF Piece
  <2>2. After(list, p) = list /\ Upto(list, p) = <<>> /\ Place(list, p) = 0
    BY <1>4, <1>7
  <2> QED
    BY <1>1, <1>7, <2>1, <2>2
<1>8. CASE p # HEAD
  <2> DEFINE a == SubSeq(list, i + 1, n)
             u == SubSeq(list, 1, i)
  <2>1. Piece(a, list, i, n - i)
    BY <1>1, <1>2 DEF Piece
  <2>2. Piece(u, list, 0, i)
    BY <1>1, <1>2 DEF Piece
  <2>3. Place(list, p) = i /\ After(list, p) = a /\ Upto(list, p) = u
    BY <1>3, <1>8
  <2> HIDE DEF a, u
  <2> QED
    BY <1>1, <1>2, <1>5, <1>6, <1>8, <2>1, <2>2, <2>3
<1> QED
  BY <1>7, <1>8

(* From prv, at position i of the list, the walk meets the timers of met    *)
(* and comes to the one at position q; it frees those of D, and then p2    *)
(* holds the link.                                                         *)
Walked(list, i, prv, met, q, D, p2) ==
  /\ q \in 1 .. Len(list) /\ i \in 0 .. q - 1
  /\ i = 0 => prv = HEAD
  /\ i # 0 => prv = list[i]
  /\ met \in Seq(Timers) /\ Len(met) = (q - 1) - i
  /\ \A j \in 1 .. Len(met) : met[j] = list[i + j]
  /\ D \subseteq ToSet(met)
  /\ Without(met, D) = <<>> => p2 = prv
  /\ Without(met, D) # <<>> => p2 = Last(Without(met, D))

(* After the freeing of deleted timers met on the way, the link is that of *)
(* the last timer that stays.                                              *)
LEMMA LinkKept ==
  ASSUME NEW list \in Seq(Timers), Once(list), NEW i, NEW prv, NEW met, NEW q, NEW D, NEW p2,
         Walked(list, i, prv, met, q, D, p2)
  PROVE  list[q] \notin D /\ Linked(Without(list, D), p2, list[q])
<1> USE DEF Walked
<1> DEFINE s == Without(list, D)
           kept == Without(met, D)
<1>1. /\ Len(list) \in Nat /\ q \in Nat /\ i \in Nat /\ Len(met) \in Nat
  OBVIOUS
<1>2. \A j \in 1 .. Len(list) : list[j] \in D => j \in i + 1 .. q - 1
  <2> SUFFICES ASSUME NEW j \in 1 .. Len(list), list[j] \in D PROVE j \in i + 1 .. q - 1
    OBVIOUS
  <2>1. PICK l \in 1 .. Len(met) : met[l] = list[j]
    BY ToSetSeq
  <2>2. i + l \in 1 .. Len(list) /\ list[i + l] = list[j]
    BY <2>1
  <2>3. i + l = j
    BY <2>2 DEF Once
  <2> QED
    BY <2>3
<1>3. PICK m : Keeps(list, D, Len(list), s, m)
  BY WithoutKeeps
<1>4. PICK c : Keeps(met, D, Len(met), kept, c)
  BY WithoutKeeps
<1>5. s \in Seq(Timers) /\ kept \in Seq(Timers)
  BY WithoutKeeps
<1>6. (kept = <<>> => p2 = prv) /\ (kept # <<>> => p2 = Last(kept))
  OBVIOUS
<1> HIDE DEF s, kept, Walked
<1>7. /\ q \in 1 .. Len(list) /\ i \in 0 .. q - 1 /\ (i = 0 => prv = HEAD) /\ (i # 0 => prv = list[i])
       /\ met \in Seq(Timers) /\ Len(met) = (q - 1) - i
       /\ \A j \in 1 .. Len(met) : met[j] = list[i + j]
  BY DEF Walked
<1>8. /\ \A a \in 1 .. Len(s) : m[a] \in 1 .. Len(list) /\ s[a] = list[m[a]] /\ list[m[a]] \notin D
      /\ \A a, b \in 1 .. Len(s) : a < b => m[a] < m[b]
      /\ \A j \in 1 .. Len(list) : list[j] \notin D => \E a \in 1 .. Len(s) : m[a] = j
  BY <1>3 DEF Keeps
<1>9. /\ \A a \in 1 .. Len(kept) : c[a] \in 1 .. Len(met) /\ kept[a] = met[c[a]] /\ met[c[a]] \notin D
      /\ \A a, b \in 1 .. Len(kept) : a < b => c[a] < c[b]
      /\ \A j \in 1 .. Len(met) : met[j] \notin D => \E a \in 1 .. Len(kept) : c[a] = j
  BY <1>4 DEF Keeps
<1>10. list[q] \notin D
  BY <1>7, <1>2
<1>11. PICK r \in 1 .. Len(s) : m[r] = q
  BY <1>7, <1>8, <1>10
<1>12. s[r] = list[q]
  BY <1>7, <1>8, <1>11
<1>13. Len(s) \in Nat /\ Len(kept) \in Nat
  BY <1>7, <1>5
<1>14. IF r = 1 THEN p2 = HEAD ELSE p2 = s[r - 1]
  <2>1. CASE kept = <<>>
    <3>1. \A j \in 1 .. Len(met) : met[j] \in D
      BY <1>7, <1>9, <2>1
    <3>2. \A j \in i + 1 .. q - 1 : list[j] \in D
      <4> TAKE j \in i + 1 .. q - 1
      <4>1. j - i \in 1 .. Len(met) /\ i + (j - i) = j
        BY <1>7
      <4> QED
        BY <1>7, <3>1, <4>1
    <3>3. p2 = prv
      BY <1>7, <1>6, <2>1
    <3>4. CASE i = 0
      <4>1. r = 1
        <5> SUFFICES ASSUME r # 1 PROVE FALSE
          BY <1>7
        <5>1. r - 1 \in 1 .. Len(s) /\ r - 1 < r
          BY <1>13
        <5>2. m[r - 1] \in 1 .. q - 1 /\ list[m[r - 1]] \notin D
          BY <1>7, <1>8, <1>11, <5>1
        <5> QED
          BY <1>7, <3>2, <3>4, <5>2
      <4> QED
        BY <1>7, <3>3, <3>4, <4>1
    <3>5. CASE i # 0
      <4>1. i \in 1 .. Len(list) /\ list[i] \notin D
        BY <1>7, <1>2, <3>5
      <4>2. PICK a \in 1 .. Len(s) : m[a] = i
        BY <1>7, <1>8, <4>1
      <4>3. a < r
        <5>1. ~(r < a) /\ a # r
          BY <1>7, <1>8, <1>11, <4>2
        <5> QED
          BY <5>1, <1>13
      <4>4. r # 1 /\ r - 1 \in 1 .. Len(s) /\ r - 1 < r
        BY <4>3, <1>13
      <4>5. m[r - 1] \in 1 .. q - 1 /\ list[m[r - 1]] \notin D
        BY <1>7, <1>8, <1>11, <4>4
      <4>6. m[r - 1] <= i
        BY <1>7, <3>2, <4>5
      <4>7. ~(a < r - 1)
        <5> SUFFICES ASSUME a < r - 1 PROVE FALSE
          BY <1>7
        <5>1. m[a] < m[r - 1]
          BY <1>7, <1>8, <4>4
        <5> QED
          BY <1>7, <4>2, <4>5, <4>6, <5>1
      <4>8. a = r - 1
        BY <4>3, <4>7, <1>13
      <4> QED
        BY <1>7, <1>8, <3>3, <3>5, <4>2, <4>4, <4>8
    <3> QED
      BY <1>7, <3>4, <3>5
  <2>2. CASE kept # <<>>
    <3> DEFINE z == Len(kept)
    <3>1. z \in 1 .. Len(kept) /\ p2 = kept[z]
      BY <1>7, <1>6, <1>5, <2>2 DEF Last
    <3> DEFINE x == i + c[z]
    <3>2. c[z] \in 1 .. Len(met) /\ kept[z] = met[c[z]] /\ met[c[z]] \notin D
      BY <1>7, <1>9, <3>1
    <3>3. x \in i + 1 .. q - 1 /\ x \in 1 .. Len(list) /\ list[x] = p2 /\ list[x] \notin D
      <4>1. \A y \in 1 .. Len(met) : i + y \in i + 1 .. q - 1 /\ i + y \in 1 .. Len(list)
        BY <1>7, <1>1
      <4>2. x \in i + 1 .. q - 1 /\ x \in 1 .. Len(list)
        BY <1>7, <3>2, <4>1, Zenon
      <4>3. met[c[z]] = list[x]
        BY <1>7, <3>2
      <4> HIDE DEF x, z
      <4> QED
        BY <1>7, <3>1, <3>2, <4>2, <4>3
    <3>4. \A j \in 1 .. Len(list) : j < q /\ list[j] \notin D => j <= x
      <4> SUFFICES ASSUME NEW j \in 1 .. Len(list), j < q, list[j] \notin D, ~(j <= x) PROVE FALSE
        BY <1>7
      <4>1. j \in Nat /\ x \in Nat /\ x >= i + 1 /\ j > x
        <5> HIDE DEF x
        <5> QED
          BY <1>7, <3>3
      <4>2. j - i \in 1 .. Len(met) /\ i + (j - i) = j
        <5> HIDE DEF x
        <5> QED
          BY <1>7, <4>1
      <4>3. met[j - i] \notin D
        BY <1>7, <4>2
      <4>4. PICK b \in 1 .. Len(kept) : c[b] = j - i
        BY <1>7, <1>9, <4>2, <4>3
      <4>5. c[b] <= c[z]
        <5>1. b = z \/ b < z
          BY <1>13
        <5>2. c[b] \in 1 .. Len(met)
          BY <1>7, <1>9
        <5>3. CASE b = z
          BY <1>7, <5>2, <5>3
        <5>4. CASE b < z
          <6>1. c[b] < c[z]
            BY <1>7, <1>9, <3>1, <5>4
          <6> QED
            BY <1>7, <3>2, <5>2, <6>1, SMTT(60)
        <5> QED
          BY <1>7, <5>1, <5>3, <5>4
      <4> QED
        BY <1>7, <3>2, <4>1, <4>4, <4>5, SMTT(60)
    <3>5. PICK a \in 1 .. Len(s) : m[a] = x
      BY <1>7, <1>8, <3>3
    <3> HIDE DEF x, z
    <3>6. a < r
      <4>1. ~(r < a) /\ a # r
        BY <1>7, <1>8, <1>11, <3>3, <3>5
      <4> QED
        BY <4>1, <1>13
    <3>7. r # 1 /\ r - 1 \in 1 .. Len(s) /\ r - 1 < r
      BY <3>6, <1>13
    <3>8. m[r - 1] \in 1 .. Len(list) /\ m[r - 1] < q /\ list[m[r - 1]] \notin D
      BY <1>7, <1>8, <1>11, <3>7
    <3>9. m[r - 1] <= x
      BY <1>7, <3>4, <3>8
    <3>10. ~(a < r - 1)
      <4> SUFFICES ASSUME a < r - 1 PROVE FALSE
        BY <1>7
      <4>1. m[a] < m[r - 1]
        BY <1>7, <1>8, <3>7
      <4> QED
        BY <1>7, <3>3, <3>5, <3>8, <3>9, <4>1
    <3>11. a = r - 1
      BY <3>6, <3>10, <1>13
    <3> QED
      BY <1>7, <1>8, <3>3, <3>5, <3>7, <3>11
  <2> QED
    BY <1>7, <2>1, <2>2
<1>15. Linked(s, p2, list[q])
  BY <1>11, <1>12, <1>14 DEF Linked
<1> QED
  BY <1>10, <1>15 DEF s

(* The timer whose handler is called was due.                              *)
Called(G, w) == w.cur \in Timers /\ G.tm[w.cur].st # "none" /\ G.tm[w.cur].next_ms <= w.now

(* The walk frees what it meets that is to be deleted and comes to a timer *)
(* that is due, with the link to it.                                       *)
Scanned(s, G, w) ==
  /\ TimersGood(s.T) /\ s.w \in WalkType
  /\ \A t \in Timers : SameTimer(s.T.tm[t], G.tm[t]) /\ SameFlags(s.T.tm[t], G.tm[t])
  /\ s.w.cur # HEAD => Called(s.T, s.w)
  /\ Stays(s.T, G) /\ (OwnedTimers(G) => OwnedTimers(s.T))
  /\ Listed(G) => Listed(s.T)
  /\ Listed(G) /\ w.prv \in {HEAD} \cup ToSet(G.list) /\ s.w.cur # HEAD =>
       Linked(s.T.list, s.w.prv, s.w.cur)

(* One scan of timer_event does so.                                        *)
LEMMA ScanGood ==
  ASSUME NEW G, TimersGood(G), NEW w \in WalkType
  PROVE  Scanned(ScanStep(G, w), G, w)
<1> DEFINE list == G.list
           n == Len(list)
           i == Place(list, w.prv)
           rest == After(list, w.prv)
           I == {j \in 1 .. Len(rest) : Due(G, rest[j], w.now)}
           k == Select(I)
           met == IF k = 0 THEN rest ELSE SubSeq(rest, 1, k - 1)
           dead == {t \in ToSet(met) : G.tm[t].is_deleted}
           kept == Without(met, dead)
           U == Free(G, dead)
           p2 == IF kept = <<>> THEN w.prv ELSE Last(kept)
           c2 == IF k = 0 THEN HEAD ELSE rest[k]
           w2 == [w EXCEPT !.prv = p2, !.cur = c2]
<1>1. ScanStep(G, w) = [T |-> U, w |-> w2]
  <2>1. w2 = [w EXCEPT !.prv = IF kept = <<>> THEN @ ELSE Last(kept), !.cur = c2]
    BY Zenon DEF WalkType
  <2>2. ScanStep(G, w) = [T |-> U, w |-> [w EXCEPT !.prv = IF kept = <<>> THEN @ ELSE Last(kept),
                                                   !.cur = c2]]
    BY DEF ScanStep, SelectInSeq, Select
  <2> HIDE DEF U, w2, kept, c2
  <2> QED
    BY <2>1, <2>2
<1>2. /\ G \in TimersType /\ list \in Seq(Timers) /\ ToSet(list) \subseteq Timers
      /\ \A t \in ToSet(list) : G.tm[t].st # "none"
  BY TimersAccess DEF TimersGood
<1>3. w.prv \in Timers \cup {HEAD} /\ w.now \in 0 .. MaxNow
  BY Zenon DEF WalkType
<1>4. /\ i \in 0 .. n /\ n \in Nat /\ rest \in Seq(Timers) /\ Len(rest) = n - i
      /\ \A j \in 1 .. n - i : rest[j] = list[i + j]
      /\ w.prv # HEAD /\ w.prv \in ToSet(list) => i # 0 /\ list[i] = w.prv
      /\ w.prv = HEAD => i = 0
  <2>1. n \in Nat
    BY <1>2
  <2>2. i \in 0 .. n /\ Piece(rest, list, i, n - i)
    BY <1>2, PlaceParts, Zenon
  <2>3. rest \in Seq(Timers) /\ Len(rest) = n - i /\ \A j \in 1 .. n - i : rest[j] = list[i + j]
    BY <2>2, Zenon DEF Piece
  <2>4. /\ w.prv # HEAD /\ w.prv \in ToSet(list) => i # 0 /\ list[i] = w.prv
        /\ w.prv = HEAD => i = 0
    BY <1>2, PlaceParts, Zenon
  <2> QED
    BY <2>1, <2>2, <2>3, <2>4
<1> HIDE DEF i, rest
<1>5. k \in 0 .. Len(rest) /\ (k # 0 => k \in I)
  <2>1. Len(rest) \in Nat /\ I \in SUBSET (1 .. Len(rest))
    BY <1>4
  <2> QED
    BY <2>1, SelectFirst
<1> HIDE DEF k
<1>6. /\ met \in Seq(Timers) /\ Len(met) = IF k = 0 THEN n - i ELSE k - 1
      /\ \A j \in 1 .. Len(met) : met[j] = list[i + j] /\ i + j \in 1 .. n
  <2>1. CASE k = 0
    <3>1. met = rest
      BY <2>1
    <3> QED
      BY <1>4, <2>1, <3>1
  <2>2. CASE k # 0
    <3>1. met = SubSeq(rest, 1, k - 1)
      BY <2>2
    <3>2. SubSeq(rest, 1, k - 1) \in Seq(Timers) /\ Len(SubSeq(rest, 1, k - 1)) = k - 1
          /\ \A j \in 1 .. k - 1 : SubSeq(rest, 1, k - 1)[j] = rest[j] /\ j \in 1 .. n - i /\ i + j \in 1 .. n
      BY <1>4, <1>5, <2>2, SMTT(60)
    <3> HIDE DEF met
    <3> QED
      BY <1>4, <2>2, <3>1, <3>2
  <2> QED
    BY <2>1, <2>2
<1> HIDE DEF met
<1>7. dead \subseteq ToSet(met) /\ dead \subseteq ToSet(list)
  <2>1. ToSet(met) \subseteq ToSet(list)
    <3> SUFFICES ASSUME NEW t \in ToSet(met) PROVE t \in ToSet(list)
      OBVIOUS
    <3>1. PICK j \in 1 .. Len(met) : met[j] = t
      BY <1>6, ToSetSeq
    <3>2. list[i + j] = t /\ i + j \in 1 .. n
      BY <1>6, <3>1
    <3> QED
      BY <1>2, <3>2, ToSetSeq
  <2> QED
    BY <2>1
<1> HIDE DEF dead
<1>8. kept \in Seq(Timers)
  BY <1>6, WithoutSet
<1>9. Freed(U, G, dead) /\ U.list = Without(list, dead)
  BY <1>2, FreeIsFreed
<1> HIDE DEF U
<1>10. /\ TimersGood(U) /\ Stays(U, G) /\ (OwnedTimers(G) => OwnedTimers(U))
       /\ Listed(G) => Listed(U)
  <2>1. U.list \in {G.list, Without(G.list, dead)}
    BY <1>9
  <2> QED
    BY <1>7, <1>9, <2>1, FreedGood DEF SameCounts
<1>11. \A t \in Timers : SameTimer(U.tm[t], G.tm[t]) /\ SameFlags(U.tm[t], G.tm[t])
  BY <1>9, Zenon DEF Freed
<1>12. k # 0 => /\ c2 = list[i + k] /\ i + k \in 1 .. n /\ c2 \in Timers /\ c2 \in ToSet(list)
                /\ G.tm[c2].next_ms <= w.now
  <2> SUFFICES ASSUME k # 0
               PROVE  /\ c2 = list[i + k] /\ i + k \in 1 .. n /\ c2 \in Timers /\ c2 \in ToSet(list)
                      /\ G.tm[c2].next_ms <= w.now
    OBVIOUS
  <2>1. k \in 1 .. Len(rest) /\ Due(G, rest[k], w.now)
    BY <1>5
  <2>2. c2 = rest[k]
    OBVIOUS
  <2>3. i + k \in 1 .. n /\ rest[k] = list[i + k]
    BY <1>4, <2>1, SMTT(60)
  <2>4. list[i + k] \in Timers /\ list[i + k] \in ToSet(list)
    BY <1>2, <2>3, ToSetSeq
  <2> HIDE DEF c2, list
  <2> QED
    BY <2>1, <2>2, <2>3, <2>4 DEF Due
<1>13. p2 \in Timers \cup {HEAD} /\ c2 \in Timers \cup {HEAD}
  <2>1. kept # <<>> => Last(kept) \in Timers
    BY <1>8 DEF Last
  <2>2. p2 \in Timers \cup {HEAD}
    BY <1>3, <2>1
  <2>3. k = 0 => c2 = HEAD
    OBVIOUS
  <2> HIDE DEF c2
  <2> QED
    BY <1>12, <2>2, <2>3
<1>14. k = 0 => c2 = HEAD
  OBVIOUS
<1>15. ASSUME Listed(G), w.prv \in {HEAD} \cup ToSet(list), k # 0
       PROVE  Linked(U.list, p2, c2)
  <2> DEFINE q == i + k
  <2>1. q \in 1 .. Len(list) /\ i \in 0 .. q - 1
    BY <1>4, <1>5, <1>12, <1>15
  <2>2. IF i = 0 THEN w.prv = HEAD ELSE w.prv = list[i]
    <3>1. i = 0 => w.prv = HEAD
      BY <1>4, <1>15
    <3>2. i # 0 => w.prv = list[i]
      BY <1>4, <1>15
    <3> QED
      BY <3>1, <3>2
  <2>3. Len(met) = (q - 1) - i /\ \A j \in 1 .. Len(met) : met[j] = list[i + j]
    BY <1>4, <1>5, <1>6, <1>15
  <2>4. c2 = list[q]
    BY <1>12, <1>15
  <2>5. Once(list)
    BY <1>15 DEF Listed
  <2>6. /\ kept = <<>> => p2 = w.prv
        /\ kept # <<>> => p2 = Last(kept)
    OBVIOUS
  <2>7. dead \subseteq ToSet(met)
    BY <1>7
  <2>8. (i = 0 => w.prv = HEAD) /\ (i # 0 => w.prv = list[i])
    BY <2>2
  <2>9. Walked(list, i, w.prv, met, q, dead, p2)
    <3> HIDE DEF q, list, c2, p2, n
    <3> QED
      BY <1>6, <2>1, <2>3, <2>6, <2>7, <2>8, Zenon DEF Walked
  <2> HIDE DEF q, list, c2, p2
  <2>10. Linked(Without(list, dead), p2, list[q])
    BY <1>2, <2>5, <2>9, LinkKept, Zenon
  <2> QED
    BY <1>9, <2>4, <2>10
<1> HIDE DEF p2, c2
<1>16. w2 \in WalkType /\ w2.now = w.now /\ w2.prv = p2 /\ w2.cur = c2
  BY <1>13, Zenon DEF WalkType
<1> HIDE DEF w2
<1>17. c2 # HEAD => Called(U, w2)
  <2> SUFFICES ASSUME c2 # HEAD PROVE Called(U, w2)
    OBVIOUS
  <2>1. /\ c2 \in Timers /\ c2 \in ToSet(list) /\ G.tm[c2].next_ms <= w.now
    BY <1>12, <1>14
  <2>2. U.tm[c2].next_ms = G.tm[c2].next_ms
    BY <1>11, <2>1, Zenon DEF SameTimer
  <2>3. U.tm[c2].st = IF c2 \in dead THEN "freed" ELSE G.tm[c2].st
    BY <1>9, <2>1, Zenon DEF Freed
  <2>4. G.tm[c2].st # "none"
    BY <1>2, <2>1
  <2>5. U.tm[c2].st # "none"
    BY <2>3, <2>4
  <2> HIDE DEF list
  <2> QED
    BY <1>16, <2>1, <2>2, <2>5 DEF Called
<1> DEFINE s == ScanStep(G, w)
<1>18. s.T = U /\ s.w = w2
  BY <1>1
<1> HIDE DEF s
<1>19. Listed(G) /\ w.prv \in {HEAD} \cup ToSet(G.list) /\ s.w.cur # HEAD =>
       Linked(s.T.list, s.w.prv, s.w.cur)
  BY <1>14, <1>15, <1>16, <1>18
<1>20. Scanned(s, G, w)
  BY <1>10, <1>11, <1>16, <1>17, <1>18, <1>19, Zenon DEF Scanned
<1> QED
  BY <1>20 DEF s

(* The next time of a timer does not pass the end of time (ev-mgr.c:       *)
(* next_ms += period_ms while it is in the past).                          *)
LEMMA AdvanceType ==
  ASSUME NEW next \in Nat, NEW period \in Nat, NEW time \in 0 .. MaxNow, next <= time,
         period >= 1, MaxNow + period <= TIME_MS_MAX
  PROVE  Advance(next, period, time) \in 0 .. TIME_MS_MAX
<1>1. MaxNow \in Nat /\ TIME_MS_MAX \in Nat
  BY BoundsAssumption, TimeAssumption
<1> DEFINE a == time - next
           x == a \div period
<1>2. a \in Nat /\ a <= MaxNow - next
  BY <1>1
<1>3. x \in Nat /\ period * x <= a /\ period * x >= 0
  BY <1>2
<1>4. period * (x + 1) = period * x + period
  BY <1>3
<1>5. Advance(next, period, time) = next + period * (x + 1)
  BY DEF Advance
<1> HIDE DEF x
<1>6. period * x \in Nat
  BY <1>3
<1> QED
  BY <1>1, <1>2, <1>3, <1>4, <1>5, <1>6

(* A timer after its handler is a timer, and when its countdown ends it is *)
(* disabled.                                                               *)
LEMMA CountedGood ==
  ASSUME NEW d \in TimerType, TimerFine(d), d.st # "none", NEW time \in 0 .. MaxNow, d.next_ms <= time
  PROVE  /\ Counted(d, time) \in TimerType
         /\ Counted(d, time).st = d.st /\ Counted(d, time).mgr = d.mgr
         /\ Counted(d, time).period_ms = d.period_ms
         /\ d.decount > 0 /\ Counted(d, time).decount = 0 => ~Counted(d, time).is_active
<1>1. /\ d.next_ms \in 0 .. TIME_MS_MAX /\ d.period_ms \in Nat /\ d.decount \in Nat
      /\ d.auto_unref \in BOOLEAN /\ TIME_MS_MAX \in Nat
  BY TimeAssumption, Zenon DEF TimerType
<1>2. d.period_ms >= 1 /\ MaxNow + d.period_ms <= TIME_MS_MAX
  BY DEF TimerFine
<1> DEFINE v == Advance(d.next_ms, d.period_ms, time)
           nx == [d EXCEPT !.next_ms = v]
           l == d.decount - 1
           a == [nx EXCEPT !.decount = l]
           b == [nx EXCEPT !.decount = 0, !.is_active = FALSE, !.is_deleted = TRUE]
           c == [nx EXCEPT !.decount = 0, !.is_active = FALSE, !.next_ms = TIME_MS_MAX]
           r == Counted(d, time)
<1>3. v \in 0 .. TIME_MS_MAX
  BY <1>1, <1>2, AdvanceType
<1> HIDE DEF v
<1>4. nx \in TimerType /\ nx.st = d.st /\ nx.mgr = d.mgr /\ nx.period_ms = d.period_ms
      /\ nx.decount = d.decount
  BY <1>3, Zenon DEF TimerType
<1>5. /\ d.decount = 0 => r = nx
      /\ d.decount > 1 => r = a
      /\ d.decount = 1 => r = b \/ r = c
  <2>1. a = [nx EXCEPT !.decount = @ - 1]
    <3>1. nx.decount - 1 = l
      BY <1>4
    <3> HIDE DEF l, nx
    <3>2. [nx EXCEPT !.decount = @ - 1] = [nx EXCEPT !.decount = nx.decount - 1]
      BY <1>4, Zenon DEF TimerType
    <3> QED
      BY <3>1, <3>2
  <2> DEFINE e == [nx EXCEPT !.decount = @ - 1]
  <2>2. r = CASE d.decount = 0 -> nx
              [] d.decount > 1 -> e
              [] d.decount = 1 /\ d.auto_unref -> b
              [] d.decount = 1 /\ ~d.auto_unref -> c
    BY DEF Counted, v
  <2>3. e = a
    BY <2>1
  <2> HIDE DEF r, b, c, nx, a, e
  <2>4. d.decount = 0 => r = nx
    BY <2>2
  <2>5. d.decount > 1 => r = a
    BY <1>1, <2>2, <2>3
  <2>6. d.decount = 1 => r = b \/ r = c
    BY <2>2
  <2> QED
    BY <2>4, <2>5, <2>6
<1> HIDE DEF nx, r
<1>6. d.decount > 1 => l \in Nat /\ l # 0
  BY <1>1
<1> HIDE DEF l
<1>7. l \in Nat => /\ a \in TimerType /\ a.st = nx.st /\ a.mgr = nx.mgr /\ a.period_ms = nx.period_ms
                   /\ a.decount = l
  BY <1>4, Zenon DEF TimerType
<1>8. /\ b \in TimerType /\ b.st = nx.st /\ b.mgr = nx.mgr /\ b.period_ms = nx.period_ms
      /\ b.is_active = FALSE
  <2>1. 0 \in Nat
    OBVIOUS
  <2> QED
    BY <1>4, <2>1, Zenon DEF TimerType
<1>9. /\ c \in TimerType /\ c.st = nx.st /\ c.mgr = nx.mgr /\ c.period_ms = nx.period_ms
      /\ c.is_active = FALSE
  <2>1. 0 \in Nat /\ TIME_MS_MAX \in 0 .. TIME_MS_MAX
    BY <1>1
  <2> QED
    BY <1>4, <2>1, Zenon DEF TimerType
<1> HIDE DEF a, b, c
<1>10. CASE d.decount = 0
  BY <1>4, <1>5, <1>10 DEF r
<1>11. CASE d.decount > 1
  BY <1>4, <1>5, <1>6, <1>7, <1>11 DEF r
<1>12. CASE d.decount = 1
  BY <1>4, <1>5, <1>8, <1>9, <1>12 DEF r
<1> QED
  BY <1>1, <1>10, <1>11, <1>12

(* What is at a position is an element.                                    *)
LEMMA InSeq ==
  ASSUME NEW V, NEW list \in Seq(V), NEW k \in 1 .. Len(list)
  PROVE  list[k] \in ToSet(list)
BY ToSetSeq

(* What is left of the list without the positions i + 1 .. k.              *)
Spliced(s, list, i, k) ==
  /\ s \in Seq(Timers) /\ Len(s) = i + (Len(list) - k)
  /\ \A j \in 1 .. i : s[j] = list[j]
  /\ \A j \in 1 .. Len(list) - k : s[i + j] = list[k + j]
  /\ ToSet(s) \subseteq ToSet(list)

(* The list without what is between p and the end of c.                    *)
LEMMA UnlinkType ==
  ASSUME NEW list \in Seq(Timers), NEW p, NEW c
  PROVE  Spliced(Upto(list, p) \o After(list, c), list, Place(list, p), Place(list, c))
<1> DEFINE u == Upto(list, p)
           a == After(list, c)
           i == Place(list, p)
           k == Place(list, c)
           n == Len(list)
           s == u \o a
<1>1. i \in 0 .. n /\ k \in 0 .. n /\ n \in Nat
  BY PlaceParts
<1>2. Piece(u, list, 0, i) /\ Piece(a, list, k, n - k)
  BY PlaceParts, Zenon
<1> HIDE DEF u, a, i, k
<1>3. /\ s \in Seq(Timers) /\ Len(s) = i + (n - k)
      /\ \A j \in 1 .. i : s[j] = list[j]
      /\ \A j \in 1 .. n - k : s[i + j] = list[k + j]
  <2>1. u \in Seq(Timers) /\ Len(u) = i /\ \A j \in 1 .. i : u[j] = list[j]
    BY <1>1, <1>2 DEF Piece
  <2>2. a \in Seq(Timers) /\ Len(a) = n - k /\ \A j \in 1 .. n - k : a[j] = list[k + j]
    BY <1>1, <1>2 DEF Piece
  <2>3. s \in Seq(Timers) /\ Len(s) = i + (n - k)
    <3>1. s \in Seq(Timers) /\ Len(s) = Len(u) + Len(a)
      BY <2>1, <2>2, SMTT(60)
    <3> HIDE DEF s
    <3> QED
      BY <2>1, <2>2, <3>1
  <2>4. \A j \in 1 .. i : s[j] = list[j]
    BY <1>1, <2>1, <2>2
  <2>5. \A j \in 1 .. n - k : s[i + j] = a[j]
    BY <1>1, <2>1, <2>2
  <2> QED
    BY <2>2, <2>3, <2>4, <2>5
<1> HIDE DEF s
<1>4. ToSet(s) \subseteq ToSet(list)
  <2> SUFFICES ASSUME NEW x \in ToSet(s) PROVE x \in ToSet(list)
    OBVIOUS
  <2>1. PICK j \in 1 .. Len(s) : s[j] = x
    BY <1>3, ToSetSeq
  <2>2. CASE j <= i
    <3>1. j \in 1 .. i /\ j \in 1 .. n
      BY <1>1, <2>2
    <3> QED
      BY <1>3, <2>1, <3>1, ToSetSeq
  <2>3. CASE ~(j <= i)
    <3>1. j - i \in 1 .. n - k /\ i + (j - i) = j /\ k + (j - i) \in 1 .. n
      BY <1>1, <1>3, <2>3
    <3>2. s[j] = list[k + (j - i)]
      BY <1>3, <3>1
    <3> QED
      BY <2>1, <3>1, <3>2, ToSetSeq
  <2> QED
    BY <2>2, <2>3
<1>5. Spliced(s, list, i, k)
  BY <1>3, <1>4 DEF Spliced
<1> QED
  BY <1>5 DEF s, u, a, i, k

(* What the unlinking of a timer through the right link does.              *)
Unlinked(s, list, p, c) ==
  ToSet(s) = ToSet(list) \ {c} /\ Once(s) /\ p \in {HEAD} \cup ToSet(s)

(* When p links to c, only c is unlinked.                                  *)
LEMMA UnlinkOne ==
  ASSUME NEW list \in Seq(Timers), Once(list), NEW p, NEW c, Linked(list, p, c), NEW s,
         s = Upto(list, p) \o After(list, c)
  PROVE  Unlinked(s, list, p, c)
<1> DEFINE n == Len(list)
           i == Place(list, p)
           kk == Place(list, c)
<1>1. PICK k \in 1 .. n : list[k] = c /\ IF k = 1 THEN p = HEAD ELSE p = list[k - 1]
  BY DEF Linked
<1>2. n \in Nat /\ k \in Nat /\ c \in Timers
  BY <1>1
<1>3. i \in 0 .. n /\ kk \in 0 .. n
  BY PlaceParts
<1>4. kk = k
  <2>1. c # HEAD /\ c \in ToSet(list)
    BY <1>1, <1>2, ToSetSeq, HeadAssumption
  <2>2. kk # 0 /\ list[kk] = c
    BY <2>1, PlaceParts, Zenon
  <2>3. kk \in 1 .. n
    BY <1>3, <2>2
  <2> HIDE DEF kk
  <2> QED
    BY <1>1, <2>2, <2>3 DEF Once
<1>5. i = k - 1
  <2>1. CASE k = 1
    <3>1. p = HEAD
      BY <1>1, <2>1
    <3>2. i = 0
      BY <3>1, PlaceParts, Zenon
    <3> QED
      BY <2>1, <3>2
  <2>2. CASE k # 1
    <3>1. k - 1 \in 1 .. n /\ p = list[k - 1]
      BY <1>1, <2>2
    <3>2. p \in Timers /\ p # HEAD /\ p \in ToSet(list)
      BY <3>1, ToSetSeq, HeadAssumption
    <3>3. i # 0 /\ list[i] = p
      BY <3>2, PlaceParts, Zenon
    <3>4. i \in 1 .. n
      BY <1>3, <3>3
    <3> HIDE DEF i
    <3> QED
      BY <3>1, <3>3, <3>4 DEF Once
  <2> QED
    BY <2>1, <2>2
<1>6. Spliced(s, list, i, kk)
  BY UnlinkType, Zenon
<1>7. /\ s \in Seq(Timers) /\ Len(s) = i + (n - kk)
  BY <1>6, Zenon DEF Spliced
<1>8. \A j \in 1 .. i : s[j] = list[j]
  BY <1>6, Zenon DEF Spliced
<1>9. \A j \in 1 .. n - kk : s[i + j] = list[kk + j]
  BY <1>6, Zenon DEF Spliced
<1>10. ToSet(s) \subseteq ToSet(list)
  BY <1>6, Zenon DEF Spliced
<1> HIDE DEF i, kk
<1> DEFINE m == [j \in 1 .. Len(s) |-> IF j < k THEN j ELSE j + 1]
<1>11. Len(s) = n - 1
  BY <1>2, <1>4, <1>5, <1>7
<1>12. ASSUME NEW j \in 1 .. Len(s)
       PROVE  m[j] \in 1 .. n /\ m[j] # k /\ s[j] = list[m[j]]
  <2>1. CASE j < k
    <3>1. j \in 1 .. i /\ m[j] = j /\ j \in 1 .. n
      BY <1>2, <1>5, <1>11, <2>1
    <3> QED
      BY <1>8, <2>1, <3>1
  <2>2. CASE ~(j < k)
    <3>1. j - i \in 1 .. n - kk /\ i + (j - i) = j /\ kk + (j - i) = j + 1 /\ m[j] = j + 1
      BY <1>2, <1>4, <1>5, <1>11, <2>2
    <3>2. s[j] = list[j + 1]
      BY <1>9, <3>1
    <3> QED
      BY <1>2, <1>11, <2>2, <3>1, <3>2
  <2> QED
    BY <2>1, <2>2
<1>13. \A j, l \in 1 .. Len(s) : m[j] = m[l] => j = l
  BY <1>2, <1>11
<1>14. \A x \in 1 .. n : x # k => \E j \in 1 .. Len(s) : m[j] = x
  <2> SUFFICES ASSUME NEW x \in 1 .. n, x # k PROVE \E j \in 1 .. Len(s) : m[j] = x
    OBVIOUS
  <2>1. CASE x < k
    <3>1. x \in 1 .. Len(s) /\ m[x] = x
      BY <1>2, <1>11, <2>1
    <3> QED
      BY <3>1
  <2>2. CASE ~(x < k)
    <3>1. x - 1 \in 1 .. Len(s) /\ m[x - 1] = x
      BY <1>2, <1>11, <2>2
    <3> QED
      BY <3>1
  <2> QED
    BY <2>1, <2>2
<1> HIDE DEF m
<1>15. Once(s)
  <2> SUFFICES ASSUME NEW j \in 1 .. Len(s), NEW l \in 1 .. Len(s), s[j] = s[l] PROVE j = l
    BY DEF Once
  <2>1. list[m[j]] = list[m[l]] /\ m[j] \in 1 .. n /\ m[l] \in 1 .. n
    BY <1>12
  <2>2. m[j] = m[l]
    BY <2>1 DEF Once
  <2> QED
    BY <1>13, <2>2
<1>16. c \notin ToSet(s)
  <2> SUFFICES ASSUME NEW j \in 1 .. Len(s), s[j] = c PROVE FALSE
    BY <1>7, ToSetSeq
  <2>1. m[j] \in 1 .. n /\ m[j] # k /\ list[m[j]] = list[k]
    BY <1>1, <1>12
  <2> QED
    BY <2>1 DEF Once
<1>17. \A x \in ToSet(list) : x # c => x \in ToSet(s)
  <2> SUFFICES ASSUME NEW x \in ToSet(list), x # c PROVE x \in ToSet(s)
    OBVIOUS
  <2>1. PICK j \in 1 .. n : list[j] = x
    BY ToSetSeq
  <2>2. j # k
    BY <1>1, <2>1
  <2>3. PICK l \in 1 .. Len(s) : m[l] = j
    BY <1>14, <2>2
  <2>4. s[l] = x
    BY <1>12, <2>1, <2>3
  <2> QED
    BY <1>7, <2>4, InSeq
<1>18. p \in {HEAD} \cup ToSet(s)
  <2>1. CASE k = 1
    BY <1>1, <2>1
  <2>2. CASE k # 1
    <3>1. k - 1 \in 1 .. i /\ k - 1 \in 1 .. Len(s) /\ p = list[k - 1]
      BY <1>1, <1>2, <1>5, <1>11, <2>2
    <3>2. s[k - 1] = p
      BY <1>8, <3>1
    <3> QED
      BY <1>7, <3>1, <3>2, InSeq
  <2> QED
    BY <2>1, <2>2
<1> QED
  BY <1>10, <1>15, <1>16, <1>17, <1>18 DEF Unlinked

(* What was added stays so.                                                *)
Added(H, G) == \A t \in Timers : G.tm[t].st # "none" => H.tm[t].st # "none"

(* What is told of the timers after a handler has returned.                *)
AfterDone(a, G, w) ==
  /\ TimersGood(a.T) /\ Counts(a.T, G) /\ a.w \in WalkType /\ Added(a.T, G)
  /\ OwnedTimers(G) => OwnedTimers(a.T)
  /\ Listed(G) /\ Linked(G.list, w.prv, w.cur) =>
       Listed(a.T) /\ a.w.prv \in {HEAD} \cup ToSet(a.T.list)

(* It is what the end of a turn of timer_event's loop makes: the timer     *)
(* counted, and unlinked and freed when it is to be deleted.               *)
LEMMA AfterGood ==
  ASSUME NEW G, TimersGood(G), NEW w \in WalkType, Called(G, w)
  PROVE  AfterDone(AfterHandler(G, w), G, w)
<1> DEFINE c == w.cur
           d0 == G.tm[c]
           d == Counted(d0, w.now)
           U == [G EXCEPT !.tm[c] = Counted(@, w.now)]
           s == Upto(U.list, w.prv) \o After(U.list, c)
           e == [d EXCEPT !.st = "freed"]
           K == [U EXCEPT !.list = s, !.tm[c].st = "freed"]
           a == AfterHandler(G, w)
<1>1. a = IF U.tm[c].is_deleted THEN [T |-> K, w |-> w] ELSE [T |-> U, w |-> [w EXCEPT !.prv = c]]
  BY Zenon DEF AfterHandler
<1>2. /\ c \in Timers /\ d0.st # "none" /\ d0.next_ms <= w.now
  BY DEF Called
<1>3. w.now \in 0 .. MaxNow /\ w.prv \in Timers \cup {HEAD}
  BY Zenon DEF WalkType
<1>4. /\ G \in TimersType /\ G.list \in Seq(Timers) /\ ToSet(G.list) \subseteq Timers
      /\ G.tm \in [Timers -> TimerType] /\ \A t \in Timers : G.tm[t] \in TimerType /\ TimerFine(G.tm[t])
      /\ \A t \in ToSet(G.list) : G.tm[t].st # "none"
  BY TimersAccess DEF TimersGood
<1>5. /\ d \in TimerType /\ d.st = d0.st /\ d.mgr = d0.mgr /\ d.period_ms = d0.period_ms
      /\ d0.decount > 0 /\ d.decount = 0 => ~d.is_active
  <2> HIDE DEF d0, c
  <2>1. d0 \in TimerType /\ TimerFine(d0)
    BY <1>2, <1>4 DEF d0
  <2> QED
    BY <1>2, <1>3, <2>1, CountedGood
<1>6. e \in TimerType /\ e.st = "freed" /\ e.mgr = d.mgr /\ e.period_ms = d.period_ms
      /\ e.decount = d.decount /\ e.is_active = d.is_active
  <2> HIDE DEF d
  <2> QED
    BY <1>5, Zenon DEF TimerType
<1>7. U = [G EXCEPT !.tm = [G.tm EXCEPT ![c] = d]]
  BY <1>4, Zenon DEF TimersType
<1> HIDE DEF d0, d, e, c
<1>8. Replaced(U, G, c, d)
  <2> DEFINE m == [G.tm EXCEPT ![c] = d]
  <2>1. m \in [Timers -> TimerType] /\ m[c] = d /\ \A u \in Timers : u # c => m[u] = G.tm[u]
    BY <1>2, <1>4, <1>5
  <2> HIDE DEF m
  <2>2. U \in TimersType /\ U.list = G.list /\ U.tm = m
    BY <1>4, <1>7, <2>1, Zenon DEF TimersType, m
  <2> HIDE DEF U
  <2> QED
    BY <2>1, <2>2 DEF Replaced
<1>9. U.list = G.list /\ U.tm[c] = d /\ U \in TimersType /\ (\A u \in Timers : u # c => U.tm[u] = G.tm[u])
      /\ U.tm \in [Timers -> TimerType]
  BY <1>8, TimersAccess DEF Replaced
<1>10. K = [U EXCEPT !.list = s, !.tm = [U.tm EXCEPT ![c] = e]]
  <2> HIDE DEF s, U
  <2>1. K = [U EXCEPT !.list = s, !.tm = [U.tm EXCEPT ![c] = [U.tm[c] EXCEPT !.st = "freed"]]]
    BY <1>9, Zenon DEF TimersType
  <2> QED
    BY <1>9, <2>1 DEF e
<1> HIDE DEF U
<1>11. s \in Seq(Timers) /\ ToSet(s) \subseteq ToSet(G.list)
  BY <1>4, <1>9, UnlinkType, Zenon DEF Spliced
<1> HIDE DEF s
<1>12. /\ K \in TimersType /\ K.list = s /\ K.tm[c] = e
       /\ \A u \in Timers : u # c => K.tm[u] = U.tm[u]
  <2> DEFINE m == [U.tm EXCEPT ![c] = e]
  <2>1. m \in [Timers -> TimerType] /\ m[c] = e /\ \A u \in Timers : u # c => m[u] = U.tm[u]
    BY <1>2, <1>6, <1>9
  <2>2. K = [U EXCEPT !.list = s, !.tm = m]
    BY <1>10
  <2> HIDE DEF m, K
  <2>3. K \in TimersType /\ K.list = s /\ K.tm = m
    BY <1>9, <1>11, <2>1, <2>2, Zenon DEF TimersType
  <2> QED
    BY <2>1, <2>3
<1> HIDE DEF K
<1>13. TimerFine(d) /\ TimerFine(e)
  <2>1. TimerFine(d0)
    BY <1>2, <1>4 DEF d0
  <2> QED
    BY <1>2, <1>5, <1>6, <2>1, Zenon DEF TimerFine
<1>14. CASE U.tm[c].is_deleted
  <2>1. a.T = K /\ a.w = w
    BY <1>1, <1>14
  <2>2. \A u \in Timers : TimerFine(K.tm[u])
    BY <1>4, <1>9, <1>12, <1>13
  <2>3. \A u \in ToSet(K.list) : K.tm[u].st # "none"
    <3> SUFFICES ASSUME NEW u \in ToSet(K.list) PROVE K.tm[u].st # "none"
      OBVIOUS
    <3>1. u \in ToSet(G.list) /\ u \in Timers
      BY <1>4, <1>11, <1>12
    <3>2. CASE u = c
      BY <1>6, <1>12, <3>2
    <3>3. CASE u # c
      BY <1>4, <1>9, <1>12, <3>1, <3>3
    <3> QED
      BY <3>2, <3>3
  <2>4. Counts(K, G)
    <3> SUFFICES ASSUME NEW u \in Timers, G.tm[u].decount > 0, K.tm[u].decount = 0 PROVE ~K.tm[u].is_active
      BY DEF Counts
    <3>1. CASE u = c
      BY <1>5, <1>6, <1>12, <3>1 DEF d0
    <3>2. CASE u # c
      BY <1>9, <1>12, <3>2
    <3> QED
      BY <3>1, <3>2
  <2>5. OwnedTimers(G) => OwnedTimers(K)
    <3> SUFFICES ASSUME OwnedTimers(G), NEW u \in Timers, K.tm[u].st # "none" PROVE K.tm[u].mgr
      BY DEF OwnedTimers
    <3>1. G.tm[u].st # "none" => G.tm[u].mgr
      BY DEF OwnedTimers
    <3>2. CASE u = c
      <4>1. d0.mgr
        BY <1>2, <3>1, <3>2 DEF d0
      <4> QED
        BY <1>5, <1>6, <1>12, <3>2, <4>1
    <3>3. CASE u # c
      BY <1>9, <1>12, <3>1, <3>3
    <3> QED
      BY <3>2, <3>3
  <2>6. ASSUME Listed(G), Linked(G.list, w.prv, c) PROVE Listed(K) /\ w.prv \in {HEAD} \cup ToSet(K.list)
    <3>1. Once(G.list) /\ \A t \in Timers : G.tm[t].st = "live" <=> t \in ToSet(G.list)
      BY <2>6 DEF Listed
    <3>2. s = Upto(G.list, w.prv) \o After(G.list, c)
      BY <1>9 DEF s
    <3>3. /\ ToSet(s) = ToSet(G.list) \ {c} /\ Once(s)
          /\ w.prv \in {HEAD} \cup ToSet(s)
      <4>1. Unlinked(s, G.list, w.prv, c)
        BY <1>4, <2>6, <3>1, <3>2, UnlinkOne, Zenon
      <4> QED
        BY <4>1 DEF Unlinked
    <3>4. ASSUME NEW t \in Timers PROVE K.tm[t].st = "live" <=> t \in ToSet(s)
      <4>1. CASE t = c
        <5>1. K.tm[t].st = "freed" /\ t \notin ToSet(s)
          BY <1>6, <1>12, <3>3, <4>1
        <5> QED
          BY <5>1
      <4>2. CASE t # c
        BY <1>9, <1>12, <3>1, <3>3, <4>2
      <4> QED
        BY <4>1, <4>2
    <3> QED
      BY <1>12, <3>3, <3>4 DEF Listed
  <2>7. TimersGood(K)
    BY <1>12, <2>2, <2>3, Zenon DEF TimersGood
  <2>8. Added(K, G)
    BY <1>6, <1>9, <1>12 DEF Added
  <2> QED
    BY <2>1, <2>4, <2>5, <2>6, <2>7, <2>8 DEF AfterDone, c
<1>15. CASE ~U.tm[c].is_deleted
  <2> DEFINE w2 == [w EXCEPT !.prv = c]
  <2>1. a.T = U /\ a.w = w2
    BY <1>1, <1>15
  <2>2. w2 \in WalkType /\ w2.prv = c
    BY <1>2, Zenon DEF WalkType
  <2> HIDE DEF w2
  <2>3. \A u \in Timers : U.tm[u].st = G.tm[u].st
    BY <1>5, <1>9 DEF d0
  <2>4. TimersGood(U)
    <3>1. \A u \in Timers : TimerFine(U.tm[u])
      BY <1>4, <1>9, <1>13
    <3>2. \A u \in ToSet(U.list) : U.tm[u].st # "none"
      BY <1>4, <1>9, <2>3
    <3> QED
      BY <1>9, <3>1, <3>2, Zenon DEF TimersGood
  <2>5. Counts(U, G)
    <3> SUFFICES ASSUME NEW u \in Timers, G.tm[u].decount > 0, U.tm[u].decount = 0 PROVE ~U.tm[u].is_active
      BY DEF Counts
    <3>1. CASE u = c
      BY <1>5, <1>9, <3>1 DEF d0
    <3>2. CASE u # c
      BY <1>9, <3>2
    <3> QED
      BY <3>1, <3>2
  <2>6. OwnedTimers(G) => OwnedTimers(U)
    <3> SUFFICES ASSUME OwnedTimers(G), NEW u \in Timers, U.tm[u].st # "none" PROVE U.tm[u].mgr
      BY DEF OwnedTimers
    <3>1. G.tm[u].mgr
      BY <2>3 DEF OwnedTimers
    <3>2. CASE u = c
      BY <1>5, <1>9, <3>1, <3>2 DEF d0
    <3>3. CASE u # c
      BY <1>9, <3>1, <3>3
    <3> QED
      BY <3>2, <3>3
  <2>7. ASSUME Listed(G), Linked(G.list, w.prv, c) PROVE Listed(U) /\ c \in ToSet(U.list)
    <3>1. c \in ToSet(G.list)
      BY <1>4, <2>7, ToSetSeq DEF Linked
    <3> QED
      BY <1>9, <2>3, <2>7, <3>1 DEF Listed
  <2>8. Added(U, G)
    BY <2>3 DEF Added
  <2> QED
    BY <2>1, <2>2, <2>4, <2>5, <2>6, <2>7, <2>8 DEF AfterDone, c
<1> QED
  BY <1>14, <1>15 DEF a

(* When no countdown goes on, none ends.                                   *)
LEMMA CountsSame == ASSUME NEW G, NEW H, SameCounts(H, G) PROVE Counts(H, G)
BY DEF Counts, SameCounts

(* The timer that ev_mgr_add_timer fills.                                  *)
NewTimer(a, garbage, time) ==
  [st |-> "live", refcount |-> garbage,
   next_ms |-> (time + a.start) - (a.accuracy \div 2),
   accuracy_ms |-> IF a.accuracy = 0 THEN 1 ELSE a.accuracy,
   period_ms |-> IF a.period = 0 THEN DEFAULT_PERIOD_MS ELSE a.period,
   decount |-> a.count,
   is_active |-> TRUE, is_deleted |-> FALSE, auto_unref |-> a.aunref, mgr |-> TRUE]

(* It is a timer.                                                          *)
LEMMA NewTimerGood ==
  ASSUME NEW a \in TimerArgs, NEW garbage \in RefGarbage, NEW time \in 1 .. MaxNow
  PROVE  /\ NewTimer(a, garbage, time) \in TimerType /\ TimerFine(NewTimer(a, garbage, time))
         /\ NewTimer(a, garbage, time).st = "live" /\ NewTimer(a, garbage, time).mgr = TRUE
<1>1. /\ a \in [start : Nat, count : Nat, period : Nat, accuracy : Nat, aunref : BOOLEAN]
      /\ a.accuracy \div 2 <= 1 + a.start /\ MaxNow + a.start <= TIME_MS_MAX
      /\ MaxNow + (IF a.period = 0 THEN DEFAULT_PERIOD_MS ELSE a.period) <= TIME_MS_MAX
  BY TimerArgsAssumption
<1>2. /\ a.start \in Nat /\ a.count \in Nat /\ a.period \in Nat /\ a.accuracy \in Nat /\ a.aunref \in BOOLEAN
  BY <1>1, Zenon
<1> DEFINE next == (time + a.start) - (a.accuracy \div 2)
           acc == IF a.accuracy = 0 THEN 1 ELSE a.accuracy
           per == IF a.period = 0 THEN DEFAULT_PERIOD_MS ELSE a.period
           d == NewTimer(a, garbage, time)
<1>3. MaxNow \in Nat /\ TIME_MS_MAX \in Nat /\ time \in Nat
  BY BoundsAssumption, TimeAssumption
<1>4. a.accuracy \div 2 \in Nat
  BY <1>2
<1>5. next \in 0 .. TIME_MS_MAX
  <2> DEFINE h == a.accuracy \div 2
  <2>1. h \in Nat /\ h <= 1 + a.start
    BY <1>1, <1>4
  <2>2. time >= 1 /\ time <= MaxNow
    BY <1>3
  <2> HIDE DEF h
  <2>3. (time + a.start) - h \in 0 .. TIME_MS_MAX
    BY <1>1, <1>2, <1>3, <2>1, <2>2
  <2> QED
    BY <2>3 DEF h
<1>6. acc \in Nat
  BY <1>2
<1>7. per \in Nat /\ per >= 1 /\ MaxNow + per <= TIME_MS_MAX
  BY <1>1, <1>2 DEF DEFAULT_PERIOD_MS
<1>8. garbage \in 0 .. RefMod - 1
  BY GarbageAssumption
<1>9. d = [st |-> "live", refcount |-> garbage, next_ms |-> next, accuracy_ms |-> acc,
           period_ms |-> per, decount |-> a.count,
           is_active |-> TRUE, is_deleted |-> FALSE, auto_unref |-> a.aunref, mgr |-> TRUE]
  BY DEF NewTimer
<1> HIDE DEF next, acc, per, d
<1>10. d \in TimerType
  BY <1>2, <1>5, <1>6, <1>7, <1>8, <1>9, Zenon DEF TimerType
<1>11. d.st = "live" /\ d.period_ms = per /\ d.mgr = TRUE
  BY <1>9, Zenon
<1>12. TimerFine(d)
  BY <1>7, <1>11 DEF TimerFine
<1> QED
  BY <1>10, <1>11, <1>12 DEF d

(* What is told of the timers after ev_mgr_add_timer.                      *)
TimerAdded(H, G, t) ==
  /\ TimersGood(H) /\ Counts(H, G) /\ Stays(H, G) /\ H.tm[t].st # "none"
  /\ OwnedTimers(G) => OwnedTimers(H)
  /\ Listed(G) => Listed(H)

(* ev_mgr_add_timer does so, whether the timerfd can be set or not.        *)
LEMMA AddTimers ==
  ASSUME NEW G, TimersGood(G), NEW t \in Timers, G.tm[t].st = "none",
         NEW a \in TimerArgs, NEW garbage \in RefGarbage, NEW time \in 1 .. MaxNow, NEW bad \in BOOLEAN, NEW H,
         H = ev_mgr_add_timer(G, t, a.start, a.count, a.period, a.accuracy, a.aunref, garbage, time, bad)
  PROVE  TimerAdded(H, G, t)
<1> SUFFICES /\ TimersGood(H) /\ Counts(H, G) /\ Stays(H, G) /\ H.tm[t].st # "none"
             /\ OwnedTimers(G) => OwnedTimers(H)
             /\ Listed(G) => Listed(H)
  BY DEF TimerAdded
<1> DEFINE d == NewTimer(a, garbage, time)
           list == <<t>> \o G.list
           m == [G.tm EXCEPT ![t] = d]
           U == [G EXCEPT !.tm[t] = d, !.list = <<t>> \o @]
           V == timer_set(U, TIME_MS_MAX, time, bad)
           e == [V.tm[t] EXCEPT !.is_deleted = TRUE, !.is_active = FALSE]
           K == [V EXCEPT !.tm[t].is_deleted = TRUE, !.tm[t].is_active = FALSE]
<1>1. H = IF TimerSetFails(U, TIME_MS_MAX, bad) THEN K ELSE V
  BY Zenon DEF ev_mgr_add_timer, NewTimer
<1>2. d \in TimerType /\ TimerFine(d) /\ d.st = "live" /\ d.mgr = TRUE
  BY NewTimerGood
<1> HIDE DEF d
<1>3. /\ G \in TimersType /\ G.list \in Seq(Timers) /\ ToSet(G.list) \subseteq Timers
      /\ G.tm \in [Timers -> TimerType] /\ \A u \in Timers : TimerFine(G.tm[u])
      /\ \A u \in ToSet(G.list) : G.tm[u].st # "none"
  BY TimersAccess DEF TimersGood
<1>4. list \in Seq(Timers) /\ ToSet(list) = ToSet(G.list) \cup {t}
  BY <1>3, ConsSet
<1>5. m \in [Timers -> TimerType] /\ m[t] = d /\ \A u \in Timers : u # t => m[u] = G.tm[u]
  BY <1>2, <1>3
<1>6. U = [G EXCEPT !.tm = m, !.list = list]
  BY <1>3, Zenon DEF TimersType
<1>7. Len(list) = Len(G.list) + 1 /\ list[1] = t /\ \A j \in 1 .. Len(G.list) : list[j + 1] = G.list[j]
  BY <1>3
<1> HIDE DEF m, list, U
<1>8. U \in TimersType /\ U.tm = m /\ U.list = list
  BY <1>3, <1>4, <1>5, <1>6, Zenon DEF TimersType
<1>9. \A u \in Timers : TimerFine(U.tm[u])
  BY <1>2, <1>3, <1>5, <1>8
<1>10. TimersGood(U)
  <2>1. \A u \in ToSet(U.list) : U.tm[u].st # "none"
    BY <1>2, <1>3, <1>4, <1>5, <1>8
  <2> QED
    BY <1>8, <1>9, <2>1, Zenon DEF TimersGood
<1>11. OwnedTimers(G) => OwnedTimers(U)
  <2> SUFFICES ASSUME OwnedTimers(G), NEW u \in Timers, U.tm[u].st # "none" PROVE U.tm[u].mgr
    BY DEF OwnedTimers
  <2>1. CASE u = t
    BY <1>2, <1>5, <1>8, <2>1
  <2>2. CASE u # t
    BY <1>5, <1>8, <2>2 DEF OwnedTimers
  <2> QED
    BY <2>1, <2>2
<1>12. ASSUME Listed(G) PROVE Listed(U)
  <2>1. t \notin ToSet(G.list)
    BY <1>3
  <2>2. Once(list)
    <3> SUFFICES ASSUME NEW i \in 1 .. Len(list), NEW j \in 1 .. Len(list), list[i] = list[j] PROVE i = j
      BY DEF Once
    <3>1. Len(G.list) \in Nat
      BY <1>3
    <3>2. \A k \in 1 .. Len(list) : k # 1 => /\ k - 1 \in 1 .. Len(G.list)
                                             /\ list[k] = G.list[k - 1] /\ list[k] # t
      <4> SUFFICES ASSUME NEW k \in 1 .. Len(list), k # 1
                   PROVE  k - 1 \in 1 .. Len(G.list) /\ list[k] = G.list[k - 1] /\ list[k] # t
        OBVIOUS
      <4>1. k - 1 \in 1 .. Len(G.list) /\ (k - 1) + 1 = k
        BY <1>7, <3>1
      <4>2. list[k] = G.list[k - 1]
        BY <1>7, <4>1
      <4>3. G.list[k - 1] \in ToSet(G.list)
        BY <1>3, <4>1, InSeq
      <4> QED
        BY <2>1, <4>1, <4>2, <4>3
    <3>3. CASE i = 1
      BY <1>7, <3>2, <3>3
    <3>4. CASE j = 1
      BY <1>7, <3>2, <3>4
    <3>5. CASE i # 1 /\ j # 1
      <4>1. G.list[i - 1] = G.list[j - 1] /\ i - 1 \in 1 .. Len(G.list) /\ j - 1 \in 1 .. Len(G.list)
        BY <3>2, <3>5
      <4>2. i - 1 = j - 1
        BY <1>12, <4>1 DEF Listed, Once
      <4> QED
        BY <4>2
    <3> QED
      BY <3>3, <3>4, <3>5
  <2>3. \A u \in Timers : U.tm[u].st = "live" <=> u \in ToSet(list)
    <3> SUFFICES ASSUME NEW u \in Timers PROVE U.tm[u].st = "live" <=> u \in ToSet(list)
      OBVIOUS
    <3>1. G.tm[u].st = "live" <=> u \in ToSet(G.list)
      BY <1>12 DEF Listed
    <3>2. CASE u = t
      BY <1>2, <1>4, <1>5, <1>8, <3>2
    <3>3. CASE u # t
      BY <1>4, <1>5, <1>8, <3>1, <3>3
    <3> QED
      BY <3>2, <3>3
  <2> QED
    BY <1>8, <2>2, <2>3 DEF Listed
<1>13. Counts(U, G)
  <2> SUFFICES ASSUME NEW u \in Timers, G.tm[u].decount > 0, U.tm[u].decount = 0 PROVE ~U.tm[u].is_active
    BY DEF Counts
  <2>1. CASE u = t
    <3>1. G.tm[t].decount = 0
      BY <1>3 DEF TimerFine
    <3> QED
      BY <2>1, <3>1
  <2>2. CASE u # t
    BY <1>5, <1>8, <2>2
  <2> QED
    BY <2>1, <2>2
<1>14. /\ TimersGood(V) /\ SameCounts(V, U) /\ (OwnedTimers(U) => OwnedTimers(V))
       /\ Listed(U) => Listed(V)
  <2>1. TIME_MS_MAX \in Nat /\ time \in Nat
    BY TimeAssumption
  <2> QED
    BY <1>10, <2>1, SetTimers, Zenon
<1> HIDE DEF V
<1>15. /\ TimersGood(K) /\ SameCounts(K, V) /\ (OwnedTimers(V) => OwnedTimers(K))
       /\ Listed(V) => Listed(K)
  <2>1. V \in TimersType /\ V.tm \in [Timers -> TimerType] /\ V.tm[t] \in TimerType /\ V.cleanup \in BOOLEAN
    BY <1>14, TimersAccess DEF TimersGood
  <2>2. K = PutTimer(V, t, e, V.cleanup)
    BY <2>1, Zenon DEF TimersType, PutTimer
  <2>3. e \in TimerType /\ SameTimer(e, V.tm[t]) /\ e.st = V.tm[t].st /\ e.mgr = V.tm[t].mgr
    BY <2>1, Zenon DEF TimerType, SameTimer
  <2> HIDE DEF e, K
  <2>4. Replaced(K, V, t, e)
    BY <2>1, <2>2, <2>3, TimerPut, Zenon
  <2> QED
    BY <1>14, <2>3, <2>4, TimerPutGood, Zenon
<1>16. Counts(V, G)
  <2>1. \A u \in Timers : V.tm[u].decount = U.tm[u].decount
    BY <1>14 DEF SameCounts
  <2>2. \A u \in Timers : G.tm[u].decount > 0 => U.tm[u].decount # 0
    <3>1. G.tm[t].decount = 0
      BY <1>3 DEF TimerFine
    <3> QED
      BY <1>5, <1>8, <3>1
  <2> QED
    BY <2>1, <2>2 DEF Counts
<1>17. Counts(K, G)
  <2>1. \A u \in Timers : K.tm[u].decount = U.tm[u].decount
    BY <1>14, <1>15 DEF SameCounts
  <2>2. \A u \in Timers : G.tm[u].decount > 0 => U.tm[u].decount # 0
    <3>1. G.tm[t].decount = 0
      BY <1>3 DEF TimerFine
    <3> QED
      BY <1>5, <1>8, <3>1
  <2> QED
    BY <2>1, <2>2 DEF Counts
<1>18. Stays(U, G)
  BY <1>5, <1>8 DEF Stays
<1>19. Stays(V, G)
  BY <1>14, <1>18, Zenon DEF SameCounts, Stays
<1>20. Stays(K, G)
  BY <1>15, <1>19, Zenon DEF SameCounts, Stays
<1>21. U.tm[t].st # "none"
  BY <1>2, <1>5, <1>8
<1>22. V.tm[t].st # "none"
  BY <1>14, <1>21 DEF SameCounts, Stays
<1>23. K.tm[t].st # "none"
  BY <1>15, <1>22 DEF SameCounts, Stays
<1> HIDE DEF K
<1>24. CASE H = K
  BY <1>20, <1>11, <1>12, <1>14, <1>15, <1>17, <1>24, <1>23
<1>25. CASE H = V
  BY <1>11, <1>12, <1>14, <1>16, <1>25, <1>19, <1>22
<1> QED
  BY <1>1, <1>24, <1>25

(* The end of the manager keeps what is told of the timers, but that they  *)
(* have one.                                                               *)
LEMMA OrphanTimersGood ==
  ASSUME NEW G, TimersGood(G), NEW H, H = OrphanTimers(G)
  PROVE  /\ TimersGood(H) /\ SameCounts(H, G)
         /\ Listed(G) => Listed(H)
<1> DEFINE m == [t \in Timers |-> [G.tm[t] EXCEPT !.mgr = FALSE]]
<1>1. /\ G \in TimersType /\ G.list \in Seq(Timers) /\ ToSet(G.list) \subseteq Timers
      /\ \A t \in Timers : G.tm[t] \in TimerType
      /\ \A t \in Timers : TimerFine(G.tm[t])
      /\ \A t \in ToSet(G.list) : G.tm[t].st # "none"
  BY TimersAccess DEF TimersGood
<1>2. ASSUME NEW t \in Timers
      PROVE  /\ [G.tm[t] EXCEPT !.mgr = FALSE] \in TimerType
             /\ SameTimer([G.tm[t] EXCEPT !.mgr = FALSE], G.tm[t])
             /\ [G.tm[t] EXCEPT !.mgr = FALSE].st = G.tm[t].st
  BY <1>1, Zenon DEF TimerType, SameTimer
<1>3. /\ m \in [Timers -> TimerType]
      /\ \A t \in Timers : SameTimer(m[t], G.tm[t]) /\ m[t].st = G.tm[t].st
  BY <1>2, Zenon
<1>4. H = [G EXCEPT !.tm = m, !.when = 0, !.fired = FALSE]
  BY Zenon DEF OrphanTimers
<1> HIDE DEF m
<1>5. H \in TimersType /\ H.list = G.list /\ H.tm = m
  <2>1. 0 \in Nat
    OBVIOUS
  <2> QED
    BY <1>1, <1>3, <1>4, <2>1, Zenon DEF TimersType
<1>6. \A t \in Timers : TimerFine(H.tm[t])
  <2> SUFFICES ASSUME NEW t \in Timers PROVE TimerFine(H.tm[t])
    OBVIOUS
  <2>1. H.tm[t].st = G.tm[t].st /\ SameTimer(H.tm[t], G.tm[t]) /\ TimerFine(G.tm[t])
    BY <1>1, <1>3, <1>5
  <2> QED
    BY <2>1, Zenon DEF TimerFine, SameTimer
<1>7. SameCounts(H, G)
  BY <1>3, <1>5, Zenon DEF SameCounts, SameTimer, Stays
<1>8. TimersGood(H)
  BY <1>1, <1>3, <1>5, <1>6, Zenon DEF TimersGood
<1> QED
  BY <1>3, <1>5, <1>7, <1>8, Zenon DEF Listed

(* The empty list has no element.                                          *)
LEMMA EmptySet == ToSet(<<>>) = {}
BY DEF ToSet

(* A new manager has no timer.                                             *)
LEMMA NoTimersGood == TimersGood(NoTimers) /\ Listed(NoTimers) /\ OwnedTimers(NoTimers)
<1> DEFINE m == [t \in Timers |-> NoTimer]
           G == NoTimers
<1>1. NoTimer \in TimerType /\ NoTimer.st = "none" /\ NoTimer.decount = 0
  <2>1. 0 \in 0 .. RefMod - 1 /\ 0 \in 0 .. TIME_MS_MAX /\ 0 \in Nat /\ 1 \in Nat
    BY RefAssumption, TimeAssumption
  <2> QED
    BY <2>1, Zenon DEF NoTimer, TimerType
<1>2. m \in [Timers -> TimerType] /\ \A t \in Timers : m[t] = NoTimer
  BY <1>1
<1>3. G = [tm |-> m, list |-> <<>>, cleanup |-> FALSE, last |-> 0, when |-> 0, fired |-> FALSE]
  BY Zenon DEF NoTimers
<1>4. <<>> \in Seq(Timers) /\ 0 \in Nat /\ Len(<<>>) = 0
  OBVIOUS
<1> HIDE DEF m, G
<1>5. G \in TimersType /\ G.list = <<>> /\ G.tm = m
  BY <1>2, <1>3, <1>4, Zenon DEF TimersType
<1>6. \A t \in Timers : G.tm[t].st = "none" /\ G.tm[t].decount = 0
  BY <1>1, <1>2, <1>5
<1>7. ToSet(G.list) = {}
  BY <1>5, EmptySet
<1>8. \A t \in Timers : TimerFine(G.tm[t])
  BY <1>6 DEF TimerFine
<1>9. TimersGood(G)
  BY <1>5, <1>7, <1>8 DEF TimersGood
<1>10. Listed(G)
  <2>1. Once(G.list)
    BY <1>5 DEF Once
  <2> QED
    BY <1>6, <1>7, <2>1 DEF Listed
<1>11. OwnedTimers(G)
  BY <1>6 DEF OwnedTimers
<1> QED
  BY <1>9, <1>10, <1>11 DEF G

(* The types of the variables of the loop, and what is called in each of   *)
(* its steps.                                                              *)
LoopType ==
  /\ state \in {"Idle", "Preparing", "Ready", "Waiting", "Pending", "Dispatching"}
  /\ event \in [ptr : Fds \cup {TIMER, NONE}, hup : BOOLEAN]
  /\ pc \in Situations \ {"pending"} /\ cur \in Preps \cup {NONE}
  /\ upper \in Nat /\ wake \in 0 .. MaxWake /\ now \in 1 .. MaxNow
  /\ fault \in BOOLEAN
  /\ pc = "fdcb" => event.ptr \in Fds
  /\ pc = "prep" => cur \in Preps

(* The references of the manager and those that the client holds.          *)
RefsType == refcount \in 0 .. MaxRef /\ refs \in [Objects -> 0 .. MaxRef]

(* The fd objects that the client holds live; without a use after free,    *)
(* all of them are held and counted.                                       *)
FdsHeld ==
  /\ F \in FdsType
  /\ \A f \in Fds : refs[f] > 0 => F.efd[f].st = "live"
  /\ ~fault => FdsRefs(F, refs, refcount)

(* The preparers are held.                                                 *)
PrepsHeld == PrepsRefs(P, refs, refcount)

(* The timers are fine, and the one whose handler runs was due.            *)
TimersHeld == TimersGood(T) /\ walk \in WalkType /\ (pc = "timcb" => Called(T, walk))

(* The inductive invariant behind FdAndPrepareRefs and CountdownEnds.      *)
RefsInv == LoopType /\ RefsType /\ FdsHeld /\ PrepsHeld /\ TimersHeld

(* It implies the first property.                                          *)
LEMMA RefsImplies == RefsInv => FdAndPrepareRefs
<1> SUFFICES ASSUME RefsInv PROVE FdAndPrepareRefs
  OBVIOUS
<1>1. TypeOK
  BY Zenon DEF RefsInv, LoopType, RefsType, FdsHeld, PrepsHeld, PrepsRefs, TimersHeld, TimersGood,
         TimersType, PrepsType, PrepType, WalkType, TypeOK
<1>2. \A f \in Fds : refs[f] > 0 => F.efd[f].st = "live"
  BY DEF RefsInv, FdsHeld
<1>3. \A p \in Preps : PrepHeld(P.pr[p], refs[p], P.cleanup, refcount)
  BY DEF RefsInv, PrepsHeld, PrepsRefs
<1>4. \A o \in Fds \cup Preps : refs[o] > 0 => St(o) = "live"
  <2> SUFFICES ASSUME NEW o \in Fds \cup Preps, refs[o] > 0 PROVE St(o) = "live"
    OBVIOUS
  <2>1. CASE o \in Fds
    BY <1>2, <2>1, Zenon DEF St
  <2>2. CASE o \in Preps
    <3>1. o \notin Fds /\ o \notin Timers
      BY <2>2, ObjectsAssumption
    <3>2. P.pr[o].st = "live"
      BY <1>3, <2>2, Zenon DEF PrepHeld
    <3> QED
      BY <3>1, <3>2, Zenon DEF St
  <2> QED
    BY <2>1, <2>2
<1>5. ASSUME ~fault, NEW f \in LiveFds(F)
      PROVE  IF refs[f] > 0 THEN F.efd[f].refcount = refs[f] /\ ~F.efd[f].is_deleted
             ELSE F.efd[f].is_deleted /\ (F.efd[f].mgr => F.cleanup)
  <2>1. f \in Fds /\ F.efd[f].st = "live"
    BY DEF LiveFds
  <2>2. FdCounted(F.efd[f], refs[f], F.cleanup)
    BY <1>5, <2>1 DEF RefsInv, FdsHeld, FdsRefs
  <2> QED
    BY <2>1, <2>2, Zenon DEF FdCounted
<1>6. ASSUME NEW p \in Preps, P.pr[p].st = "live"
      PROVE  P.pr[p].refcount = refs[p] /\ (refs[p] = 0 /\ P.pr[p].mgr => P.cleanup)
  BY <1>3, <1>6, Zenon DEF PrepHeld
<1> QED
  BY <1>1, <1>4, <1>5, <1>6 DEF FdAndPrepareRefs

(* It holds at first.                                                      *)
LEMMA RefsInit == Init => RefsInv
<1> SUFFICES ASSUME Init PROVE RefsInv
  OBVIOUS
<1>1. \A o \in Objects : refs[o] = 0 /\ refs[o] \in 0 .. MaxRef
  BY BoundsAssumption, RefMax DEF Init
<1>2. LoopType
  <2>1. event \in [ptr : Fds \cup {TIMER, NONE}, hup : BOOLEAN]
    BY Zenon DEF Init, NoEvent
  <2>2. TIME_MS_MAX \in Nat /\ 0 \in 0 .. MaxWake /\ 1 \in 1 .. MaxNow
    BY BoundsAssumption, TimeAssumption
  <2>3. pc \in Situations \ {"pending"} /\ pc # "fdcb" /\ pc # "prep"
    BY DEF Init, Situations
  <2> QED
    BY <2>1, <2>2, <2>3 DEF Init, LoopType
<1>3. RefsType
  <2>1. 0 \in 0 .. MaxRef /\ 1 \in 0 .. MaxRef
    BY RefMax
  <2> QED
    BY <2>1 DEF Init, RefsType
<1>4. FdsHeld
  <2>1. \A f \in Fds : refs[f] = 0
    BY <1>1 DEF Objects
  <2>2. FdsRefs(F, refs, refcount)
    BY <2>1, NoFdsRefs DEF Init
  <2>3. F \in FdsType
    BY <2>2 DEF FdsRefs
  <2> QED
    BY <2>1, <2>2, <2>3 DEF FdsHeld
<1>5. PrepsHeld
  <2> DEFINE m == [p \in Preps |-> [st |-> "none", refcount |-> 0, mgr |-> FALSE]]
  <2>1. [st |-> "none", refcount |-> 0, mgr |-> FALSE] \in PrepType
    <3>1. 0 \in 0 .. RefMod - 1
      BY RefAssumption
    <3> QED
      BY <3>1, Zenon DEF PrepType
  <2>2. m \in [Preps -> PrepType] /\ \A p \in Preps : m[p].st = "none"
    BY <2>1, Zenon
  <2>3. P = [pr |-> m, list |-> <<>>, cleanup |-> FALSE]
    BY DEF Init
  <2> HIDE DEF m
  <2>4. <<>> \in Seq(Preps) /\ Len(<<>>) = 0
    OBVIOUS
  <2>5. P \in PrepsType /\ P.pr = m /\ P.list = <<>>
    BY <2>2, <2>3, <2>4, Zenon DEF PrepsType
  <2>6. \A p \in Preps : P.pr[p].st = "none"
    BY <2>2, <2>5
  <2>7. ToSet(P.list) = {}
    BY <2>5, EmptySet
  <2>8. \A p \in Preps : PrepHeld(P.pr[p], refs[p], P.cleanup, refcount)
    <3>1. \A p \in Preps : ~(refs[p] > 0)
      BY <1>1 DEF Objects
    <3> QED
      BY <2>6, <3>1, Zenon DEF PrepHeld
  <2> QED
    BY <2>5, <2>6, <2>7, <2>8 DEF PrepsHeld, PrepsRefs
<1>6. TimersHeld
  <2>1. T = NoTimers /\ walk = NoWalk /\ pc = "out"
    BY DEF Init
  <2>2. walk \in WalkType
    BY <2>1, BoundsAssumption DEF NoWalk, WalkType
  <2> QED
    BY <2>1, <2>2, NoTimersGood DEF TimersHeld
<1> QED
  BY <1>2, <1>3, <1>4, <1>5, <1>6 DEF RefsInv

(* Only the references of the descriptors matter to them, and of those of  *)
(* the manager that there is one.                                          *)
LEMMA FdsRefsSame ==
  ASSUME NEW G, NEW R, NEW n, FdsRefs(G, R, n), NEW R2, \A f \in Fds : R2[f] = R[f], NEW n2, n2 # 0 => n # 0
  PROVE  FdsRefs(G, R2, n2)
<1>1. ASSUME NEW f \in Fds
      PROVE  FdHeld(G.efd[f], G.epoll[f], R2[f], n2) /\ FdCounted(G.efd[f], R2[f], G.cleanup)
  <2>1. R2[f] = R[f] /\ FdHeld(G.efd[f], G.epoll[f], R[f], n) /\ FdCounted(G.efd[f], R[f], G.cleanup)
    BY DEF FdsRefs
  <2> QED
    BY <2>1, Zenon DEF FdHeld
<1> QED
  BY <1>1 DEF FdsRefs

(* The same of the preparers.                                              *)
LEMMA PrepsRefsSame ==
  ASSUME NEW G, NEW R, NEW n, PrepsRefs(G, R, n), NEW R2, \A p \in Preps : R2[p] = R[p], NEW n2, n2 # 0 => n # 0
  PROVE  PrepsRefs(G, R2, n2)
<1>1. ASSUME NEW p \in Preps
      PROVE  PrepHeld(G.pr[p], R2[p], G.cleanup, n2)
  <2>1. R2[p] = R[p] /\ PrepHeld(G.pr[p], R[p], G.cleanup, n)
    BY DEF PrepsRefs
  <2> QED
    BY <2>1, Zenon DEF PrepHeld
<1> QED
  BY <1>1, Zenon DEF PrepsRefs

(* Nothing of the fd objects changes.                                      *)
LEMMA FdsHeldSame ==
  ASSUME FdsHeld, F' = F, \A f \in Fds : refs'[f] = refs[f], ~fault' => ~fault, refcount' # 0 => refcount # 0
  PROVE  FdsHeld'
<1>1. F' \in FdsType /\ \A f \in Fds : refs'[f] > 0 => F'.efd[f].st = "live"
  BY DEF FdsHeld
<1>2. ASSUME ~fault' PROVE FdsRefs(F', refs', refcount')
  <2>1. FdsRefs(F', refs, refcount)
    BY <1>2 DEF FdsHeld
  <2> QED
    BY <2>1, FdsRefsSame
<1> QED
  BY <1>1, <1>2 DEF FdsHeld

(* The operations keep more than the invariant when nothing went wrong.    *)
LEMMA FdsHeldNew ==
  ASSUME FdsRefs(F', refs', refcount')
  PROVE  FdsHeld'
<1>1. F' \in FdsType /\ \A f \in Fds : refs'[f] > 0 => F'.efd[f].st = "live"
  BY Zenon DEF FdsRefs, FdHeld
<1> QED
  BY <1>1 DEF FdsHeld

(* Nothing of the preparers changes.                                       *)
LEMMA PrepsHeldSame ==
  ASSUME PrepsHeld, P' = P, \A p \in Preps : refs'[p] = refs[p], refcount' # 0 => refcount # 0
  PROVE  PrepsHeld'
<1>1. PrepsRefs(P', refs, refcount)
  BY DEF PrepsHeld
<1> QED
  BY <1>1, PrepsRefsSame DEF PrepsHeld

(* Nothing of the timers changes.                                          *)
LEMMA TimersHeldSame ==
  ASSUME TimersHeld, T' = T, walk' = walk, pc' = "timcb" => pc = "timcb"
  PROVE  TimersHeld'
BY DEF TimersHeld, Called

(* The timer whose handler runs was due at a time that does not change.    *)
LEMMA TimersHeldNew ==
  ASSUME TimersHeld, TimersGood(T'), Stays(T', T), walk' = walk, pc' = "timcb" => pc = "timcb"
  PROVE  TimersHeld'
<1>1. ASSUME pc' = "timcb" PROVE Called(T', walk')
  <2>1. Called(T, walk)
    BY <1>1 DEF TimersHeld
  <2>2. walk.cur \in Timers /\ T.tm[walk.cur].st # "none" /\ T.tm[walk.cur].next_ms <= walk.now
    BY <2>1 DEF Called
  <2>3. T'.tm[walk.cur].st # "none" /\ T'.tm[walk.cur].next_ms = T.tm[walk.cur].next_ms
    BY <2>2 DEF Stays
  <2> QED
    BY <2>2, <2>3 DEF Called
<1>2. walk' \in WalkType
  BY DEF TimersHeld
<1> QED
  BY <1>1, <1>2 DEF TimersHeld

(* An operation of the client leaves the loop alone.                       *)
LEMMA LoopSameType ==
  ASSUME LoopType, LoopSame, fault' \in BOOLEAN
  PROVE  LoopType'
BY DEF LoopType, LoopSame

(* The references of one object are changed.                               *)
LEMMA RefsAtOne ==
  ASSUME RefsType, NEW o \in Objects, NEW r \in 0 .. MaxRef, refs' = [refs EXCEPT ![o] = r], refcount' = refcount
  PROVE  /\ RefsType' /\ refs'[o] = r /\ refs[o] \in 0 .. MaxRef
         /\ \A x \in Objects : x # o => refs'[x] = refs[x]
         /\ o \in Fds => (\A x \in Preps : refs'[x] = refs[x]) /\ (\A x \in Fds : x # o => refs'[x] = refs[x])
         /\ o \in Preps => (\A x \in Fds : refs'[x] = refs[x]) /\ (\A x \in Preps : x # o => refs'[x] = refs[x])
         /\ o \in Timers => (\A x \in Fds : refs'[x] = refs[x]) /\ (\A x \in Preps : refs'[x] = refs[x])
<1>1. refs \in [Objects -> 0 .. MaxRef] /\ refcount \in 0 .. MaxRef
  BY DEF RefsType
<1>2. /\ refs' \in [Objects -> 0 .. MaxRef] /\ refs'[o] = r /\ refs[o] \in 0 .. MaxRef
      /\ \A x \in Objects : x # o => refs'[x] = refs[x]
  BY <1>1
<1>3. RefsType'
  BY <1>1, <1>2 DEF RefsType
<1>4. /\ \A x \in Fds : x \in Objects /\ x \notin Preps /\ x \notin Timers
      /\ \A x \in Preps : x \in Objects /\ x \notin Timers
  BY ObjectsAssumption DEF Objects
<1> QED
  BY <1>2, <1>3, <1>4

(* ev_mgr_add_fd keeps the invariant.                                      *)
LEMMA RefsAddFd == RefsInv /\ AddFd => RefsInv'
<1> SUFFICES ASSUME RefsInv, AddFd PROVE RefsInv'
  OBVIOUS
<1>1. PICK f \in Fds, e \in Events, a \in FdArgs :
        /\ F.efd[f].st = "none" /\ F' = ev_mgr_add_fd(F, f, e, a.aunref, a.aclose)
        /\ refs' = [refs EXCEPT ![f] = 1]
  BY DEF AddFd
<1>2. a.aunref \in BOOLEAN /\ a.aclose \in BOOLEAN
  BY FdArgsAssumption
<1>3. LoopSame /\ T' = T /\ P' = P /\ refcount' = refcount /\ fault' = fault /\ ~fault
  BY DEF AddFd, May
<1>4. RefsType /\ LoopType /\ FdsHeld /\ PrepsHeld /\ TimersHeld
  BY DEF RefsInv
<1>5. f \in Objects /\ 1 \in 0 .. MaxRef
  BY RefMax DEF Objects
<1>6. /\ RefsType' /\ refs'[f] = 1 /\ (\A x \in Preps : refs'[x] = refs[x])
      /\ \A x \in Fds : x # f => refs'[x] = refs[x]
  BY <1>1, <1>3, <1>4, <1>5, RefsAtOne
<1>7. FdsRefs(F', refs', refcount')
  <2>1. FdsRefs(F, refs, refcount)
    BY <1>3, <1>4 DEF FdsHeld
  <2>2. FdsRefs(ev_mgr_add_fd(F, f, e, a.aunref, a.aclose), refs', refcount)
    BY <1>1, <1>2, <1>6, <2>1, AddRefs, Zenon
  <2> QED
    BY <1>1, <1>3, <2>2
<1>8. LoopType'
  BY <1>3, <1>4, LoopSameType DEF LoopType
<1>9. PrepsHeld'
  BY <1>3, <1>4, <1>6, PrepsHeldSame
<1>10. TimersHeld'
  BY <1>3, <1>4, TimersHeldSame DEF LoopSame
<1> QED
  BY <1>6, <1>7, <1>8, <1>9, <1>10, FdsHeldNew DEF RefsInv

(* The other operations on fd objects keep it.                             *)
LEMMA RefsFdOps == RefsInv /\ (FdAddref \/ FdUnref \/ FdSetEvents) => RefsInv'
<1> SUFFICES ASSUME RefsInv, FdAddref \/ FdUnref \/ FdSetEvents PROVE RefsInv'
  OBVIOUS
<1>1. LoopSame /\ T' = T /\ P' = P /\ refcount' = refcount /\ ~fault
  BY DEF FdAddref, FdUnref, FdSetEvents, May
<1>2. RefsType /\ LoopType /\ FdsHeld /\ PrepsHeld /\ TimersHeld
  BY DEF RefsInv
<1>3. FdsRefs(F, refs, refcount)
  BY <1>1, <1>2 DEF FdsHeld
<1>4. TimersHeld'
  BY <1>1, <1>2, TimersHeldSame DEF LoopSame
<1>5. fault' \in BOOLEAN => LoopType'
  BY <1>1, <1>2, LoopSameType
<1>6. \A f \in Fds : f \in Objects /\ refs[f] \in 0 .. MaxRef
  BY <1>2 DEF RefsType, Objects
<1>7. MaxRef \in Nat
  BY RefMax
<1>8. CASE FdAddref
  <2>1. PICK f \in Fds : refs[f] > 0 /\ refs[f] < MaxRef /\ refs' = [refs EXCEPT ![f] = @ + 1]
                         /\ F' = ev_fd_addref(F, f)
    BY <1>8 DEF FdAddref, Take
  <2>2. refs[f] + 1 \in 0 .. MaxRef /\ refs' = [refs EXCEPT ![f] = refs[f] + 1]
    BY <1>6, <1>7, <2>1
  <2>3. /\ RefsType' /\ refs'[f] = refs[f] + 1 /\ (\A x \in Preps : refs'[x] = refs[x])
        /\ \A x \in Fds : x # f => refs'[x] = refs[x]
    BY <1>1, <1>2, <1>6, <2>2, RefsAtOne
  <2>4. FdsRefs(ev_fd_addref(F, f), refs', refcount)
    BY <1>3, <1>6, <2>1, <2>3, AddrefRefs, Zenon
  <2>5. FdsHeld'
    BY <1>1, <2>1, <2>4, FdsHeldNew
  <2>6. fault' \in BOOLEAN
    BY <1>2, <1>8 DEF FdAddref, LoopType
  <2> QED
    BY <1>1, <1>2, <1>4, <1>5, <2>3, <2>5, <2>6, PrepsHeldSame DEF RefsInv
<1>9. CASE FdUnref
  <2>1. PICK f \in Fds :
          /\ refs[f] > 0 /\ refs' = [refs EXCEPT ![f] = @ - 1]
          /\ IF UnrefIsFault(F, f) THEN fault' = TRUE /\ F' = F
                                   ELSE F' = ev_fd_unref(F, f) /\ fault' = fault
    BY <1>9 DEF FdUnref, Drop
  <2>2. refs[f] - 1 \in 0 .. MaxRef /\ refs' = [refs EXCEPT ![f] = refs[f] - 1]
    BY <1>6, <1>7, <2>1
  <2>3. /\ RefsType' /\ refs'[f] = refs[f] - 1 /\ (\A x \in Preps : refs'[x] = refs[x])
        /\ \A x \in Fds : x # f => refs'[x] = refs[x]
    BY <1>1, <1>2, <1>6, <2>2, RefsAtOne
  <2>4. FdsHeld'
    <3>1. CASE UnrefIsFault(F, f)
      <4>1. F' = F /\ fault' = TRUE
        BY <2>1, <3>1
      <4>2. \A g \in Fds : refs'[g] > 0 => refs[g] > 0
        BY <1>6, <2>1, <2>3
      <4> QED
        BY <1>2, <4>1, <4>2, Zenon DEF FdsHeld
    <3>2. CASE ~UnrefIsFault(F, f)
      <4>1. F' = ev_fd_unref(F, f)
        BY <2>1, <3>2
      <4>2. refs'[f] = IF refs[f] > 0 THEN refs[f] - 1 ELSE refs[f]
        BY <2>1, <2>3
      <4>3. FdsRefs(ev_fd_unref(F, f), refs', refcount)
        BY <1>3, <1>6, <2>3, <4>2, UnrefRefs
      <4> QED
        BY <1>1, <4>1, <4>3, FdsHeldNew
    <3> QED
      BY <3>1, <3>2
  <2>5. fault' \in BOOLEAN
    BY <1>2, <2>1 DEF LoopType
  <2> QED
    BY <1>1, <1>2, <1>4, <1>5, <2>3, <2>4, <2>5, PrepsHeldSame DEF RefsInv
<1>10. CASE FdSetEvents
  <2>1. PICK f \in Fds, e \in Events, bad \in BOOLEAN :
          IF SetEventsIsFault(F, f, e) THEN fault' = TRUE /\ F' = F
                                       ELSE F' = ev_fd_set_events(F, f, e, bad) /\ fault' = fault
    BY <1>10, Zenon DEF FdSetEvents
  <2>2. refs' = refs /\ refcount' = refcount
    BY <1>1, <1>10 DEF FdSetEvents
  <2>3. FdsHeld'
    <3>1. CASE SetEventsIsFault(F, f, e)
      BY <1>2, <2>1, <2>2, <3>1 DEF FdsHeld
    <3>2. CASE ~SetEventsIsFault(F, f, e)
      <4>1. F' = ev_fd_set_events(F, f, e, bad)
        BY <2>1, <3>2
      <4>2. FdsRefs(F', refs, refcount)
        BY <1>3, <4>1, SetEventsRefs
      <4> QED
        BY <2>2, <4>2, FdsHeldNew
    <3> QED
      BY <3>1, <3>2
  <2>4. fault' \in BOOLEAN
    BY <1>2, <2>1 DEF LoopType
  <2>5. RefsType'
    BY <1>2, <2>2 DEF RefsType
  <2> QED
    BY <1>1, <1>2, <1>4, <1>5, <2>2, <2>3, <2>4, <2>5, PrepsHeldSame DEF RefsInv
<1> QED
  BY <1>8, <1>9, <1>10

(* The operations on preparers keep it.                                    *)
LEMMA RefsPrepOps == RefsInv /\ (AddPrepare \/ PrepareAddref \/ PrepareUnref) => RefsInv'
<1> SUFFICES ASSUME RefsInv, AddPrepare \/ PrepareAddref \/ PrepareUnref PROVE RefsInv'
  OBVIOUS
<1>1. LoopSame /\ T' = T /\ F' = F /\ refcount' = refcount /\ fault' = fault
  BY DEF AddPrepare, PrepareAddref, PrepareUnref
<1>2. RefsType /\ LoopType /\ FdsHeld /\ PrepsHeld /\ TimersHeld
  BY DEF RefsInv
<1>3. PrepsRefs(P, refs, refcount)
  BY <1>2 DEF PrepsHeld
<1>4. TimersHeld'
  BY <1>1, <1>2, TimersHeldSame DEF LoopSame
<1>5. LoopType'
  BY <1>1, <1>2, LoopSameType DEF LoopType
<1>6. \A p \in Preps : p \in Objects /\ refs[p] \in 0 .. MaxRef
  BY <1>2 DEF RefsType, Objects
<1>7. MaxRef \in Nat /\ 1 \in 0 .. MaxRef
  BY RefMax
<1>8. CASE AddPrepare
  <2>1. PICK p \in Preps :
          /\ P' = [P EXCEPT !.pr[p] = [st |-> "live", refcount |-> 1, mgr |-> TRUE], !.list = <<p>> \o @]
          /\ refs' = [refs EXCEPT ![p] = 1]
    BY <1>8 DEF AddPrepare
  <2>2. /\ RefsType' /\ refs'[p] = 1 /\ (\A x \in Fds : refs'[x] = refs[x])
        /\ \A x \in Preps : x # p => refs'[x] = refs[x]
    BY <1>1, <1>2, <1>6, <1>7, <2>1, RefsAtOne
  <2>3. PrepsRefs(P', refs', refcount)
    BY <1>3, <2>1, <2>2, PrepAddRefs, Zenon
  <2>4. FdsHeld'
    BY <1>1, <1>2, <2>2, FdsHeldSame
  <2> QED
    BY <1>1, <1>4, <1>5, <2>2, <2>3, <2>4 DEF RefsInv, PrepsHeld
<1>9. CASE PrepareAddref
  <2>1. PICK p \in Preps : /\ refs[p] > 0 /\ refs[p] < MaxRef /\ refs' = [refs EXCEPT ![p] = @ + 1]
                           /\ P' = [P EXCEPT !.pr[p].refcount = IncRef(@)]
    BY <1>9 DEF PrepareAddref, Take
  <2>2. refs[p] + 1 \in 0 .. MaxRef /\ refs' = [refs EXCEPT ![p] = refs[p] + 1]
    BY <1>6, <1>7, <2>1
  <2>3. /\ RefsType' /\ refs'[p] = refs[p] + 1 /\ (\A x \in Fds : refs'[x] = refs[x])
        /\ \A x \in Preps : x # p => refs'[x] = refs[x]
    BY <1>1, <1>2, <1>6, <2>2, RefsAtOne
  <2>4. PrepsRefs(P', refs', refcount)
    BY <1>3, <1>6, <2>1, <2>3, PrepAddrefRefs, Zenon
  <2>5. FdsHeld'
    BY <1>1, <1>2, <2>3, FdsHeldSame
  <2> QED
    BY <1>1, <1>4, <1>5, <2>3, <2>4, <2>5 DEF RefsInv, PrepsHeld
<1>10. CASE PrepareUnref
  <2>1. PICK p \in Preps : /\ refs[p] > 0 /\ refs' = [refs EXCEPT ![p] = @ - 1]
                           /\ P' = ev_prepare_unref(p)
    BY <1>10 DEF PrepareUnref, Drop
  <2>2. refs[p] - 1 \in 0 .. MaxRef /\ refs' = [refs EXCEPT ![p] = refs[p] - 1]
    BY <1>6, <1>7, <2>1
  <2>3. /\ RefsType' /\ refs'[p] = refs[p] - 1 /\ (\A x \in Fds : refs'[x] = refs[x])
        /\ \A x \in Preps : x # p => refs'[x] = refs[x]
    BY <1>1, <1>2, <1>6, <2>2, RefsAtOne
  <2>4. PrepsRefs(P', refs', refcount)
    BY <1>3, <1>6, <2>1, <2>3, PrepUnrefRefs, Zenon
  <2>5. FdsHeld'
    BY <1>1, <1>2, <2>3, FdsHeldSame
  <2> QED
    BY <1>1, <1>4, <1>5, <2>3, <2>4, <2>5 DEF RefsInv, PrepsHeld
<1> QED
  BY <1>8, <1>9, <1>10

(* The operations on timers keep it, and end no countdown.                 *)
LEMMA RefsTimerOps == RefsInv /\ (AddTimer \/ TimerAddref \/ TimerUnref) => RefsInv' /\ Counts(T', T)
<1> SUFFICES ASSUME RefsInv, AddTimer \/ TimerAddref \/ TimerUnref PROVE RefsInv' /\ Counts(T', T)
  OBVIOUS
<1>1. LoopSame /\ F' = F /\ P' = P /\ refcount' = refcount /\ ~fault
  BY DEF AddTimer, TimerAddref, TimerUnref, May
<1>2. RefsType /\ LoopType /\ FdsHeld /\ PrepsHeld /\ TimersHeld
  BY DEF RefsInv
<1>3. TimersGood(T) /\ now \in 1 .. MaxNow
  BY <1>2 DEF TimersHeld, LoopType
<1>4. \A t \in Timers : t \in Objects /\ refs[t] \in 0 .. MaxRef
  BY <1>2 DEF RefsType, Objects
<1>5. MaxRef \in Nat /\ 1 \in 0 .. MaxRef
  BY RefMax
<1>6. PICK t \in Timers, r \in 0 .. MaxRef : refs' = [refs EXCEPT ![t] = r]
  <2>1. CASE AddTimer
    BY <1>5, <2>1 DEF AddTimer
  <2>2. CASE TimerAddref
    <3>1. PICK t \in Timers : refs[t] < MaxRef /\ refs' = [refs EXCEPT ![t] = @ + 1]
      BY <2>2 DEF TimerAddref, Take
    <3>2. refs[t] + 1 \in 0 .. MaxRef /\ refs' = [refs EXCEPT ![t] = refs[t] + 1]
      BY <1>4, <1>5, <3>1
    <3> QED
      BY <3>2
  <2>3. CASE TimerUnref
    <3>1. PICK t \in Timers : refs[t] > 0 /\ refs' = [refs EXCEPT ![t] = @ - 1]
      BY <2>3 DEF TimerUnref, Drop
    <3>2. refs[t] - 1 \in 0 .. MaxRef /\ refs' = [refs EXCEPT ![t] = refs[t] - 1]
      BY <1>4, <1>5, <3>1
    <3> QED
      BY <3>2
  <2> QED
    BY <2>1, <2>2, <2>3
<1>7. RefsType' /\ (\A x \in Fds : refs'[x] = refs[x]) /\ (\A x \in Preps : refs'[x] = refs[x])
  BY <1>1, <1>2, <1>4, <1>6, RefsAtOne
<1>8. FdsHeld' /\ PrepsHeld'
  BY <1>1, <1>2, <1>7, FdsHeldSame, PrepsHeldSame
<1>9. TimersGood(T') /\ Stays(T', T) /\ Counts(T', T) /\ fault' \in BOOLEAN
  <2>1. CASE AddTimer
    <3>1. PICK u \in Timers, a \in TimerArgs, g \in RefGarbage, bad \in BOOLEAN :
            /\ T.tm[u].st = "none"
            /\ T' = ev_mgr_add_timer(T, u, a.start, a.count, a.period, a.accuracy, a.aunref, g, now, bad)
      BY <2>1, Zenon DEF AddTimer
    <3>2. fault' = fault
      BY <2>1 DEF AddTimer
    <3> QED
      <4>1. TimerAdded(T', T, u)
        BY <1>2, <1>3, <3>1, AddTimers, Zenon DEF LoopType
      <4> QED
        BY <3>2, <4>1, Zenon DEF TimerAdded, LoopType, RefsInv
  <2>2. CASE TimerAddref
    <3>1. PICK u \in Timers : T' = ev_timer_addref(T, u)
      BY <2>2 DEF TimerAddref
    <3>2. fault' = fault
      BY <2>2 DEF TimerAddref
    <3>3. TimersGood(T') /\ SameCounts(T', T)
      BY <1>3, <3>1, AddrefTimers
    <3> QED
      BY <1>2, <3>2, <3>3, CountsSame DEF LoopType, SameCounts
  <2>3. CASE TimerUnref
    <3>1. PICK u \in Timers : IF TimerUnrefIsFault(T, u) THEN fault' = TRUE /\ T' = T
                              ELSE T' = ev_timer_unref(T, u) /\ fault' = fault
      BY <2>3 DEF TimerUnref
    <3>2. CASE TimerUnrefIsFault(T, u)
      BY <1>3, <3>1, <3>2 DEF Stays, Counts
    <3>3. CASE ~TimerUnrefIsFault(T, u)
      <4>1. T' = ev_timer_unref(T, u) /\ fault' = fault
        BY <3>1, <3>3
      <4>2. TimersGood(T') /\ SameCounts(T', T)
        BY <1>3, <4>1, UnrefTimers
      <4> QED
        BY <1>2, <4>1, <4>2, CountsSame DEF LoopType, SameCounts
    <3> QED
      BY <3>2, <3>3
  <2> QED
    BY <2>1, <2>2, <2>3
<1>10. TimersHeld'
  BY <1>1, <1>2, <1>9, TimersHeldNew DEF LoopSame
<1>11. LoopType'
  BY <1>1, <1>2, <1>9, LoopSameType
<1> QED
  BY <1>7, <1>8, <1>9, <1>10, <1>11 DEF RefsInv

(* ev_mgr_unref keeps it, also when the manager ends.                      *)
LEMMA RefsMgrUnref == RefsInv /\ ev_mgr_unref => RefsInv' /\ Counts(T', T)
<1> SUFFICES ASSUME RefsInv, ev_mgr_unref PROVE RefsInv' /\ Counts(T', T)
  OBVIOUS
<1> DEFINE G == efds_cleanup(F)
           U == timers_cleanup(T)
           Q == preparers_cleanup(P)
<1>1. /\ LoopSame /\ ~fault /\ refcount # 0 /\ refcount' = refcount - 1 /\ fault' \in BOOLEAN /\ refs' = refs
      /\ IF refcount # 1 THEN F' = G /\ T' = U /\ P' = Q
         ELSE /\ F' = OrphanFds(G) /\ T' = OrphanTimers(U)
              /\ P' = [Q EXCEPT !.pr = [p \in Preps |-> [Q.pr[p] EXCEPT !.mgr = FALSE]]]
  BY DEF ev_mgr_unref, May
<1>2. RefsType /\ LoopType /\ FdsHeld /\ PrepsHeld /\ TimersHeld
  BY DEF RefsInv
<1>3. LoopType'
  BY <1>1, <1>2, LoopSameType
<1>4. RefsType'
  <2>1. refcount - 1 \in 0 .. MaxRef
    BY <1>1, <1>2, RefMax DEF RefsType
  <2> QED
    BY <1>1, <1>2, <2>1 DEF RefsType
<1>5. FdsRefs(G, refs, refcount)
  BY <1>1, <1>2, CleanupRefs DEF FdsHeld
<1>6. PrepsRefs(Q, refs, refcount)
  BY <1>1, <1>2, PrepCleanupRefs DEF PrepsHeld
<1>7. TimersGood(U) /\ SameCounts(U, T)
  BY <1>2, CleanupTimers DEF TimersHeld
<1> HIDE DEF G, U, Q
<1>8. CASE refcount # 1
  <2>1. FdsRefs(G, refs', refcount')
    BY <1>1, <1>5, FdsRefsSame
  <2>2. PrepsRefs(Q, refs', refcount')
    BY <1>1, <1>6, PrepsRefsSame
  <2>3. FdsHeld' /\ PrepsHeld'
    BY <1>1, <1>8, <2>1, <2>2, FdsHeldNew DEF PrepsHeld
  <2>4. T' = U
    BY <1>1, <1>8
  <2>5. TimersHeld'
    BY <1>1, <1>2, <1>7, <2>4, TimersHeldNew DEF LoopSame, SameCounts
  <2>6. Counts(T', T)
    BY <1>7, <2>4, CountsSame
  <2> QED
    BY <1>3, <1>4, <2>3, <2>5, <2>6 DEF RefsInv
<1>9. CASE refcount = 1
  <2>1. F' = OrphanFds(G) /\ T' = OrphanTimers(U) /\ refcount' = 0
        /\ P' = [Q EXCEPT !.pr = [p \in Preps |-> [Q.pr[p] EXCEPT !.mgr = FALSE]]]
    BY <1>1, <1>9
  <2>2. FdsRefs(F', refs', refcount')
    BY <1>1, <1>5, <2>1, OrphanRefs
  <2>3. PrepsRefs(P', refs', refcount')
    BY <1>1, <1>6, <2>1, PrepOrphanRefs
  <2>4. TimersGood(T') /\ SameCounts(T', U)
    BY <1>7, <2>1, OrphanTimersGood
  <2>5. SameCounts(T', T)
    BY <1>7, <2>4, Zenon DEF SameCounts, Stays
  <2>6. TimersHeld'
    BY <1>1, <1>2, <2>4, <2>5, TimersHeldNew DEF LoopSame, SameCounts
  <2> QED
    BY <1>3, <1>4, <2>2, <2>3, <2>5, <2>6, FdsHeldNew, CountsSame DEF RefsInv, PrepsHeld
<1> QED
  BY <1>8, <1>9

(* The end of the preparation keeps it.                                    *)
LEMMA RefsEndPrepare ==
  ASSUME RefsInv, Running, refs' = refs, refcount' = refcount, fault' = fault, event' = event, wake' = wake, now' = now,
         NEW G, FdsRefs(G, refs, refcount), NEW U, TimersGood(U), SameCounts(U, T), NEW up \in Nat, upper' \in Nat,
         EndPrepare(G, U, up), walk' = walk, PrepsRefs(P', refs, refcount)
  PROVE  RefsInv' /\ Counts(T', T)
<1>1. RefsType /\ LoopType /\ TimersHeld
  BY DEF RefsInv
<1>2. PICK bad \in BOOLEAN : T' = timer_set(U, up, now, bad)
  BY Zenon DEF EndPrepare
<1>3. PICK no \in SUBSET LiveFds(G) : F' = efds_prepare(G, no)
  <2>1. {} \in SUBSET LiveFds(G)
    OBVIOUS
  <2> QED
    BY <2>1, Zenon DEF EndPrepare
<1>4. state' = "Ready" /\ pc' = "out" /\ cur' = NONE
  BY DEF EndPrepare
<1>5. now \in Nat
  BY <1>1 DEF LoopType
<1>6. TimersGood(T') /\ SameCounts(T', U)
  BY <1>2, <1>5, SetTimers
<1>7. FdsRefs(F', refs', refcount')
  BY <1>3, PrepareRefs
<1>8. LoopType'
  BY <1>1, <1>4 DEF LoopType, Situations
<1>9. RefsType'
  BY <1>1 DEF RefsType
<1>10. TimersHeld'
  BY <1>1, <1>4, <1>6 DEF TimersHeld
<1>11. SameCounts(T', T)
  BY <1>6, Zenon DEF SameCounts, Stays
<1> QED
  BY <1>7, <1>8, <1>9, <1>10, <1>11, FdsHeldNew, CountsSame DEF RefsInv, PrepsHeld

(* The beginning of the preparation, with its three cleanups, keeps it.    *)
LEMMA RefsDoPrepare ==
  ASSUME RefsInv, NEW up \in Nat, do_prepare(up)
  PROVE  RefsInv' /\ Counts(T', T)
<1> DEFINE G == efds_cleanup(F)
           U == timers_cleanup(T)
           Q == preparers_cleanup(P)
           p == NextPreparer(Q, NONE)
<1>1. /\ Running /\ refs' = refs /\ refcount' = refcount /\ fault' = fault /\ event' = event /\ wake' = wake
      /\ now' = now /\ walk' = walk /\ upper' = up /\ P' = Q
  BY DEF do_prepare
<1>2. \/ EndPrepare(G, U, up)
      \/ p # NONE /\ F' = G /\ T' = U /\ state' = "Preparing" /\ pc' = "prep" /\ cur' = p
  BY Zenon DEF do_prepare
<1>3. RefsType /\ LoopType /\ FdsHeld /\ PrepsHeld /\ TimersHeld
  BY DEF RefsInv
<1>4. FdsRefs(G, refs, refcount)
  BY <1>1, <1>3, CleanupRefs DEF FdsHeld, Running
<1>5. PrepsRefs(Q, refs, refcount)
  BY <1>1, <1>3, PrepCleanupRefs DEF PrepsHeld, Running
<1>6. TimersGood(U) /\ SameCounts(U, T)
  BY <1>3, CleanupTimers DEF TimersHeld
<1>7. p # NONE => p \in Preps
  BY <1>5, NextPreparerListed, PrepsAccess DEF PrepsRefs
<1> HIDE DEF G, U, Q, p
<1>8. CASE EndPrepare(G, U, up)
  BY <1>1, <1>4, <1>5, <1>6, <1>8, RefsEndPrepare
<1>9. CASE p # NONE /\ F' = G /\ T' = U /\ state' = "Preparing" /\ pc' = "prep" /\ cur' = p
  <2>1. LoopType'
    BY <1>1, <1>3, <1>7, <1>9 DEF LoopType, Situations
  <2>2. RefsType'
    BY <1>1, <1>3 DEF RefsType
  <2>3. FdsHeld' /\ PrepsHeld'
    BY <1>1, <1>4, <1>5, <1>9, FdsHeldNew DEF PrepsHeld
  <2>4. TimersHeld'
    BY <1>1, <1>3, <1>6, <1>9 DEF TimersHeld
  <2>5. Counts(T', T)
    BY <1>6, <1>9, CountsSame
  <2> QED
    BY <2>1, <2>2, <2>3, <2>4, <2>5 DEF RefsInv
<1> QED
  BY <1>2, <1>8, <1>9

(* ev_mgr_prepare and ev_mgr_prepare_with_wakeup keep it.                  *)
LEMMA RefsPrepare ==
  RefsInv /\ (ev_mgr_prepare \/ ev_mgr_prepare_with_wakeup) => RefsInv' /\ Counts(T', T)
<1> SUFFICES ASSUME RefsInv, ev_mgr_prepare \/ ev_mgr_prepare_with_wakeup PROVE RefsInv' /\ Counts(T', T)
  OBVIOUS
<1>1. PICK up \in Nat : do_prepare(up)
  <2>1. CASE ev_mgr_prepare
    BY <2>1, TimeAssumption DEF ev_mgr_prepare
  <2>2. CASE ev_mgr_prepare_with_wakeup
    <3>1. PICK ms \in Wakeups : do_prepare(now + ms)
      BY <2>2 DEF ev_mgr_prepare_with_wakeup
    <3>2. now + ms \in Nat
      BY BoundsAssumption DEF RefsInv, LoopType
    <3> QED
      BY <3>1, <3>2
  <2> QED
    BY <2>1, <2>2
<1> QED
  BY <1>1, RefsDoPrepare

(* The return of the handler of a preparer keeps it, also when that        *)
(* preparer was freed.                                                     *)
LEMMA RefsPreparerReturns == RefsInv /\ PreparerReturns => RefsInv' /\ Counts(T', T)
<1> SUFFICES ASSUME RefsInv, PreparerReturns PROVE RefsInv' /\ Counts(T', T)
  OBVIOUS
<1> DEFINE p == NextPreparer(P, cur)
<1>1. /\ Running /\ refs' = refs /\ refcount' = refcount /\ event' = event /\ wake' = wake
      /\ now' = now /\ walk' = walk /\ upper' = upper /\ P' = P
  BY DEF PreparerReturns
<1>2. \/ EndPrepare(F, T, upper) /\ fault' = fault
      \/ /\ F' = F /\ T' = T /\ state' = state /\ pc' = pc /\ fault' \in BOOLEAN
         /\ cur' = cur \/ (p # NONE /\ cur' = p)
  BY Zenon DEF PreparerReturns, RefsInv, LoopType
<1>3. RefsType /\ LoopType /\ FdsHeld /\ PrepsHeld /\ TimersHeld
  BY DEF RefsInv
<1>4. p # NONE => p \in Preps
  BY <1>3, NextPreparerListed, PrepsAccess DEF PrepsHeld, PrepsRefs
<1> HIDE DEF p
<1>5. CASE EndPrepare(F, T, upper) /\ fault' = fault
  <2>1. FdsRefs(F, refs, refcount) /\ PrepsRefs(P', refs, refcount) /\ TimersGood(T) /\ upper \in Nat
    BY <1>1, <1>3 DEF FdsHeld, PrepsHeld, TimersHeld, LoopType, Running
  <2>2. SameCounts(T, T)
    BY DEF SameCounts, Stays
  <2> QED
    BY <1>1, <1>5, <2>1, <2>2, RefsEndPrepare
<1>6. CASE /\ F' = F /\ T' = T /\ state' = state /\ pc' = pc /\ fault' \in BOOLEAN
           /\ cur' = cur \/ (p # NONE /\ cur' = p)
  <2>1. LoopType'
    BY <1>1, <1>3, <1>4, <1>6 DEF LoopType
  <2>2. RefsType'
    BY <1>1, <1>3 DEF RefsType
  <2>3. ~fault
    BY <1>1 DEF Running
  <2>4. FdsHeld'
    BY <1>1, <1>3, <1>6, <2>3, FdsHeldSame
  <2>5. PrepsHeld'
    BY <1>1, <1>3, <1>6, PrepsHeldSame
  <2>6. TimersHeld'
    BY <1>1, <1>3, <1>6, TimersHeldSame
  <2>7. Counts(T', T)
    BY <1>6 DEF Counts
  <2> QED
    BY <2>1, <2>2, <2>4, <2>5, <2>6, <2>7 DEF RefsInv
<1> QED
  BY <1>2, <1>5, <1>6

(* What the loop does to its own variables only.                           *)
LEMMA RefsLoopOnly ==
  ASSUME RefsInv, F' = F, T' = T, P' = P, refcount' = refcount, refs' = refs, walk' = walk,
         ~fault' => ~fault, pc' = "timcb" => pc = "timcb", LoopType'
  PROVE  RefsInv' /\ Counts(T', T)
<1>1. RefsType /\ FdsHeld /\ PrepsHeld /\ TimersHeld
  BY DEF RefsInv
<1>2. RefsType'
  BY <1>1 DEF RefsType
<1>3. FdsHeld'
  BY <1>1, FdsHeldSame
<1>4. PrepsHeld'
  BY <1>1, PrepsHeldSame
<1>5. TimersHeld'
  BY <1>1, TimersHeldSame
<1>6. Counts(T', T)
  BY DEF Counts
<1> QED
  BY <1>2, <1>3, <1>4, <1>5, <1>6 DEF RefsInv

(* The wait, its four ends and the call of the handler of an fd keep it.   *)
LEMMA RefsWaits ==
  RefsInv /\ (ev_mgr_wait \/ WaitFails \/ WaitWoken \/ WaitEvent \/ DispatchFd) => RefsInv' /\ Counts(T', T)
<1> SUFFICES ASSUME RefsInv, ev_mgr_wait \/ WaitFails \/ WaitWoken \/ WaitEvent \/ DispatchFd
             PROVE  RefsInv' /\ Counts(T', T)
  OBVIOUS
<1>1. /\ F' = F /\ T' = T /\ P' = P /\ refcount' = refcount /\ refs' = refs /\ walk' = walk /\ ~fault
      /\ now' = now /\ cur' = cur /\ upper' = upper
  BY DEF ev_mgr_wait, WaitFails, WaitWoken, WaitEvent, DispatchFd, Running
<1>2. LoopType
  BY DEF RefsInv
<1>3. LoopType' /\ pc' # "timcb"
  <2>1. CASE ev_mgr_wait
    BY <1>1, <1>2, <2>1 DEF LoopType, ev_mgr_wait, Situations
  <2>2. CASE WaitFails
    <3>1. [event EXCEPT !.hup = FALSE] \in [ptr : Fds \cup {TIMER, NONE}, hup : BOOLEAN]
      BY <1>2, Zenon DEF LoopType
    <3>2. state' = "Idle" /\ pc' = "out" /\ event' = [event EXCEPT !.hup = FALSE] /\ wake' = wake
          /\ fault' = fault
      BY <2>2 DEF WaitFails, Return
    <3> QED
      BY <1>1, <1>2, <3>1, <3>2 DEF LoopType, Situations
  <2>3. CASE WaitWoken
    <3>1. NoEvent \in [ptr : Fds \cup {TIMER, NONE}, hup : BOOLEAN]
      BY Zenon DEF NoEvent
    <3>2. state' = "Idle" /\ pc' = "out" /\ event' = NoEvent /\ wake > 0 /\ wake' = wake - 1 /\ fault' = fault
      BY <2>3 DEF WaitWoken, Return
    <3>3. wake' \in 0 .. MaxWake
      BY <1>2, <3>2, BoundsAssumption DEF LoopType
    <3> QED
      BY <1>1, <1>2, <3>1, <3>2, <3>3 DEF LoopType, Situations
  <2>4. CASE WaitEvent
    <3>1. /\ state' = "Pending" /\ pc' = "out" /\ wake' = wake /\ fault' = fault
          /\ event' \in [ptr : Fds \cup {TIMER, NONE}, hup : BOOLEAN]
      <4>1. \A p \in Fds \cup {TIMER}, h \in BOOLEAN :
              [ptr |-> p, hup |-> h] \in [ptr : Fds \cup {TIMER, NONE}, hup : BOOLEAN]
        BY Zenon
      <4>2. CASE T.fired /\ Return("Pending", [ptr |-> TIMER, hup |-> FALSE])
        <5>1. event' = [ptr |-> TIMER, hup |-> FALSE]
          BY <4>2, Zenon DEF Return
        <5>2. event' \in [ptr : Fds \cup {TIMER, NONE}, hup : BOOLEAN]
          BY <5>1, Zenon
        <5> QED
          BY <2>4, <4>2, <5>2 DEF WaitEvent, Return
      <4>3. CASE \E f \in Fds, hup \in BOOLEAN : F.epoll[f] # NONE /\ Return("Pending", [ptr |-> f, hup |-> hup])
        <5>1. PICK f \in Fds, hup \in BOOLEAN : Return("Pending", [ptr |-> f, hup |-> hup])
          BY <4>3
        <5>2. event' = [ptr |-> f, hup |-> hup]
          BY <5>1, Zenon DEF Return
        <5>3. event' \in [ptr : Fds \cup {TIMER, NONE}, hup : BOOLEAN]
          BY <4>1, <5>2, Zenon
        <5> QED
          BY <2>4, <5>1, <5>3 DEF WaitEvent, Return
      <4> QED
        BY <2>4, <4>2, <4>3, Zenon DEF WaitEvent
    <3> QED
      BY <1>1, <1>2, <3>1 DEF LoopType, Situations
  <2>5. CASE DispatchFd
    <3>1. event' = event /\ wake' = wake /\ event.ptr \in Fds
      BY <2>5 DEF DispatchFd
    <3>2. \/ fault' = TRUE /\ state' = state /\ pc' = pc
          \/ state' = "Dispatching" /\ pc' = "fdcb" /\ fault' = fault
      BY <2>5 DEF DispatchFd
    <3>3. pc = "out"
      BY <2>5 DEF DispatchFd
    <3> QED
      BY <1>1, <1>2, <3>1, <3>2, <3>3 DEF LoopType, Situations
  <2> QED
    BY <2>1, <2>2, <2>3, <2>4, <2>5
<1> QED
  BY <1>1, <1>3, RefsLoopOnly

(* The return of the handler of an fd keeps it.                            *)
LEMMA RefsFdReturns == RefsInv /\ FdReturns => RefsInv' /\ Counts(T', T)
<1> SUFFICES ASSUME RefsInv, FdReturns PROVE RefsInv' /\ Counts(T', T)
  OBVIOUS
<1> DEFINE f == event.ptr
<1>1. /\ ~fault /\ refcount # 0 /\ pc = "fdcb" /\ T' = T /\ P' = P /\ refcount' = refcount /\ event' = event
      /\ wake' = wake /\ now' = now /\ cur' = cur /\ upper' = upper /\ walk' = walk
  BY DEF FdReturns, Running
<1>2. RefsType /\ LoopType /\ FdsHeld /\ PrepsHeld /\ TimersHeld
  BY DEF RefsInv
<1>3. f \in Fds /\ f \in Objects /\ event.hup \in BOOLEAN
  <2>1. event \in [ptr : Fds \cup {TIMER, NONE}, hup : BOOLEAN]
    BY <1>2 DEF LoopType
  <2>2. event.hup \in BOOLEAN
    BY <2>1
  <2> QED
    BY <1>1, <1>2, <2>2 DEF LoopType, Objects
<1>4. \/ fault' = TRUE /\ F' = F /\ state' = state /\ pc' = pc /\ refs' = refs
      \/ /\ F.efd[f].st = "live" /\ F' = fd_dispatch_end(F, f, event.hup)
         /\ refs' = [refs EXCEPT ![f] =
                       IF event.hup /\ F.efd[f].auto_unref /\ @ > 0 THEN @ - 1 ELSE @]
         /\ state' = "Idle" /\ pc' = "out" /\ fault' = fault
  BY Zenon DEF FdReturns
<1>5. CASE fault' = TRUE /\ F' = F /\ state' = state /\ pc' = pc /\ refs' = refs
  <2>1. LoopType'
    BY <1>1, <1>2, <1>5 DEF LoopType
  <2> QED
    BY <1>1, <1>5, <2>1, RefsLoopOnly
<1>6. CASE /\ F.efd[f].st = "live" /\ F' = fd_dispatch_end(F, f, event.hup)
           /\ refs' = [refs EXCEPT ![f] =
                         IF event.hup /\ F.efd[f].auto_unref /\ @ > 0 THEN @ - 1 ELSE @]
           /\ state' = "Idle" /\ pc' = "out" /\ fault' = fault
  <2> DEFINE r == IF event.hup /\ F.efd[f].auto_unref /\ refs[f] > 0 THEN refs[f] - 1 ELSE refs[f]
  <2>1. refs[f] \in 0 .. MaxRef /\ refs' = [refs EXCEPT ![f] = r]
    BY <1>2, <1>3, <1>6 DEF RefsType
  <2>2. r \in 0 .. MaxRef
    BY <2>1, RefMax
  <2> HIDE DEF f, r
  <2>3. /\ RefsType' /\ refs'[f] = r /\ (\A x \in Preps : refs'[x] = refs[x])
        /\ \A x \in Fds : x # f => refs'[x] = refs[x]
    BY <1>1, <1>2, <1>3, <2>1, <2>2, RefsAtOne
  <2>4. FdsRefs(F, refs, refcount)
    BY <1>1, <1>2 DEF FdsHeld
  <2>5. F.efd[f].mgr
    <3>1. FdHeld(F.efd[f], F.epoll[f], refs[f], refcount)
      BY <1>3, <2>4 DEF FdsRefs
    <3> QED
      BY <1>1, <1>6, <3>1, Zenon DEF FdHeld, f
  <2>6. FdsRefs(fd_dispatch_end(F, f, event.hup), refs', refcount)
    <3>1. refs'[f] = IF event.hup /\ F.efd[f].auto_unref /\ refs[f] > 0 THEN refs[f] - 1 ELSE refs[f]
      BY <2>3 DEF r
    <3> QED
      BY <1>3, <2>1, <2>3, <2>4, <2>5, <3>1, EndRefs
  <2>7. FdsHeld'
    BY <1>1, <1>6, <2>6, FdsHeldNew DEF f
  <2>8. PrepsHeld'
    BY <1>1, <1>2, <2>3, PrepsHeldSame
  <2>9. TimersHeld'
    BY <1>1, <1>2, <1>6, TimersHeldSame
  <2>10. LoopType'
    BY <1>1, <1>2, <1>6 DEF LoopType, Situations
  <2>11. Counts(T', T)
    BY <1>1 DEF Counts
  <2> QED
    BY <2>3, <2>7, <2>8, <2>9, <2>10, <2>11 DEF RefsInv
<1> QED
  BY <1>4, <1>5, <1>6

(* The walk goes on to the next handler, or to the end of the dispatch.    *)
LEMMA ContinueGood ==
  ASSUME NEW U, TimersGood(U), NEW w \in WalkType, Continue(U, w)
  PROVE  /\ TimersGood(T') /\ Counts(T', U) /\ walk' \in WalkType
         /\ pc' = "timcb" => Called(T', walk')
         /\ \/ state' = "Idle" /\ pc' = "out"
            \/ state' = "Dispatching" /\ pc' = "timcb"
         /\ \A t \in Timers : SameTimer(T'.tm[t], U.tm[t]) /\ SameFlags(T'.tm[t], U.tm[t])
         /\ Stays(T', U) /\ (OwnedTimers(U) => OwnedTimers(T')) /\ (Listed(U) => Listed(T'))
         /\ Listed(U) /\ w.prv \in {HEAD} \cup ToSet(U.list) /\ pc' = "timcb" =>
              Linked(T'.list, walk'.prv, walk'.cur)
<1> DEFINE s == ScanStep(U, w)
<1>1. Scanned(s, U, w)
  BY ScanGood
<1>2. /\ T' = s.T
      /\ \/ s.w.cur = HEAD /\ walk' = NoWalk /\ state' = "Idle" /\ pc' = "out"
         \/ s.w.cur # HEAD /\ walk' = s.w /\ state' = "Dispatching" /\ pc' = "timcb"
  BY DEF Continue
<1> HIDE DEF s
<1>3. /\ TimersGood(s.T) /\ s.w \in WalkType
      /\ \A t \in Timers : SameTimer(s.T.tm[t], U.tm[t]) /\ SameFlags(s.T.tm[t], U.tm[t])
      /\ s.w.cur # HEAD => Called(s.T, s.w)
  BY <1>1 DEF Scanned
<1>4. NoWalk \in WalkType
  BY BoundsAssumption DEF NoWalk, WalkType
<1>5. /\ Stays(s.T, U) /\ (OwnedTimers(U) => OwnedTimers(s.T)) /\ (Listed(U) => Listed(s.T))
      /\ Listed(U) /\ w.prv \in {HEAD} \cup ToSet(U.list) /\ s.w.cur # HEAD =>
           Linked(s.T.list, s.w.prv, s.w.cur)
  BY <1>1 DEF Scanned
<1>6. Counts(s.T, U)
  <2>1. \A t \in Timers : s.T.tm[t].decount = U.tm[t].decount
    BY <1>3, Zenon DEF SameTimer
  <2> QED
    BY <2>1 DEF Counts
<1> QED
  BY <1>2, <1>3, <1>4, <1>6, <1>5

(* The beginning of timer_event keeps it.                                  *)
LEMMA RefsTimerEvent == RefsInv /\ timer_event => RefsInv' /\ Counts(T', T)
<1> SUFFICES ASSUME RefsInv, timer_event PROVE RefsInv' /\ Counts(T', T)
  OBVIOUS
<1> DEFINE U == [T EXCEPT !.fired = FALSE]
           w == [NoWalk EXCEPT !.now = now]
<1>1. /\ ~fault /\ pc = "out" /\ F' = F /\ P' = P /\ refcount' = refcount /\ event' = event /\ refs' = refs
      /\ wake' = wake /\ now' = now /\ cur' = cur /\ upper' = upper /\ fault' = fault
  BY DEF timer_event, Running
<1>2. RefsType /\ LoopType /\ FdsHeld /\ PrepsHeld /\ TimersHeld
  BY DEF RefsInv
<1>3. \/ state' = "Idle" /\ T' = T /\ walk' = walk /\ pc' = pc
      \/ Continue(U, w)
  BY Zenon DEF timer_event
<1>4. CASE state' = "Idle" /\ T' = T /\ walk' = walk /\ pc' = pc
  <2>1. LoopType'
    BY <1>1, <1>2, <1>4 DEF LoopType
  <2> QED
    BY <1>1, <1>4, <2>1, RefsLoopOnly
<1>5. CASE Continue(U, w)
  <2>1. U \in TimersType /\ U.tm = T.tm /\ U.list = T.list
    BY <1>2, Zenon DEF TimersHeld, TimersGood, TimersType
  <2>2. w \in WalkType
    <3>1. now \in 0 .. MaxNow /\ NoWalk \in WalkType
      BY <1>2, BoundsAssumption DEF LoopType, NoWalk, WalkType
    <3> QED
      BY <3>1, Zenon DEF WalkType
  <2> HIDE DEF U, w
  <2>3. TimersGood(U)
    BY <1>2, <2>1, SameTimersGood DEF TimersHeld
  <2>4. /\ TimersGood(T') /\ Counts(T', U) /\ walk' \in WalkType
        /\ pc' = "timcb" => Called(T', walk')
        /\ \/ state' = "Idle" /\ pc' = "out"
           \/ state' = "Dispatching" /\ pc' = "timcb"
    BY <1>5, <2>2, <2>3, ContinueGood
  <2>5. TimersHeld'
    BY <2>4 DEF TimersHeld
  <2>6. LoopType'
    BY <1>1, <1>2, <2>4 DEF LoopType, Situations
  <2>7. FdsHeld' /\ PrepsHeld'
    BY <1>1, <1>2, FdsHeldSame, PrepsHeldSame
  <2>8. Counts(T', T)
    BY <2>1, <2>4 DEF Counts
  <2> QED
    BY <1>1, <1>2, <2>5, <2>6, <2>7, <2>8 DEF RefsInv, RefsType
<1> QED
  BY <1>3, <1>4, <1>5

(* The return of the handler of a timer keeps it, and a countdown that     *)
(* ends disables the timer.                                                *)
LEMMA RefsTimerReturns == RefsInv /\ TimerReturns => RefsInv' /\ Counts(T', T)
<1> SUFFICES ASSUME RefsInv, TimerReturns PROVE RefsInv' /\ Counts(T', T)
  OBVIOUS
<1> DEFINE c == walk.cur
           a == AfterHandler(T, walk)
<1>1. /\ ~fault /\ pc = "timcb" /\ F' = F /\ P' = P /\ refcount' = refcount /\ event' = event
      /\ wake' = wake /\ now' = now /\ cur' = cur /\ upper' = upper
  BY DEF TimerReturns, Running
<1>2. RefsType /\ LoopType /\ FdsHeld /\ PrepsHeld /\ TimersHeld
  BY DEF RefsInv
<1>3. \/ fault' = TRUE /\ T' = T /\ state' = state /\ pc' = pc /\ walk' = walk /\ refs' = refs
      \/ /\ Continue(a.T, a.w) /\ fault' = fault
         /\ refs' = [refs EXCEPT ![c] =
              IF T.tm[c].decount = 1 /\ T.tm[c].auto_unref /\ @ > 0 THEN @ - 1 ELSE @]
  BY Zenon DEF TimerReturns
<1>4. CASE fault' = TRUE /\ T' = T /\ state' = state /\ pc' = pc /\ walk' = walk /\ refs' = refs
  <2>1. LoopType'
    BY <1>1, <1>2, <1>4 DEF LoopType
  <2> QED
    BY <1>1, <1>4, <2>1, RefsLoopOnly
<1>5. CASE /\ Continue(a.T, a.w) /\ fault' = fault
           /\ refs' = [refs EXCEPT ![c] =
                IF T.tm[c].decount = 1 /\ T.tm[c].auto_unref /\ @ > 0 THEN @ - 1 ELSE @]
  <2>1. TimersGood(T) /\ walk \in WalkType /\ Called(T, walk) /\ c \in Timers /\ c \in Objects
    BY <1>1, <1>2 DEF TimersHeld, Called, Objects
  <2>2. AfterDone(a, T, walk)
    BY <2>1, AfterGood
  <2> DEFINE r == IF T.tm[c].decount = 1 /\ T.tm[c].auto_unref /\ refs[c] > 0 THEN refs[c] - 1 ELSE refs[c]
  <2>3. refs[c] \in 0 .. MaxRef /\ refs' = [refs EXCEPT ![c] = r]
    BY <1>2, <1>5, <2>1 DEF RefsType
  <2>4. r \in 0 .. MaxRef
    BY <2>3, RefMax
  <2> HIDE DEF a, r, c
  <2>5. RefsType' /\ (\A x \in Fds : refs'[x] = refs[x]) /\ (\A x \in Preps : refs'[x] = refs[x])
    BY <1>1, <1>2, <2>1, <2>3, <2>4, RefsAtOne
  <2>6. TimersGood(a.T) /\ Counts(a.T, T) /\ a.w \in WalkType
    BY <2>2 DEF AfterDone
  <2>7. /\ TimersGood(T') /\ Counts(T', a.T) /\ walk' \in WalkType
        /\ pc' = "timcb" => Called(T', walk')
        /\ \/ state' = "Idle" /\ pc' = "out"
           \/ state' = "Dispatching" /\ pc' = "timcb"
        /\ \A t \in Timers : SameTimer(T'.tm[t], a.T.tm[t]) /\ SameFlags(T'.tm[t], a.T.tm[t])
    BY <1>5, <2>6, ContinueGood
  <2>8. Counts(T', T)
    <3> SUFFICES ASSUME NEW t \in Timers, T.tm[t].decount > 0, T'.tm[t].decount = 0
                 PROVE  ~T'.tm[t].is_active
      BY DEF Counts
    <3>1. a.T.tm[t].decount = 0 /\ T'.tm[t].is_active = a.T.tm[t].is_active
      BY <2>7, Zenon DEF SameTimer, SameFlags
    <3> QED
      BY <2>6, <3>1 DEF Counts
  <2>9. TimersHeld'
    BY <2>7 DEF TimersHeld
  <2>10. LoopType'
    BY <1>1, <1>2, <1>5, <2>7 DEF LoopType, Situations
  <2>11. FdsHeld' /\ PrepsHeld'
    BY <1>1, <1>2, <2>5, FdsHeldSame, PrepsHeldSame
  <2> QED
    BY <2>5, <2>8, <2>9, <2>10, <2>11 DEF RefsInv
<1> QED
  BY <1>3, <1>4, <1>5

(* The other actions keep it.                                              *)
LEMMA RefsOthers ==
  RefsInv /\ (Tick \/ ev_mgr_addref \/ ev_mgr_wakeup \/ ev_mgr_recover_run \/ UNCHANGED vars)
    => RefsInv' /\ Counts(T', T)
<1> SUFFICES ASSUME RefsInv, Tick \/ ev_mgr_addref \/ ev_mgr_wakeup \/ ev_mgr_recover_run \/ UNCHANGED vars
             PROVE  RefsInv' /\ Counts(T', T)
  OBVIOUS
<1>1. RefsType /\ LoopType /\ FdsHeld /\ PrepsHeld /\ TimersHeld
  BY DEF RefsInv
<1>2. CASE Tick
  <2>1. /\ now < MaxNow /\ now' = now + 1 /\ T' = ClockTick(T, now) /\ F' = F /\ P' = P /\ state' = state
        /\ refcount' = refcount /\ event' = event /\ wake' = wake /\ pc' = pc /\ cur' = cur
        /\ upper' = upper /\ walk' = walk /\ refs' = refs /\ fault' = fault
    BY <1>2 DEF Tick
  <2>2. TimersGood(T') /\ T'.tm = T.tm
    BY <1>1, <2>1, TickTimers DEF TimersHeld
  <2>3. Stays(T', T) /\ Counts(T', T)
    <3>1. SameCounts(T', T)
      BY <2>2, Zenon DEF SameCounts, Stays
    <3> QED
      BY <3>1, CountsSame DEF SameCounts
  <2>4. TimersHeld'
    BY <1>1, <2>1, <2>2, <2>3, TimersHeldNew
  <2>5. LoopType'
    <3>1. now + 1 \in 1 .. MaxNow
      BY <1>1, <2>1, BoundsAssumption DEF LoopType
    <3> QED
      BY <1>1, <2>1, <3>1 DEF LoopType
  <2>6. FdsHeld' /\ PrepsHeld' /\ RefsType'
    BY <1>1, <2>1, FdsHeldSame, PrepsHeldSame DEF RefsType
  <2> QED
    BY <2>3, <2>4, <2>5, <2>6 DEF RefsInv
<1>3. CASE ev_mgr_addref
  <2>1. /\ refcount \in 1 .. MaxRef - 1 /\ refcount' = refcount + 1 /\ LoopSame /\ F' = F /\ T' = T /\ P' = P
        /\ refs' = refs /\ fault' = fault
    BY <1>3 DEF ev_mgr_addref
  <2>2. RefsType'
    BY <1>1, <2>1, RefMax DEF RefsType
  <2>3. LoopType'
    BY <1>1, <2>1, LoopSameType DEF LoopType
  <2>4. refcount # 0
    BY <2>1, RefMax
  <2>5. FdsHeld' /\ PrepsHeld'
    BY <1>1, <2>1, <2>4, FdsHeldSame, PrepsHeldSame
  <2>6. TimersHeld' /\ Counts(T', T)
    BY <1>1, <2>1, TimersHeldSame DEF LoopSame, Counts
  <2> QED
    BY <2>2, <2>3, <2>5, <2>6 DEF RefsInv
<1>4. CASE ev_mgr_wakeup
  <2>1. wake < MaxWake /\ wake' = wake + 1
    BY <1>4 DEF ev_mgr_wakeup
  <2>2. wake' \in 0 .. MaxWake
    BY <1>1, <2>1, BoundsAssumption DEF LoopType
  <2>3. LoopType'
    BY <1>1, <1>4, <2>2 DEF LoopType, ev_mgr_wakeup
  <2> QED
    BY <1>4, <2>3, RefsLoopOnly DEF ev_mgr_wakeup
<1>5. CASE ev_mgr_recover_run
  <2>1. LoopType'
    BY <1>1, <1>5 DEF LoopType, ev_mgr_recover_run
  <2> QED
    BY <1>5, <2>1, RefsLoopOnly DEF ev_mgr_recover_run
<1>6. CASE UNCHANGED vars
  <2>1. LoopType'
    BY <1>1, <1>6 DEF LoopType, vars
  <2> QED
    BY <1>6, <2>1, RefsLoopOnly DEF vars
<1> QED
  BY <1>2, <1>3, <1>4, <1>5, <1>6

(* Every step keeps it and is right on the countdowns.                     *)
LEMMA RefsStep == RefsInv /\ [Next]_vars => RefsInv' /\ Counts(T', T)
<1> SUFFICES ASSUME RefsInv, [Next]_vars PROVE RefsInv' /\ Counts(T', T)
  OBVIOUS
<1>1. CASE Loop
  BY <1>1, RefsPrepare, RefsPreparerReturns, RefsWaits, RefsFdReturns, RefsTimerEvent, RefsTimerReturns DEF Loop
<1>2. CASE AddFd \/ FdAddref \/ FdUnref \/ FdSetEvents
  <2>1. RefsInv'
    BY <1>2, RefsAddFd, RefsFdOps
  <2>2. T' = T
    BY <1>2 DEF AddFd, FdAddref, FdUnref, FdSetEvents
  <2> QED
    BY <2>1, <2>2 DEF Counts
<1>3. CASE AddPrepare \/ PrepareAddref \/ PrepareUnref
  <2>1. RefsInv'
    BY <1>3, RefsPrepOps
  <2>2. T' = T
    BY <1>3 DEF AddPrepare, PrepareAddref, PrepareUnref
  <2> QED
    BY <2>1, <2>2 DEF Counts
<1>4. CASE AddTimer \/ TimerAddref \/ TimerUnref
  BY <1>4, RefsTimerOps
<1>5. CASE ev_mgr_unref
  BY <1>5, RefsMgrUnref
<1>6. CASE Tick \/ ev_mgr_addref \/ ev_mgr_wakeup \/ ev_mgr_recover_run \/ UNCHANGED vars
  BY <1>6, RefsOthers
<1> QED
  BY <1>1, <1>2, <1>3, <1>4, <1>5, <1>6 DEF Next, Client

(* For every set of objects, every client and every failure of epoll_ctl:  *)
(* an fd object or a preparer that the client holds a reference on is not  *)
(* freed, its counter is the number of the client's references, and an     *)
(* object that nobody holds waits for the cleanup (ev_fd_unref,            *)
(* ev_prepare_unref, the cleanups of ev-mgr.c).                            *)
THEOREM ReferencesCorrect == Spec => []FdAndPrepareRefs
<1>1. Init => RefsInv
  BY RefsInit
<1>2. RefsInv /\ [Next]_vars => RefsInv'
  BY RefsStep
<1> QED
  BY <1>1, <1>2, RefsImplies, PTL DEF Spec

(* For every set of timers and every client: a step that brings a          *)
(* countdown to 0 also disables the timer (timer_event in ev-mgr.c).       *)
THEOREM CountdownCorrect == Spec => CountdownEnds
<1>1. Init => RefsInv
  BY RefsInit
<1>2. RefsInv /\ [Next]_vars => RefsInv'
  BY RefsStep
<1>3. RefsInv /\ [Next]_vars =>
        [\A t \in Timers : T.tm[t].decount > 0 /\ T'.tm[t].decount = 0 => ~T'.tm[t].is_active]_vars
  BY RefsStep DEF Counts
<1> QED
  BY <1>1, <1>2, <1>3, PTL DEF Spec, CountdownEnds

(* A client that drops its references on the manager out of the handlers   *)
(* and of the wait, with no event pending, and that adds no timer in the   *)
(* handler of a timer. The clients of the runs are such; timer_event loses *)
(* a timer added from a timer's handler (ev-mgr.c:648).                    *)
Calm ==
  /\ \A s \in Situations \ {"out"} : "mgr_unref" \notin Allowed[s]
  /\ "add_timer" \notin Allowed["timcb"]

(* The timers of the client are in the list, and the walk holds the link   *)
(* to the timer whose handler runs.                                        *)
TimersCalm ==
  /\ Listed(T) /\ (refcount # 0 => OwnedTimers(T))
  /\ \A t \in Timers : refs[t] > 0 => T.tm[t].st # "none"
  /\ pc = "timcb" => Linked(T.list, walk.prv, walk.cur)

(* In the loop the manager lives, and as long as it lives there was no use *)
(* after free.                                                             *)
LoopCalm ==
  /\ pc # "out" \/ state = "Pending" => refcount # 0
  /\ refcount # 0 => ~fault

(* The object whose event is in hand lives, and so does the preparer whose *)
(* handler runs.                                                           *)
InHand ==
  /\ AtEvent => F.efd[event.ptr].st = "live"
  /\ pc = "prep" => P.pr[cur].st = "live"

(* The inductive invariant behind NoFault and TimersAreListed.             *)
CalmInv == RefsInv /\ LoopCalm /\ TimersCalm /\ InHand

(* It holds at first.                                                      *)
LEMMA CalmInit == Init => CalmInv
<1> SUFFICES ASSUME Init PROVE CalmInv
  OBVIOUS
<1>1. T = NoTimers /\ refcount = 1 /\ fault = FALSE /\ pc = "out" /\ state = "Idle"
      /\ refs = [o \in Objects |-> 0]
  BY DEF Init
<1>2. \A t \in Timers : refs[t] = 0
  BY <1>1 DEF Objects
<1>3. LoopCalm /\ InHand
  BY <1>1 DEF LoopCalm, InHand, AtEvent
<1>4. TimersCalm
  BY <1>1, <1>2, NoTimersGood DEF TimersCalm
<1> QED
  BY <1>3, <1>4, RefsInit DEF CalmInv

(* It implies both properties.                                             *)
LEMMA CalmImplies == CalmInv => NoFault /\ TimersAreListed
<1> SUFFICES ASSUME CalmInv PROVE NoFault /\ TimersAreListed
  OBVIOUS
<1>1. NoFault
  BY DEF CalmInv, LoopCalm, NoFault
<1>2. ASSUME NEW t \in ActiveTimers(T) PROVE \E k \in DOMAIN T.list : T.list[k] = t
  <2>1. t \in Timers /\ T.tm[t].st = "live"
    BY DEF ActiveTimers
  <2>2. t \in ToSet(T.list)
    BY <2>1 DEF CalmInv, TimersCalm, Listed
  <2>3. T.list \in Seq(Timers)
    BY TimersAccess DEF CalmInv, RefsInv, TimersHeld, TimersGood
  <2>4. PICK k \in 1 .. Len(T.list) : T.list[k] = t
    BY <2>2, <2>3, ToSetSeq
  <2>5. DOMAIN T.list = 1 .. Len(T.list)
    BY <2>3
  <2> QED
    BY <2>4, <2>5
<1> QED
  BY <1>1, <1>2 DEF TimersAreListed

(* What an operation of the client must leave alone.                       *)
LEMMA CalmClient ==
  ASSUME CalmInv, RefsInv', LoopSame,
         pc # "out" \/ state = "Pending" =>
           /\ refcount' # 0
           /\ \A f \in Fds : F.efd[f].st = "live" => F'.efd[f].st = "live"
           /\ \A p \in Preps : P.pr[p].st = "live" => P'.pr[p].st = "live",
         refcount' # 0 => ~fault' /\ OwnedTimers(T'),
         Listed(T'), \A t \in Timers : refs'[t] > 0 => T'.tm[t].st # "none",
         pc = "timcb" => T'.list = T.list
  PROVE  CalmInv'
<1>1. /\ state' = state /\ event' = event /\ pc' = pc /\ cur' = cur /\ walk' = walk
  BY DEF LoopSame
<1>2. LoopCalm'
  BY <1>1 DEF LoopCalm
<1>3. TimersCalm'
  BY <1>1 DEF CalmInv, TimersCalm
<1>4. AtEvent' => F'.efd[event'.ptr].st = "live"
  <2> SUFFICES ASSUME AtEvent' PROVE F'.efd[event'.ptr].st = "live"
    OBVIOUS
  <2>1. AtEvent /\ event.ptr \in Fds /\ (pc # "out" \/ state = "Pending")
    BY <1>1 DEF AtEvent
  <2>2. F.efd[event.ptr].st = "live"
    BY <2>1 DEF CalmInv, InHand
  <2> QED
    BY <1>1, <2>1, <2>2
<1>5. pc' = "prep" => P'.pr[cur'].st = "live"
  <2> SUFFICES ASSUME pc' = "prep" PROVE P'.pr[cur'].st = "live"
    OBVIOUS
  <2>1. cur \in Preps /\ P.pr[cur].st = "live" /\ pc # "out"
    BY <1>1 DEF CalmInv, InHand, RefsInv, LoopType
  <2> QED
    BY <1>1, <2>1
<1> QED
  BY <1>2, <1>3, <1>4, <1>5 DEF CalmInv, InHand

(* An operation that is not on timers leaves them alone.                   *)
LEMMA TimersSameCalm ==
  ASSUME CalmInv, T' = T, \A t \in Timers : refs'[t] = refs[t]
  PROVE  Listed(T') /\ (\A t \in Timers : refs'[t] > 0 => T'.tm[t].st # "none") /\ T'.list = T.list
         /\ (refcount # 0 => OwnedTimers(T'))
BY DEF CalmInv, TimersCalm

(* A change of one object lets the others live.                            *)
LEMMA PutLives ==
  ASSUME NEW G, NEW H, NEW f, NEW d, NEW w, NEW ch, NEW cl, Puts(H, G, f, d, w, ch, cl),
         G.efd[f].st = "live" => d.st = "live"
  PROVE  \A g \in Fds : G.efd[g].st = "live" => H.efd[g].st = "live"
<1> SUFFICES ASSUME NEW g \in Fds, G.efd[g].st = "live" PROVE H.efd[g].st = "live"
  OBVIOUS
<1>1. CASE g = f
  BY <1>1 DEF Puts
<1>2. CASE g # f
  BY <1>2 DEF Puts
<1> QED
  BY <1>1, <1>2

(* From G to H, the objects that lived live.                               *)
Lives(H, G) == \A f \in Fds : G.efd[f].st = "live" => H.efd[f].st = "live"

(* ev_mgr_add_fd lets them live.                                           *)
LEMMA AddLives ==
  ASSUME NEW G \in FdsType, NEW f \in Fds, NEW e \in Events, NEW au \in BOOLEAN, NEW ac \in BOOLEAN
  PROVE  Lives(ev_mgr_add_fd(G, f, e, au, ac), G)
<1> DEFINE H == ev_mgr_add_fd(G, f, e, au, ac)
<1>1. PICK d \in EfdType :
        /\ Puts(H, G, f, d, G.epoll[f], TRUE, G.cleanup)
        /\ d.st = "live" /\ d.refcount = 1 /\ d.is_deleted = FALSE /\ d.mgr = TRUE
        /\ d.is_active = TRUE /\ d.is_set = FALSE /\ d.open = TRUE
  BY AddPuts, Zenon
<1> QED
  BY <1>1, PutLives, Zenon DEF Lives

(* ev_fd_addref lets them live.                                            *)
LEMMA AddrefLives ==
  ASSUME NEW G \in FdsType, NEW f \in Fds
  PROVE  Lives(ev_fd_addref(G, f), G)
<1> DEFINE H == ev_fd_addref(G, f)
<1>1. PICK d \in EfdType : Puts(H, G, f, d, G.epoll[f], G.changed, G.cleanup) /\ d.st = G.efd[f].st
  BY AddrefPuts, Zenon
<1> QED
  BY <1>1, PutLives, Zenon DEF Lives

(* ev_fd_unref of an object that has a manager lets it live until the      *)
(* cleanup.                                                                *)
LEMMA UnrefLives ==
  ASSUME NEW G \in FdsType, NEW f \in Fds, G.efd[f].mgr
  PROVE  Lives(ev_fd_unref(G, f), G)
<1> DEFINE H == ev_fd_unref(G, f)
<1>1. PICK d \in EfdType, w \in Events \cup {NONE}, cl \in BOOLEAN :
        Puts(H, G, f, d, w, G.changed, cl) /\ Unreffed(G.efd[f], G.epoll[f], G.cleanup, d, w, cl)
  BY UnrefPuts
<1>2. d.st = G.efd[f].st
  BY <1>1, Zenon DEF Unreffed
<1> QED
  BY <1>1, <1>2, PutLives, Zenon DEF Lives

(* ev_fd_set_events lets them live.                                        *)
LEMMA SetEventsLives ==
  ASSUME NEW G \in FdsType, NEW f \in Fds, NEW e \in Events, NEW bad \in BOOLEAN
  PROVE  Lives(ev_fd_set_events(G, f, e, bad), G)
<1> DEFINE H == ev_fd_set_events(G, f, e, bad)
<1>1. PICK d \in EfdType, w \in Events \cup {NONE}, ch \in BOOLEAN :
        /\ Puts(H, G, f, d, w, ch, G.cleanup)
        /\ EventsSet(G.efd[f], G.epoll[f], e, bad, d, w, G.changed, ch)
  BY EventsPuts
<1>2. d.st = G.efd[f].st
  BY <1>1, Zenon DEF EventsSet
<1> QED
  BY <1>1, <1>2, PutLives, Zenon DEF Lives

(* An object that a client holds is that of a manager, if there is one.    *)
LEMMA HeldIsOwned ==
  ASSUME CalmInv, refcount # 0, NEW f \in Fds, refs[f] > 0
  PROVE  F.efd[f].mgr
<1>1. FdsRefs(F, refs, refcount)
  BY DEF CalmInv, LoopCalm, RefsInv, FdsHeld
<1>2. FdHeld(F.efd[f], F.epoll[f], refs[f], refcount)
  BY <1>1 DEF FdsRefs
<1> QED
  BY <1>2, Zenon DEF FdHeld

(* The operations on fd objects keep the invariant.                        *)
LEMMA CalmFdOps == CalmInv /\ RefsInv' /\ (AddFd \/ FdAddref \/ FdUnref \/ FdSetEvents) => CalmInv'
<1> SUFFICES ASSUME CalmInv, RefsInv', AddFd \/ FdAddref \/ FdUnref \/ FdSetEvents PROVE CalmInv'
  OBVIOUS
<1>1. /\ LoopSame /\ T' = T /\ P' = P /\ refcount' = refcount
  BY DEF AddFd, FdAddref, FdUnref, FdSetEvents
<1>2. F \in FdsType /\ RefsType /\ refs \in [Objects -> 0 .. MaxRef]
  BY DEF CalmInv, RefsInv, FdsHeld, RefsType
<1>3. \A t \in Timers : refs'[t] = refs[t]
  <2>1. \/ refs' = refs
        \/ \E f \in Fds : \E r : refs' = [refs EXCEPT ![f] = r]
    BY DEF AddFd, FdAddref, FdUnref, FdSetEvents, Take, Drop
  <2>2. \A t \in Timers : t \notin Fds /\ t \in Objects
    BY ObjectsAssumption DEF Objects
  <2> QED
    BY <1>2, <2>1, <2>2
<1>4. refcount # 0 => /\ ~fault'
                      /\ \A f \in Fds : F.efd[f].st = "live" => F'.efd[f].st = "live"
  <2> SUFFICES ASSUME refcount # 0
               PROVE  ~fault' /\ \A f \in Fds : F.efd[f].st = "live" => F'.efd[f].st = "live"
    OBVIOUS
  <2>1. ~fault
    BY DEF CalmInv, LoopCalm
  <2>2. CASE AddFd
    <3>1. PICK f \in Fds, e \in Events, a \in FdArgs : F' = ev_mgr_add_fd(F, f, e, a.aunref, a.aclose)
      BY <2>2 DEF AddFd
    <3>2. a.aunref \in BOOLEAN /\ a.aclose \in BOOLEAN
      BY FdArgsAssumption
    <3>3. Lives(F', F)
      BY <1>2, <3>1, <3>2, AddLives, Zenon
    <3> QED
      BY <2>1, <2>2, <3>3 DEF AddFd, Lives
  <2>3. CASE FdAddref
    <3>1. PICK f \in Fds : F' = ev_fd_addref(F, f)
      BY <2>3 DEF FdAddref
    <3>2. Lives(F', F)
      BY <1>2, <3>1, AddrefLives
    <3> QED
      BY <2>1, <2>3, <3>2 DEF FdAddref, Lives
  <2>4. CASE FdUnref
    <3>1. PICK f \in Fds :
            /\ refs[f] > 0
            /\ IF UnrefIsFault(F, f) THEN fault' = TRUE /\ F' = F
                                     ELSE F' = ev_fd_unref(F, f) /\ fault' = fault
      BY <2>4 DEF FdUnref, Drop
    <3>2. F.efd[f].mgr
      BY <3>1, HeldIsOwned
    <3>3. F' = ev_fd_unref(F, f) /\ fault' = fault
      BY <3>1, <3>2 DEF UnrefIsFault
    <3>4. Lives(F', F)
      BY <1>2, <3>2, <3>3, UnrefLives
    <3> QED
      BY <2>1, <3>3, <3>4 DEF Lives
  <2>5. CASE FdSetEvents
    <3>1. PICK f \in Fds, e \in Events, bad \in BOOLEAN :
            /\ refs[f] > 0
            /\ IF SetEventsIsFault(F, f, e) THEN fault' = TRUE /\ F' = F
                                            ELSE F' = ev_fd_set_events(F, f, e, bad) /\ fault' = fault
      BY <2>5, Zenon DEF FdSetEvents
    <3>2. F.efd[f].mgr
      BY <3>1, HeldIsOwned
    <3>3. F' = ev_fd_set_events(F, f, e, bad) /\ fault' = fault
      BY <3>1, <3>2 DEF SetEventsIsFault
    <3>4. Lives(F', F)
      BY <1>2, <3>3, SetEventsLives
    <3> QED
      BY <2>1, <3>3, <3>4 DEF Lives
  <2> QED
    BY <2>2, <2>3, <2>4, <2>5
<1>5. pc # "out" \/ state = "Pending" => refcount # 0
  BY DEF CalmInv, LoopCalm
<1>6. /\ Listed(T') /\ (\A t \in Timers : refs'[t] > 0 => T'.tm[t].st # "none") /\ T'.list = T.list
      /\ (refcount # 0 => OwnedTimers(T'))
  BY <1>1, <1>3, TimersSameCalm
<1>7. \A p \in Preps : P.pr[p].st = "live" => P'.pr[p].st = "live"
  BY <1>1
<1> HIDE DEF CalmInv, RefsInv
<1> QED
  BY <1>1, <1>4, <1>5, <1>6, <1>7, CalmClient

(* The operations on preparers keep it.                                    *)
LEMMA CalmPrepOps == CalmInv /\ RefsInv' /\ (AddPrepare \/ PrepareAddref \/ PrepareUnref) => CalmInv'
<1> SUFFICES ASSUME CalmInv, RefsInv', AddPrepare \/ PrepareAddref \/ PrepareUnref PROVE CalmInv'
  OBVIOUS
<1>1. /\ LoopSame /\ T' = T /\ F' = F /\ refcount' = refcount /\ fault' = fault
  BY DEF AddPrepare, PrepareAddref, PrepareUnref
<1>2. /\ PrepsRefs(P, refs, refcount) /\ P \in PrepsType /\ refs \in [Objects -> 0 .. MaxRef]
  BY DEF CalmInv, RefsInv, PrepsHeld, PrepsRefs, RefsType
<1>3. \A t \in Timers : refs'[t] = refs[t]
  <2>1. \E p \in Preps : \E r : refs' = [refs EXCEPT ![p] = r]
    BY DEF AddPrepare, PrepareAddref, PrepareUnref, Take, Drop
  <2>2. \A t \in Timers : t \notin Preps /\ t \in Objects
    BY ObjectsAssumption DEF Objects
  <2> QED
    BY <1>2, <2>1, <2>2
<1>4. ASSUME refcount # 0, NEW p \in Preps, P.pr[p].st = "live" PROVE P'.pr[p].st = "live"
  <2>1. P.pr \in [Preps -> PrepType] /\ P.pr[p].mgr
    <3>1. PrepHeld(P.pr[p], refs[p], P.cleanup, refcount)
      BY <1>2 DEF PrepsRefs
    <3>2. P.pr[p].mgr
      BY <1>4, <3>1, Zenon DEF PrepHeld
    <3> QED
      BY <1>2, <3>2, Zenon DEF PrepsType
  <2>2. CASE AddPrepare
    <3>1. PICK q \in Preps : P' = [P EXCEPT !.pr[q] = [st |-> "live", refcount |-> 1, mgr |-> TRUE],
                                            !.list = <<q>> \o @]
      BY <2>2 DEF AddPrepare
    <3>2. P'.pr = [P.pr EXCEPT ![q] = [st |-> "live", refcount |-> 1, mgr |-> TRUE]]
      BY <1>2, <3>1, Zenon DEF PrepsType
    <3> QED
      BY <1>4, <2>1, <3>2
  <2>3. CASE PrepareAddref
    <3>1. PICK q \in Preps : P' = [P EXCEPT !.pr[q].refcount = IncRef(@)]
      BY <2>3 DEF PrepareAddref
    <3>2. P'.pr = [P.pr EXCEPT ![q] = [P.pr[q] EXCEPT !.refcount = IncRef(P.pr[q].refcount)]]
      BY <1>2, <3>1, Zenon DEF PrepsType, PrepType
    <3>3. [P.pr[q] EXCEPT !.refcount = IncRef(P.pr[q].refcount)].st = P.pr[q].st
      BY <2>1, Zenon DEF PrepType
    <3> QED
      BY <1>4, <2>1, <3>2, <3>3, Zenon
  <2>4. CASE PrepareUnref
    <3>1. PICK q \in Preps : P' = ev_prepare_unref(q)
      BY <2>4 DEF PrepareUnref
    <3> DEFINE c == DecRef(P.pr[q].refcount)
               Q == [P EXCEPT !.pr[q].refcount = c]
               d == [P.pr[q] EXCEPT !.refcount = c]
    <3>2. \/ P' = Q
          \/ P.pr[q].mgr /\ P' = [Q EXCEPT !.cleanup = TRUE]
          \/ ~P.pr[q].mgr /\ P' = [Q EXCEPT !.pr[q].st = "freed"]
      BY <3>1, Zenon DEF ev_prepare_unref
    <3>3. Q.pr = [P.pr EXCEPT ![q] = d] /\ [Q EXCEPT !.cleanup = TRUE].pr = Q.pr
      BY <1>2, Zenon DEF PrepsType
    <3>4. d.st = P.pr[q].st
      BY <2>1, Zenon DEF PrepType
    <3>5. Q.pr[p].st = "live"
      <4> HIDE DEF d
      <4> QED
        BY <1>4, <2>1, <3>3, <3>4, Zenon
    <3>6. q # p => [Q EXCEPT !.pr[q].st = "freed"].pr[p] = Q.pr[p]
      <4>1. [Q EXCEPT !.pr[q].st = "freed"] = [Q EXCEPT !.pr = [Q.pr EXCEPT ![q] = [Q.pr[q] EXCEPT !.st = "freed"]]]
        BY <1>2, Zenon DEF PrepsType
      <4>2. [Q EXCEPT !.pr[q].st = "freed"].pr = [Q.pr EXCEPT ![q] = [Q.pr[q] EXCEPT !.st = "freed"]]
        BY <1>2, <4>1, Zenon DEF PrepsType
      <4>3. Q.pr \in [Preps -> {Q.pr[x] : x \in Preps}]
        BY <2>1, <3>3
      <4> HIDE DEF Q
      <4> QED
        BY <4>2, <4>3, Zenon
    <3> HIDE DEF Q, c
    <3>7. q = p => P' = Q \/ P' = [Q EXCEPT !.cleanup = TRUE]
      BY <2>1, <3>2
    <3> QED
      BY <3>2, <3>3, <3>5, <3>6, <3>7
  <2> QED
    BY <2>2, <2>3, <2>4
<1>5. (pc # "out" \/ state = "Pending" => refcount # 0) /\ (refcount # 0 => ~fault)
  BY DEF CalmInv, LoopCalm
<1>6. /\ Listed(T') /\ (\A t \in Timers : refs'[t] > 0 => T'.tm[t].st # "none") /\ T'.list = T.list
      /\ (refcount # 0 => OwnedTimers(T'))
  BY <1>1, <1>3, TimersSameCalm
<1> QED
  BY <1>1, <1>4, <1>5, <1>6, CalmClient

(* The references of timers are not the affair of the list.                *)
LEMMA RefTimersList ==
  ASSUME NEW G \in TimersType, NEW t \in Timers
  PROVE  ev_timer_unref(G, t).list = G.list /\ ev_timer_addref(G, t).list = G.list
<1> DEFINE c == DecRef(G.tm[t].refcount)
           A == [G EXCEPT !.tm[t].refcount = c]
           B == [G EXCEPT !.tm[t].refcount = 0, !.tm[t].is_active = FALSE,
                          !.tm[t].is_deleted = TRUE, !.cleanup = TRUE]
<1>1. A.list = G.list
  BY Zenon DEF TimersType
<1>2. B.list = G.list
  BY Zenon DEF TimersType
<1>3. ev_timer_unref(G, t) = A \/ ev_timer_unref(G, t) = B
  <2>1. ev_timer_unref(G, t) = IF c # 0 THEN [G EXCEPT !.tm[t].refcount = DecRef(@)] ELSE B
    BY Zenon DEF ev_timer_unref
  <2>2. [G EXCEPT !.tm[t].refcount = DecRef(@)] = A
    BY Zenon
  <2> HIDE DEF A, B
  <2> QED
    BY <2>1, <2>2
<1>4. ev_timer_addref(G, t).list = G.list
  BY Zenon DEF ev_timer_addref, TimersType
<1> HIDE DEF A, B
<1> QED
  BY <1>1, <1>2, <1>3, <1>4

(* The operations on timers keep it.                                       *)
LEMMA CalmTimerOps ==
  Calm /\ CalmInv /\ RefsInv' /\ (AddTimer \/ TimerAddref \/ TimerUnref) => CalmInv'
<1> SUFFICES ASSUME Calm, CalmInv, RefsInv', AddTimer \/ TimerAddref \/ TimerUnref PROVE CalmInv'
  OBVIOUS
<1>1. /\ LoopSame /\ F' = F /\ P' = P /\ refcount' = refcount
  BY DEF AddTimer, TimerAddref, TimerUnref
<1>2. /\ TimersGood(T) /\ T \in TimersType /\ refs \in [Objects -> 0 .. MaxRef]
      /\ now \in 1 .. MaxNow /\ \A t \in Timers : t \in Objects
  BY DEF CalmInv, RefsInv, TimersHeld, TimersGood, RefsType, LoopType, Objects
<1>3. /\ Listed(T) /\ (refcount # 0 => OwnedTimers(T) /\ ~fault)
      /\ \A t \in Timers : refs[t] > 0 => T.tm[t].st # "none"
      /\ (pc # "out" \/ state = "Pending" => refcount # 0)
  BY DEF CalmInv, LoopCalm, TimersCalm
<1>4. CASE AddTimer
  <2>1. PICK t \in Timers, a \in TimerArgs, g \in RefGarbage, bad \in BOOLEAN :
          /\ T.tm[t].st = "none"
          /\ T' = ev_mgr_add_timer(T, t, a.start, a.count, a.period, a.accuracy, a.aunref, g, now, bad)
          /\ refs' = [refs EXCEPT ![t] = 1]
    BY <1>4, Zenon DEF AddTimer
  <2>2. /\ Stays(T', T) /\ T'.tm[t].st # "none" /\ (OwnedTimers(T) => OwnedTimers(T')) /\ Listed(T')
    <3>1. TimerAdded(T', T, t)
      BY <1>2, <2>1, AddTimers, Zenon
    <3> QED
      BY <1>3, <3>1, Zenon DEF TimerAdded
  <2>3. \A u \in Timers : refs'[u] > 0 => T'.tm[u].st # "none"
    <3> SUFFICES ASSUME NEW u \in Timers, refs'[u] > 0 PROVE T'.tm[u].st # "none"
      OBVIOUS
    <3>1. CASE u = t
      BY <2>2, <3>1
    <3>2. CASE u # t
      <4>1. refs[u] > 0
        BY <1>2, <2>1, <3>2
      <4> QED
        BY <1>3, <2>2, <4>1 DEF Stays
    <3> QED
      BY <3>1, <3>2
  <2>4. pc # "timcb"
    <3> SUFFICES ASSUME pc = "timcb" PROVE FALSE
      OBVIOUS
    <3>1. "add_timer" \in Allowed[Situation]
      BY <1>4 DEF AddTimer, May
    <3>2. Situation = "timcb"
      BY DEF Situation
    <3> QED
      BY <3>1, <3>2 DEF Calm
  <2>5. fault' = fault
    BY <1>4 DEF AddTimer
  <2> HIDE DEF CalmInv
  <2> QED
    BY <1>1, <1>3, <2>2, <2>3, <2>4, <2>5, CalmClient
<1>5. CASE TimerAddref
  <2>1. PICK t \in Timers : /\ refs[t] > 0 /\ refs' = [refs EXCEPT ![t] = @ + 1]
                            /\ T' = ev_timer_addref(T, t)
    BY <1>5 DEF TimerAddref, Take
  <2>2. /\ SameCounts(T', T) /\ (OwnedTimers(T) => OwnedTimers(T')) /\ Listed(T')
    BY <1>2, <1>3, <2>1, AddrefTimers
  <2>3. T'.list = T.list
    BY <1>2, <2>1, RefTimersList
  <2>4. \A u \in Timers : refs'[u] > 0 => T'.tm[u].st # "none"
    <3> SUFFICES ASSUME NEW u \in Timers, refs'[u] > 0 PROVE T'.tm[u].st # "none"
      OBVIOUS
    <3>1. refs[u] > 0
      BY <1>2, <2>1
    <3> QED
      BY <1>3, <2>2, <3>1 DEF SameCounts, Stays
  <2>5. fault' = fault
    BY <1>5 DEF TimerAddref
  <2> HIDE DEF CalmInv
  <2> QED
    BY <1>1, <1>3, <2>2, <2>3, <2>4, <2>5, CalmClient
<1>6. CASE TimerUnref
  <2>1. PICK t \in Timers : /\ refs[t] > 0 /\ refs' = [refs EXCEPT ![t] = @ - 1]
                            /\ IF TimerUnrefIsFault(T, t) THEN fault' = TRUE /\ T' = T
                               ELSE T' = ev_timer_unref(T, t) /\ fault' = fault
    BY <1>6 DEF TimerUnref, Drop
  <2>2. CASE ~TimerUnrefIsFault(T, t)
    <3>1. T' = ev_timer_unref(T, t) /\ fault' = fault
      BY <2>1, <2>2
    <3>2. /\ SameCounts(T', T) /\ (OwnedTimers(T) => OwnedTimers(T')) /\ Listed(T')
      BY <1>2, <1>3, <3>1, UnrefTimers
    <3>3. T'.list = T.list
      BY <1>2, <3>1, RefTimersList
    <3>4. \A u \in Timers : refs'[u] > 0 => T'.tm[u].st # "none"
      <4> SUFFICES ASSUME NEW u \in Timers, refs'[u] > 0 PROVE T'.tm[u].st # "none"
        OBVIOUS
      <4>1. refs[u] > 0
        BY <1>2, <2>1
      <4> QED
        BY <1>3, <3>2, <4>1 DEF SameCounts, Stays
    <3> HIDE DEF CalmInv
    <3> QED
      BY <1>1, <1>3, <3>1, <3>2, <3>3, <3>4, CalmClient
  <2>3. CASE TimerUnrefIsFault(T, t)
    <3>1. T' = T /\ fault' = TRUE
      BY <2>1, <2>3
    <3>2. refcount = 0
      <4> SUFFICES ASSUME refcount # 0 PROVE FALSE
        OBVIOUS
      <4>1. T.tm[t].mgr
        BY <1>3, <2>1 DEF OwnedTimers
      <4> QED
        BY <2>3, <4>1 DEF TimerUnrefIsFault
    <3>3. \A u \in Timers : refs'[u] > 0 => T'.tm[u].st # "none"
      <4> SUFFICES ASSUME NEW u \in Timers, refs'[u] > 0 PROVE T'.tm[u].st # "none"
        OBVIOUS
      <4>1. refs[u] > 0
        BY <1>2, <2>1
      <4> QED
        BY <1>3, <3>1, <4>1
    <3> HIDE DEF CalmInv
    <3> QED
      BY <1>1, <1>3, <3>1, <3>2, <3>3, CalmClient
  <2> QED
    BY <2>2, <2>3
<1> QED
  BY <1>4, <1>5, <1>6

(* The last reference on the manager is dropped out of the loop, with no   *)
(* event pending: nothing is in hand.                                      *)
LEMMA CalmMgrUnref == Calm /\ CalmInv /\ RefsInv' /\ ev_mgr_unref => CalmInv'
<1> SUFFICES ASSUME Calm, CalmInv, RefsInv', ev_mgr_unref PROVE CalmInv'
  OBVIOUS
<1> DEFINE U == timers_cleanup(T)
<1>1. /\ LoopSame /\ refcount # 0 /\ refs' = refs
      /\ fault' = (refcount = 1 /\ pc # "out") /\ refcount' = refcount - 1
      /\ IF refcount # 1 THEN T' = U ELSE T' = OrphanTimers(U)
  BY DEF ev_mgr_unref
<1>2. pc = "out" /\ state # "Pending"
  <2>1. "mgr_unref" \in Allowed[Situation]
    BY DEF ev_mgr_unref, May
  <2>2. Situation \in Situations
    BY DEF Situation, CalmInv, RefsInv, LoopType, Situations
  <2>3. Situation = "out"
    BY <2>1, <2>2 DEF Calm
  <2> QED
    BY <2>3 DEF Situation
<1>3. TimersGood(T) /\ refcount \in Nat
  BY RefMax DEF CalmInv, RefsInv, TimersHeld, RefsType
<1>4. /\ Listed(T) /\ OwnedTimers(T) /\ \A t \in Timers : refs[t] > 0 => T.tm[t].st # "none"
  BY <1>1 DEF CalmInv, TimersCalm
<1>5. /\ TimersGood(U) /\ SameCounts(U, T) /\ OwnedTimers(U) /\ Listed(U)
  BY <1>3, <1>4, CleanupTimers
<1> HIDE DEF U
<1>6. SameCounts(T', U) /\ Listed(T') /\ (refcount # 1 => OwnedTimers(T'))
  <2>1. CASE refcount # 1
    BY <1>1, <1>5, <2>1 DEF SameCounts, Stays
  <2>2. CASE refcount = 1
    BY <1>1, <1>5, <2>2, OrphanTimersGood
  <2> QED
    BY <2>1, <2>2
<1>7. \A t \in Timers : refs'[t] > 0 => T'.tm[t].st # "none"
  <2> SUFFICES ASSUME NEW t \in Timers, refs'[t] > 0 PROVE T'.tm[t].st # "none"
    OBVIOUS
  <2>1. T.tm[t].st # "none"
    BY <1>1, <1>4
  <2>2. U.tm[t].st # "none"
    BY <1>5, <2>1 DEF SameCounts, Stays
  <2> QED
    BY <1>6, <2>2 DEF SameCounts, Stays
<1>8. refcount' # 0 => ~fault' /\ OwnedTimers(T')
  <2>1. refcount' # 0 => refcount # 1
    BY <1>1, <1>3
  <2>2. ~fault'
    <3> HIDE DEF U
    <3>1. fault' = (refcount = 1 /\ pc # "out")
      BY <1>1
    <3> QED
      BY <1>2, <3>1, Zenon
  <2> QED
    BY <1>6, <2>1, <2>2
<1> HIDE DEF CalmInv, RefsInv
<1> QED
  BY <1>1, <1>2, <1>6, <1>7, <1>8, CalmClient

(* The other actions keep it.                                              *)
LEMMA CalmOthers ==
  CalmInv /\ RefsInv' /\ (Tick \/ ev_mgr_addref \/ ev_mgr_wakeup \/ ev_mgr_recover_run \/ UNCHANGED vars)
    => CalmInv'
<1> SUFFICES ASSUME CalmInv, RefsInv',
                    Tick \/ ev_mgr_addref \/ ev_mgr_wakeup \/ ev_mgr_recover_run \/ UNCHANGED vars
             PROVE  CalmInv'
  OBVIOUS
<1>1. /\ F' = F /\ P' = P /\ event' = event /\ pc' = pc /\ cur' = cur /\ walk' = walk /\ refs' = refs
      /\ fault' = fault /\ (state' = state \/ state' = "Idle")
  BY DEF Tick, ev_mgr_addref, ev_mgr_wakeup, ev_mgr_recover_run, vars, LoopSame
<1>2. refcount' = refcount \/ (refcount # 0 /\ refcount' # 0)
  <2>1. CASE ev_mgr_addref
    <3>1. refcount \in 1 .. MaxRef - 1 /\ refcount' = refcount + 1
      BY <2>1 DEF ev_mgr_addref
    <3> QED
      BY <3>1, RefMax
  <2> QED
    BY <2>1 DEF Tick, ev_mgr_wakeup, ev_mgr_recover_run, vars
<1>3. T'.tm = T.tm /\ T'.list = T.list
  <2>1. CASE Tick
    BY <2>1, TickTimers DEF Tick, CalmInv, RefsInv, TimersHeld
  <2> QED
    BY <2>1 DEF ev_mgr_addref, ev_mgr_wakeup, ev_mgr_recover_run, vars
<1>4. TimersCalm'
  <2>1. Listed(T') /\ (OwnedTimers(T) => OwnedTimers(T'))
    BY <1>3, Zenon DEF CalmInv, TimersCalm, Listed, OwnedTimers
  <2>2. (refcount' # 0 => OwnedTimers(T')) /\ \A t \in Timers : refs'[t] > 0 => T'.tm[t].st # "none"
    BY <1>1, <1>2, <1>3, <2>1 DEF CalmInv, TimersCalm
  <2>3. pc' = "timcb" => Linked(T'.list, walk'.prv, walk'.cur)
    BY <1>1, <1>3 DEF CalmInv, TimersCalm
  <2> QED
    BY <2>1, <2>2, <2>3 DEF TimersCalm
<1>5. LoopCalm' /\ InHand'
  BY <1>1, <1>2 DEF CalmInv, LoopCalm, InHand, AtEvent
<1> QED
  BY <1>4, <1>5 DEF CalmInv

-----------------------------------------------------------------------------
(* The loop: it runs, and so the manager lives and nothing was lost.       *)
LEMMA CalmLoop ==
  ASSUME CalmInv, RefsInv', Running, refcount' = refcount, ~fault',
         AtEvent' => F'.efd[event'.ptr].st = "live",
         pc' = "prep" => P'.pr[cur'].st = "live",
         TimersCalm'
  PROVE  CalmInv'
BY DEF CalmInv, LoopCalm, InHand, Running

(* When no handler of a timer is called, the timers that stay are enough.  *)
LEMMA TimersCalmKept ==
  ASSUME CalmInv, Running, refcount' = refcount, refs' = refs, Listed(T'), OwnedTimers(T'), Stays(T', T),
         pc' # "timcb"
  PROVE  TimersCalm'
BY DEF CalmInv, TimersCalm, Stays

(* Nothing of the timers changes.                                          *)
LEMMA TimersCalmSame ==
  ASSUME CalmInv, refcount' = refcount, T' = T, \A t \in Timers : refs'[t] = refs[t], walk' = walk,
         pc' = "timcb" => pc = "timcb"
  PROVE  TimersCalm'
BY DEF CalmInv, TimersCalm

(* The end of the preparation keeps it.                                    *)
LEMMA CalmEndPrepare ==
  ASSUME CalmInv, RefsInv', Running, refcount' = refcount, fault' = fault, refs' = refs,
         NEW G, NEW U, TimersGood(U), SameCounts(U, T), OwnedTimers(U), Listed(U),
         NEW up \in Nat, EndPrepare(G, U, up)
  PROVE  CalmInv'
<1>1. PICK bad \in BOOLEAN : T' = timer_set(U, up, now, bad)
  BY Zenon DEF EndPrepare
<1>2. now \in Nat
  BY DEF CalmInv, RefsInv, LoopType
<1>3. SameCounts(T', U) /\ OwnedTimers(T') /\ Listed(T')
  BY <1>1, <1>2, SetTimers
<1>4. Stays(T', T)
  BY <1>3, Zenon DEF SameCounts, Stays
<1>5. state' = "Ready" /\ pc' = "out"
  BY DEF EndPrepare
<1>6. TimersCalm'
  BY <1>3, <1>4, <1>5, TimersCalmKept
<1> QED
  BY <1>5, <1>6, CalmLoop DEF AtEvent, Running

(* The beginning of the preparation keeps it, and calls a preparer that    *)
(* lives.                                                                  *)
LEMMA CalmDoPrepare ==
  ASSUME CalmInv, RefsInv', NEW up \in Nat, do_prepare(up)
  PROVE  CalmInv'
<1> DEFINE G == efds_cleanup(F)
           U == timers_cleanup(T)
           Q == preparers_cleanup(P)
           p == NextPreparer(Q, NONE)
<1>1. Running /\ refs' = refs /\ refcount' = refcount /\ fault' = fault /\ P' = Q
  BY DEF do_prepare
<1>2. \/ EndPrepare(G, U, up)
      \/ p # NONE /\ F' = G /\ T' = U /\ state' = "Preparing" /\ pc' = "prep" /\ cur' = p
  BY Zenon DEF do_prepare
<1>3. TimersGood(T) /\ OwnedTimers(T) /\ Listed(T)
  BY <1>1 DEF CalmInv, RefsInv, TimersHeld, TimersCalm, Running
<1>4. TimersGood(U) /\ SameCounts(U, T) /\ OwnedTimers(U) /\ Listed(U)
  BY <1>3, CleanupTimers
<1>5. p # NONE => Q.pr[p].st = "live"
  <2>1. PrepsRefs(Q, refs, refcount) /\ refcount # 0
    BY <1>1, PrepCleanupRefs DEF CalmInv, RefsInv, PrepsHeld, Running
  <2>2. p = NONE \/ p \in ToSet(Q.list)
    BY <2>1, NextPreparerListed DEF PrepsRefs
  <2> HIDE DEF Q, p
  <2> QED
    BY <2>1, <2>2 DEF PrepsRefs
<1> HIDE DEF G, U, Q, p
<1>6. CASE EndPrepare(G, U, up)
  BY <1>1, <1>4, <1>6, CalmEndPrepare
<1>7. CASE p # NONE /\ F' = G /\ T' = U /\ state' = "Preparing" /\ pc' = "prep" /\ cur' = p
  <2>1. TimersCalm'
    BY <1>1, <1>4, <1>7, TimersCalmKept DEF SameCounts
  <2> QED
    BY <1>1, <1>5, <1>7, <2>1, CalmLoop DEF AtEvent, Running
<1> QED
  BY <1>2, <1>6, <1>7

(* ev_mgr_prepare and ev_mgr_prepare_with_wakeup keep it.                  *)
LEMMA CalmPrepare ==
  CalmInv /\ RefsInv' /\ (ev_mgr_prepare \/ ev_mgr_prepare_with_wakeup) => CalmInv'
<1> SUFFICES ASSUME CalmInv, RefsInv', ev_mgr_prepare \/ ev_mgr_prepare_with_wakeup PROVE CalmInv'
  OBVIOUS
<1>1. PICK up \in Nat : do_prepare(up)
  <2>1. CASE ev_mgr_prepare
    BY <2>1, TimeAssumption DEF ev_mgr_prepare
  <2>2. CASE ev_mgr_prepare_with_wakeup
    <3>1. PICK ms \in Wakeups : do_prepare(now + ms)
      BY <2>2 DEF ev_mgr_prepare_with_wakeup
    <3>2. now + ms \in Nat
      BY BoundsAssumption DEF CalmInv, RefsInv, LoopType
    <3> QED
      BY <3>1, <3>2
  <2> QED
    BY <2>1, <2>2
<1> QED
  BY <1>1, CalmDoPrepare

(* The preparer whose handler runs is not freed meanwhile.                 *)
LEMMA CalmPreparerReturns == CalmInv /\ RefsInv' /\ PreparerReturns => CalmInv'
<1> SUFFICES ASSUME CalmInv, RefsInv', PreparerReturns PROVE CalmInv'
  OBVIOUS
<1> DEFINE p == NextPreparer(P, cur)
<1>1. Running /\ refs' = refs /\ refcount' = refcount /\ P' = P /\ walk' = walk /\ event' = event /\ pc = "prep"
  BY DEF PreparerReturns
<1>2. P.pr[cur].st = "live"
  BY <1>1 DEF CalmInv, InHand
<1>3. \/ EndPrepare(F, T, upper) /\ fault' = fault
      \/ /\ F' = F /\ T' = T /\ state' = state /\ pc' = pc /\ fault' = fault
         /\ p # NONE /\ cur' = p
  BY <1>2, Zenon DEF PreparerReturns
<1>4. p # NONE => P.pr[p].st = "live"
  <2>1. PrepsRefs(P, refs, refcount) /\ refcount # 0
    BY <1>1 DEF CalmInv, RefsInv, PrepsHeld, Running
  <2>2. p = NONE \/ p \in ToSet(P.list)
    BY <2>1, NextPreparerListed DEF PrepsRefs
  <2> HIDE DEF p
  <2> QED
    BY <2>1, <2>2 DEF PrepsRefs
<1> HIDE DEF p
<1>5. CASE EndPrepare(F, T, upper) /\ fault' = fault
  <2>1. TimersGood(T) /\ OwnedTimers(T) /\ Listed(T) /\ upper \in Nat
    BY <1>1 DEF CalmInv, RefsInv, TimersHeld, TimersCalm, Running, LoopType
  <2>2. SameCounts(T, T)
    BY DEF SameCounts, Stays
  <2> QED
    BY <1>1, <1>5, <2>1, <2>2, CalmEndPrepare
<1>6. CASE /\ F' = F /\ T' = T /\ state' = state /\ pc' = pc /\ fault' = fault
           /\ p # NONE /\ cur' = p
  <2>1. TimersCalm'
    BY <1>1, <1>6, TimersCalmSame
  <2>2. AtEvent' => F'.efd[event'.ptr].st = "live"
    BY <1>1, <1>6 DEF AtEvent, CalmInv, InHand
  <2> QED
    BY <1>1, <1>4, <1>6, <2>1, <2>2, CalmLoop DEF Running
<1> QED
  BY <1>3, <1>5, <1>6

(* What the kernel returns is alive, and stays so until it is dispatched.  *)
LEMMA CalmWaits ==
  CalmInv /\ RefsInv' /\ (ev_mgr_wait \/ WaitFails \/ WaitWoken \/ WaitEvent \/ DispatchFd) => CalmInv'
<1> SUFFICES ASSUME CalmInv, RefsInv', ev_mgr_wait \/ WaitFails \/ WaitWoken \/ WaitEvent \/ DispatchFd
             PROVE  CalmInv'
  OBVIOUS
<1>1. Running /\ F' = F /\ T' = T /\ P' = P /\ refcount' = refcount /\ refs' = refs /\ walk' = walk
  BY DEF ev_mgr_wait, WaitFails, WaitWoken, WaitEvent, DispatchFd
<1>2. ~fault' /\ pc' \in {"out", "wait", "fdcb"} /\ (AtEvent' => F.efd[event'.ptr].st = "live")
  <2>1. CASE ev_mgr_wait
    BY <1>1, <2>1 DEF ev_mgr_wait, AtEvent, Running
  <2>2. CASE WaitFails
    BY <1>1, <2>2 DEF WaitFails, Return, AtEvent, Running
  <2>3. CASE WaitWoken
    BY <1>1, <2>3 DEF WaitWoken, Return, AtEvent, Running
  <2>4. CASE WaitEvent
    <3>1. fault' = fault /\ pc' = "out"
      BY <2>4 DEF WaitEvent, Return
    <3>2. CASE T.fired /\ Return("Pending", [ptr |-> TIMER, hup |-> FALSE])
      <4>1. event' = [ptr |-> TIMER, hup |-> FALSE]
        BY <3>2, Zenon DEF Return
      <4>2. event'.ptr \notin Fds
        BY <4>1, TimerAssumption
      <4> QED
        BY <1>1, <3>1, <4>2 DEF AtEvent, Running
    <3>3. CASE \E f \in Fds, hup \in BOOLEAN : F.epoll[f] # NONE /\ Return("Pending", [ptr |-> f, hup |-> hup])
      <4>1. PICK f \in Fds, hup \in BOOLEAN : F.epoll[f] # NONE /\ Return("Pending", [ptr |-> f, hup |-> hup])
        BY <3>3
      <4>2. event' = [ptr |-> f, hup |-> hup]
        BY <4>1, Zenon DEF Return
      <4>3. event'.ptr = f
        BY <4>2, Zenon
      <4>4. FdHeld(F.efd[f], F.epoll[f], refs[f], refcount)
        BY <1>1 DEF CalmInv, RefsInv, FdsHeld, FdsRefs, Running
      <4>5. F.efd[f].st = "live"
        BY <4>1, <4>4, Zenon DEF FdHeld
      <4> QED
        BY <1>1, <3>1, <4>3, <4>5 DEF Running
    <3> QED
      BY <2>4, <3>2, <3>3, Zenon DEF WaitEvent
  <2>5. CASE DispatchFd
    <3>1. state = "Pending" /\ event.ptr \in Fds /\ event' = event
      BY <2>5 DEF DispatchFd
    <3>2. F.efd[event.ptr].st = "live"
      BY <3>1 DEF CalmInv, InHand, AtEvent
    <3>3. pc' = "fdcb" /\ fault' = fault
      BY <2>5, <3>2 DEF DispatchFd
    <3> QED
      BY <1>1, <3>1, <3>2, <3>3 DEF Running
  <2> QED
    BY <2>1, <2>2, <2>3, <2>4, <2>5
<1>3. TimersCalm'
  BY <1>1, <1>2, TimersCalmSame
<1> QED
  BY <1>1, <1>2, <1>3, CalmLoop

(* The fd object whose handler returns was not freed meanwhile.            *)
LEMMA CalmFdReturns == CalmInv /\ RefsInv' /\ FdReturns => CalmInv'
<1> SUFFICES ASSUME CalmInv, RefsInv', FdReturns PROVE CalmInv'
  OBVIOUS
<1>1. Running /\ pc = "fdcb" /\ T' = T /\ refcount' = refcount /\ walk' = walk
  BY DEF FdReturns
<1>2. event.ptr \in Fds /\ event.ptr \notin Timers
  BY <1>1, ObjectsAssumption DEF CalmInv, RefsInv, LoopType
<1>3. F.efd[event.ptr].st = "live"
  BY <1>1, <1>2 DEF CalmInv, InHand, AtEvent, Running
<1>4. /\ state' = "Idle" /\ pc' = "out" /\ fault' = fault
      /\ \E r : refs' = [refs EXCEPT ![event.ptr] = r]
  BY <1>3, Zenon DEF FdReturns
<1>5. \A t \in Timers : refs'[t] = refs[t]
  <2>1. refs \in [Objects -> 0 .. MaxRef] /\ \A t \in Timers : t \in Objects
    BY DEF CalmInv, RefsInv, RefsType, Objects
  <2> QED
    BY <1>2, <1>4, <2>1
<1>6. TimersCalm'
  BY <1>1, <1>4, <1>5, TimersCalmSame
<1> QED
  BY <1>1, <1>4, <1>6, CalmLoop DEF AtEvent, Running

(* The beginning of timer_event keeps it.                                  *)
LEMMA CalmTimerEvent == CalmInv /\ RefsInv' /\ timer_event => CalmInv'
<1> SUFFICES ASSUME CalmInv, RefsInv', timer_event PROVE CalmInv'
  OBVIOUS
<1> DEFINE U == [T EXCEPT !.fired = FALSE]
           w == [NoWalk EXCEPT !.now = now]
<1>1. Running /\ pc = "out" /\ refs' = refs /\ refcount' = refcount /\ fault' = fault
  BY DEF timer_event
<1>2. /\ TimersGood(T) /\ now \in 1 .. MaxNow
      /\ OwnedTimers(T) /\ Listed(T) /\ \A t \in Timers : refs[t] > 0 => T.tm[t].st # "none"
  BY <1>1 DEF CalmInv, RefsInv, TimersHeld, LoopType, TimersCalm, Running
<1>3. \/ state' = "Idle" /\ T' = T /\ walk' = walk /\ pc' = pc
      \/ Continue(U, w)
  BY Zenon DEF timer_event
<1>4. CASE state' = "Idle" /\ T' = T /\ walk' = walk /\ pc' = pc
  <2>1. TimersCalm'
    BY <1>1, <1>4, TimersCalmSame
  <2> QED
    BY <1>1, <1>4, <2>1, CalmLoop DEF AtEvent, Running
<1>5. CASE Continue(U, w)
  <2>1. U \in TimersType /\ U.tm = T.tm /\ U.list = T.list
    BY <1>2, Zenon DEF TimersGood, TimersType
  <2>2. w \in WalkType /\ w.prv = HEAD
    <3>1. now \in 0 .. MaxNow /\ NoWalk \in WalkType /\ NoWalk.prv = HEAD
      BY <1>2, BoundsAssumption DEF NoWalk, WalkType
    <3> QED
      BY <3>1, Zenon DEF WalkType
  <2> HIDE DEF U, w
  <2>3. TimersGood(U) /\ SameCounts(U, T) /\ OwnedTimers(U) /\ Listed(U)
    BY <1>2, <2>1, SameTimersGood
  <2>4. /\ \/ state' = "Idle" /\ pc' = "out"
           \/ state' = "Dispatching" /\ pc' = "timcb"
        /\ Stays(T', U) /\ (OwnedTimers(U) => OwnedTimers(T')) /\ (Listed(U) => Listed(T'))
        /\ Listed(U) /\ w.prv \in {HEAD} \cup ToSet(U.list) /\ pc' = "timcb" =>
             Linked(T'.list, walk'.prv, walk'.cur)
    BY <1>5, <2>2, <2>3, ContinueGood
  <2>5. \A t \in Timers : refs'[t] > 0 => T'.tm[t].st # "none"
    BY <1>1, <1>2, <2>1, <2>4 DEF Stays
  <2>6. TimersCalm'
    BY <2>2, <2>3, <2>4, <2>5 DEF TimersCalm
  <2> QED
    BY <1>1, <2>4, <2>6, CalmLoop DEF AtEvent, Running
<1> QED
  BY <1>3, <1>4, <1>5

(* The two timers of the walk are linked in the list, and so are not freed.*)
LEMMA LinkedAreLive ==
  ASSUME NEW G, TimersGood(G), Listed(G), NEW w, Linked(G.list, w.prv, w.cur)
  PROVE  ~WalkIsFault(G, w)
<1>1. G.list \in Seq(Timers)
  BY TimersAccess DEF TimersGood
<1>2. \A k \in 1 .. Len(G.list) : G.tm[G.list[k]].st = "live"
  BY <1>1, ToSetSeq DEF Listed
<1>3. PICK k \in 1 .. Len(G.list) : G.list[k] = w.cur /\ IF k = 1 THEN w.prv = HEAD ELSE w.prv = G.list[k - 1]
  BY DEF Linked
<1>4. G.tm[w.cur].st = "live"
  BY <1>2, <1>3
<1>5. w.prv = HEAD \/ G.tm[w.prv].st = "live"
  <2>1. CASE k = 1
    BY <1>3, <2>1
  <2>2. CASE k # 1
    <3>1. k - 1 \in 1 .. Len(G.list)
      BY <1>1, <2>2
    <3> QED
      BY <1>2, <1>3, <2>2, <3>1
  <2> QED
    BY <2>1, <2>2
<1> QED
  BY <1>4, <1>5, Zenon DEF WalkIsFault

(* The timer whose handler returns was not freed meanwhile, nor the one    *)
(* whose link is written.                                                  *)
LEMMA CalmTimerReturns == CalmInv /\ RefsInv' /\ TimerReturns => CalmInv'
<1> SUFFICES ASSUME CalmInv, RefsInv', TimerReturns PROVE CalmInv'
  OBVIOUS
<1> DEFINE c == walk.cur
           a == AfterHandler(T, walk)
<1>1. Running /\ pc = "timcb" /\ refcount' = refcount
  BY DEF TimerReturns
<1>2. /\ TimersGood(T) /\ walk \in WalkType /\ Called(T, walk)
      /\ refs \in [Objects -> 0 .. MaxRef] /\ c \in Timers /\ c \in Objects
      /\ \A t \in Timers : t \in Objects
  BY <1>1 DEF CalmInv, RefsInv, TimersHeld, RefsType, Called, Objects
<1>3. /\ OwnedTimers(T) /\ Listed(T) /\ Linked(T.list, walk.prv, walk.cur)
      /\ \A t \in Timers : refs[t] > 0 => T.tm[t].st # "none"
  BY <1>1 DEF CalmInv, TimersCalm, Running
<1>4. ~WalkIsFault(T, walk)
  BY <1>2, <1>3, LinkedAreLive
<1>5. /\ Continue(a.T, a.w) /\ fault' = fault
      /\ refs' = [refs EXCEPT ![c] =
           IF T.tm[c].decount = 1 /\ T.tm[c].auto_unref /\ @ > 0 THEN @ - 1 ELSE @]
  BY <1>4, Zenon DEF TimerReturns
<1>6. AfterDone(a, T, walk)
  BY <1>2, AfterGood
<1> HIDE DEF a, c
<1>7. /\ TimersGood(a.T) /\ a.w \in WalkType /\ Added(a.T, T) /\ OwnedTimers(a.T)
      /\ Listed(a.T) /\ a.w.prv \in {HEAD} \cup ToSet(a.T.list)
  BY <1>3, <1>6 DEF AfterDone
<1>8. /\ \/ state' = "Idle" /\ pc' = "out"
         \/ state' = "Dispatching" /\ pc' = "timcb"
      /\ Stays(T', a.T) /\ OwnedTimers(T') /\ Listed(T')
      /\ pc' = "timcb" => Linked(T'.list, walk'.prv, walk'.cur)
  BY <1>5, <1>7, ContinueGood
<1>9. \A t \in Timers : refs'[t] > 0 => T'.tm[t].st # "none"
  <2> SUFFICES ASSUME NEW t \in Timers, refs'[t] > 0 PROVE T'.tm[t].st # "none"
    OBVIOUS
  <2>1. refs[t] > 0
    <3>1. CASE t = c
      BY <1>2, <1>5, <3>1
    <3>2. CASE t # c
      BY <1>2, <1>5, <3>2
    <3> QED
      BY <3>1, <3>2
  <2> QED
    BY <1>3, <1>7, <1>8, <2>1 DEF Added, Stays
<1>10. TimersCalm'
  BY <1>8, <1>9 DEF TimersCalm
<1> QED
  BY <1>1, <1>5, <1>8, <1>10, CalmLoop DEF AtEvent, Running

(* Every step of a calm client keeps it.                                   *)
LEMMA CalmStep == Calm /\ CalmInv /\ [Next]_vars => CalmInv'
<1> SUFFICES ASSUME Calm, CalmInv, [Next]_vars PROVE CalmInv'
  OBVIOUS
<1>1. RefsInv'
  BY RefsStep DEF CalmInv
<1>2. CASE Loop
  BY <1>1, <1>2, CalmPrepare, CalmPreparerReturns, CalmWaits, CalmFdReturns, CalmTimerEvent, CalmTimerReturns
     DEF Loop
<1>3. CASE AddFd \/ FdAddref \/ FdUnref \/ FdSetEvents
  BY <1>1, <1>3, CalmFdOps
<1>4. CASE AddPrepare \/ PrepareAddref \/ PrepareUnref
  BY <1>1, <1>4, CalmPrepOps
<1>5. CASE AddTimer \/ TimerAddref \/ TimerUnref
  BY <1>1, <1>5, CalmTimerOps
<1>6. CASE ev_mgr_unref
  BY <1>1, <1>6, CalmMgrUnref
<1>7. CASE Tick \/ ev_mgr_addref \/ ev_mgr_wakeup \/ ev_mgr_recover_run \/ UNCHANGED vars
  BY <1>1, <1>7, CalmOthers
<1> QED
  BY <1>2, <1>3, <1>4, <1>5, <1>6, <1>7 DEF Next, Client

(* For every set of objects and every calm client: as long as the client   *)
(* holds a manager, nothing that was freed is used, in whatever order      *)
(* handlers drop, disable and close the objects (ev-mgr.c: deletions are   *)
(* delayed to the cleanups).                                               *)
THEOREM NoFaultCorrect == Calm => (Spec => []NoFault)
<1> SUFFICES ASSUME Calm PROVE Spec => []NoFault
  OBVIOUS
<1>1. Init => CalmInv
  BY CalmInit
<1>2. CalmInv /\ [Next]_vars => CalmInv'
  BY CalmStep
<1> QED
  BY <1>1, <1>2, CalmImplies, PTL DEF Spec

(* For every set of timers and every calm client: an active timer is in    *)
(* the list, where the loop finds it.                                      *)
THEOREM TimersListedCorrect == Calm => (Spec => []TimersAreListed)
<1> SUFFICES ASSUME Calm PROVE Spec => []TimersAreListed
  OBVIOUS
<1>1. Init => CalmInv
  BY CalmInit
<1>2. CalmInv /\ [Next]_vars => CalmInv'
  BY CalmStep
<1> QED
  BY <1>1, <1>2, CalmImplies, PTL DEF Spec
=============================================================================
