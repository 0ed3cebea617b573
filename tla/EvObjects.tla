------------------------------ MODULE EvObjects ------------------------------
(***************************************************************************)
(* The objects of sandbox/ev-mgr.c.                                        *)
(*                                                                         *)
(* The file descriptors, as functions on their state F:                    *)
(*   F.efd[f]   the struct ev_fd f, st telling whether it is allocated     *)
(*   F.epoll[f] the events the kernel watches on its descriptor, or NONE   *)
(*   F.changed, F.cleanup  the flags efds_changed and efds_cleanup         *)
(* Each object has its own descriptor; the order of the list mgr->efds is  *)
(* immaterial, as every walk of it treats each element by itself.          *)
(*                                                                         *)
(* The timers, as functions on their state T:                              *)
(*   T.tm[t]    the struct ev_timer t, st telling whether it is allocated  *)
(*   T.list     the list mgr->timers, head first                           *)
(*   T.cleanup  the flag timers_cleanup                                    *)
(*   T.last     mgr->last_timer                                            *)
(*   T.when     the time the timerfd is armed for, 0 when it is not        *)
(*   T.fired    whether the timerfd has an expiration to be read           *)
(* Times are in ms; a timer is due in the slice next_ms .. next_ms +       *)
(* accuracy_ms.                                                            *)
(***************************************************************************)
EXTENDS Naturals, Sequences, SequencesExt, Lists

CONSTANTS
  Fds,          \* the struct ev_fd that may be allocated, each at most once
  Events,       \* the masks of events, HUP apart
  NONE,         \* not watched
  RefMod,       \* reference counters wrap at RefMod (65536 in the code)
  Timers,       \* the struct ev_timer that may be allocated, each at most once
  TIME_MS_MAX,  \* the end of time
  RefGarbage    \* what the refcount of a new timer may be: it is not initialised

ASSUME RefAssumption     == RefMod \in Nat /\ RefMod > 1
ASSUME EventsAssumption  == Events # {} /\ NONE \notin Events
ASSUME TimeAssumption    == TIME_MS_MAX \in Nat
ASSUME GarbageAssumption == RefGarbage \subseteq 0 .. RefMod - 1

-----------------------------------------------------------------------------
(* The file descriptors.                                                   *)
IncRef(c) == IF c + 1 = RefMod THEN 0 ELSE c + 1
DecRef(c) == IF c = 0 THEN RefMod - 1 ELSE c - 1

EfdType ==
  [st : {"none", "live", "freed"}, refcount : 0 .. RefMod - 1, events : Events,
   is_active : BOOLEAN, is_set : BOOLEAN, has_changed : BOOLEAN, is_deleted : BOOLEAN,
   auto_close : BOOLEAN, auto_unref : BOOLEAN, open : BOOLEAN, mgr : BOOLEAN]

FdsType == [efd : [Fds -> EfdType], epoll : [Fds -> Events \cup {NONE}],
            changed : BOOLEAN, cleanup : BOOLEAN]

NoEfd(e) ==
  [st |-> "none", refcount |-> 0, events |-> e,
   is_active |-> FALSE, is_set |-> FALSE, has_changed |-> FALSE, is_deleted |-> FALSE,
   auto_close |-> FALSE, auto_unref |-> FALSE, open |-> FALSE, mgr |-> FALSE]

NoFds == [efd |-> [f \in Fds |-> NoEfd(CHOOSE e \in Events : TRUE)],
          epoll |-> [f \in Fds |-> NONE], changed |-> FALSE, cleanup |-> FALSE]

LiveFds(F) == {f \in Fds : F.efd[f].st = "live"}

-----------------------------------------------------------------------------
(* epoll_ctl(2) and close(2): what the kernel watches afterwards.  ADD and *)
(* MOD may also fail for want of resources: the argument bad says whether  *)
(* they do.                                                                *)
AddFails(F, f, bad) == bad \/ ~F.efd[f].open \/ F.epoll[f] # NONE
ModFails(F, f, bad) == bad \/ F.epoll[f] = NONE
DelFails(F, f)      == F.epoll[f] = NONE

Watch(F, f, e) == [F EXCEPT !.epoll[f] = e]
Close(F, f)    == [F EXCEPT !.epoll[f] = NONE, !.efd[f].open = FALSE]

-----------------------------------------------------------------------------
ev_mgr_add_fd(F, f, e, aunref, aclose) ==
  [F EXCEPT !.changed = TRUE,
            !.efd[f] = [NoEfd(e) EXCEPT !.st = "live", !.refcount = 1, !.is_active = TRUE,
                          !.open = TRUE, !.mgr = TRUE,
                          !.auto_unref = aunref, !.auto_close = aclose]]

ev_fd_addref(F, f) == [F EXCEPT !.efd[f].refcount = IncRef(@)]

(* The test of is_active and is_set comes before the test of mgr.          *)
UnrefIsFault(F, f) ==
  LET d == F.efd[f]
  IN  DecRef(d.refcount) = 0 /\ d.is_active /\ d.is_set /\ ~d.mgr

(* Variant: the cleanup is not asked for.                                  *)
UnrefNoCleanup(F, f) ==
  IF DecRef(F.efd[f].refcount) # 0
    THEN [F EXCEPT !.efd[f].refcount = DecRef(@)]
    ELSE [Watch(F, f, NONE) EXCEPT !.efd[f].is_set = FALSE, !.efd[f].refcount = 0,
            !.efd[f].is_active = FALSE, !.efd[f].is_deleted = TRUE]

(* Variant: the object is freed at once.                                   *)
UnrefEager(F, f) ==
  IF DecRef(F.efd[f].refcount) # 0
    THEN [F EXCEPT !.efd[f].refcount = DecRef(@)]
    ELSE [Watch(F, f, NONE) EXCEPT !.efd[f].is_set = FALSE, !.efd[f].refcount = 0,
            !.efd[f].is_active = FALSE, !.efd[f].is_deleted = TRUE, !.efd[f].st = "freed"]

ev_fd_unref(F, f) ==
  LET d == F.efd[f]
      G == IF d.is_active /\ d.is_set /\ ~DelFails(F, f)
             THEN [Watch(F, f, NONE) EXCEPT !.efd[f].is_set = FALSE] ELSE F
      H == [G EXCEPT !.efd[f].refcount = 0, !.efd[f].is_active = FALSE,
                     !.efd[f].is_deleted = TRUE]
  IN  IF DecRef(d.refcount) # 0 THEN [F EXCEPT !.efd[f].refcount = DecRef(@)]
      ELSE IF d.mgr THEN [H EXCEPT !.cleanup = TRUE]
      ELSE [IF d.auto_close /\ d.open THEN Close(H, f) ELSE H EXCEPT !.efd[f].st = "freed"]

(* Variant: the new mask is recorded but the kernel is told at the next    *)
(* preparation only, which is not asked for.                               *)
SetEventsUntold(F, f, e, bad) == [F EXCEPT !.efd[f].events = e]

ev_fd_set_events(F, f, e, bad) ==
  LET d == F.efd[f]
      G == [F EXCEPT !.efd[f].events = e]
      Later == [G EXCEPT !.efd[f].has_changed = TRUE, !.changed = TRUE]
  IN  IF d.events = e THEN F
      ELSE IF d.is_active /\ d.is_set
        THEN IF ModFails(F, f, bad) THEN Later ELSE Watch(G, f, e)
      ELSE IF d.is_active
        THEN IF AddFails(F, f, bad) THEN Later
             ELSE [Watch(G, f, e) EXCEPT !.efd[f].is_set = TRUE]
      ELSE IF d.is_set
        THEN IF DelFails(F, f) THEN Later
             ELSE [Watch(G, f, NONE) EXCEPT !.efd[f].is_set = FALSE]
      ELSE G

SetEventsIsFault(F, f, e) ==
  LET d == F.efd[f]
  IN  d.events # e /\ (d.is_active \/ d.is_set) /\ ~d.mgr

(* fd_dispatch, once the handler has returned.                             *)
fd_dispatch_end(F, f, hup) ==
  LET d == F.efd[f]
      G == IF d.open /\ d.is_set /\ (d.auto_close \/ d.auto_unref)
             THEN [F EXCEPT !.efd[f].is_set = FALSE, !.efd[f].is_active = FALSE,
                            !.epoll[f] = IF d.mgr THEN NONE ELSE @]
             ELSE F
      H == IF d.open /\ d.auto_close THEN Close(G, f) ELSE G
  IN  IF ~hup THEN F
      ELSE IF d.auto_unref THEN ev_fd_unref(H, f) ELSE H

(* The walk of the list in efds_prepare; bad: the objects for which ADD or *)
(* MOD fails, which is reported but not remembered.                        *)
efds_prepare(F, bad) ==
  LET New(f)   == F.efd[f].is_active /\ ~F.efd[f].is_set
      Mod(f)   == F.efd[f].is_active /\ F.efd[f].is_set /\ F.efd[f].has_changed
      Old(f)   == ~F.efd[f].is_active /\ F.efd[f].is_set
      Efd(f)   == [F.efd[f] EXCEPT !.is_set = F.efd[f].is_active,
                     !.has_changed = @ /\ ~(New(f) \/ Mod(f) \/ Old(f))]
      Epoll(f) == CASE New(f) /\ ~AddFails(F, f, f \in bad) -> F.efd[f].events
                    [] Mod(f) /\ ~ModFails(F, f, f \in bad) -> F.efd[f].events
                    [] Old(f)                               -> NONE
                    [] OTHER                                -> F.epoll[f]
      L == LiveFds(F)
  IN  IF ~F.changed THEN F
      ELSE [F EXCEPT !.changed = FALSE,
              !.efd   = [f \in Fds |-> IF f \in L THEN Efd(f) ELSE F.efd[f]],
              !.epoll = [f \in Fds |-> IF f \in L THEN Epoll(f) ELSE F.epoll[f]]]

efds_cleanup(F) ==
  LET D == {f \in LiveFds(F) : F.efd[f].is_deleted}
      Shut(f) == F.efd[f].auto_close /\ F.efd[f].open
  IN  IF ~F.cleanup THEN F
      ELSE [F EXCEPT !.cleanup = FALSE,
              !.epoll = [f \in Fds |-> IF f \in D /\ (F.efd[f].is_set \/ Shut(f))
                                         THEN NONE ELSE F.epoll[f]],
              !.efd = [f \in Fds |-> IF f \in D
                         THEN [F.efd[f] EXCEPT !.st = "freed", !.open = @ /\ ~Shut(f)]
                         ELSE F.efd[f]]]

(* ev_mgr_unref, when the last reference is lost: closing epollfd ends     *)
(* every watch.                                                            *)
OrphanFds(F) ==
  [F EXCEPT !.efd = [f \in Fds |-> [F.efd[f] EXCEPT !.mgr = FALSE]],
            !.epoll = [f \in Fds |-> NONE]]
-----------------------------------------------------------------------------
(* The timers.                                                             *)
TimerType ==
  [st : {"none", "live", "freed"}, refcount : 0 .. RefMod - 1, next_ms : 0 .. TIME_MS_MAX,
   accuracy_ms : Nat, period_ms : Nat, decount : Nat,
   is_active : BOOLEAN, is_deleted : BOOLEAN, auto_unref : BOOLEAN, mgr : BOOLEAN]

NoTimer ==
  [st |-> "none", refcount |-> 0, next_ms |-> 0, accuracy_ms |-> 1, period_ms |-> 1,
   decount |-> 0, is_active |-> FALSE, is_deleted |-> FALSE, auto_unref |-> FALSE,
   mgr |-> FALSE]

NoTimers == [tm |-> [t \in Timers |-> NoTimer], list |-> <<>>, cleanup |-> FALSE,
             last |-> 0, when |-> 0, fired |-> FALSE]

DEFAULT_PERIOD_MS == 1000

ActiveTimers(T) == {t \in Timers : T.tm[t].st = "live" /\ T.tm[t].is_active}

Due(T, t, now) == T.tm[t].is_active /\ T.tm[t].next_ms <= now

(* The list and the memory without the timers of D.                        *)
Free(T, D) ==
  [T EXCEPT !.list = Without(T.list, D),
            !.tm = [t \in Timers |-> IF t \in D THEN [T.tm[t] EXCEPT !.st = "freed"]
                                                ELSE T.tm[t]]]

timers_cleanup(T) ==
  IF ~T.cleanup THEN T
  ELSE [Free(T, {t \in ToSet(T.list) : T.tm[t].is_deleted}) EXCEPT !.cleanup = FALSE]

-----------------------------------------------------------------------------
(* timerfd_settime(2) with an absolute time, 0 to disarm, and the clock.   *)
SetTime(T, when, now) ==
  [T EXCEPT !.when  = IF when <= now THEN 0 ELSE when,
            !.fired = when # 0 /\ when <= now]

ClockTick(T, now) ==
  IF T.when # 0 /\ T.when <= now + 1 THEN [T EXCEPT !.when = 0, !.fired = TRUE] ELSE T

(* timer_arm; bad: one of the system calls fails.                          *)
timer_arm(T, when, now, bad) ==
  IF when = T.last \/ bad THEN T
  ELSE [SetTime(T, when, now) EXCEPT !.last = when]

ArmFails(T, when, bad) == when # T.last /\ bad

(* Variant: a slice that is wholly before the current one is not chosen.   *)
NarrowLater(s, tm) ==
  LET lo == tm.next_ms
      up == lo + tm.accuracy_ms
  IN  IF ~tm.is_active \/ lo > s.upper \/ up <= s.lower THEN s
      ELSE [lower |-> IF s.lower < lo THEN lo ELSE s.lower,
            upper |-> IF up < s.upper THEN up ELSE s.upper]

(* The slice of time, below upper, in which the next wakeup must happen.   *)
Narrow(s, tm) ==
  LET lo == tm.next_ms
      up == lo + tm.accuracy_ms
  IN  IF ~tm.is_active \/ lo > s.upper THEN s
      ELSE IF up <= s.lower THEN [lower |-> lo, upper |-> up]
      ELSE [lower |-> IF s.lower < lo THEN lo ELSE s.lower,
            upper |-> IF up < s.upper THEN up ELSE s.upper]

Slice(T, upper) ==
  LET s[k \in 0 .. Len(T.list)] ==
        IF k = 0 THEN [lower |-> 0, upper |-> upper] ELSE Narrow(s[k - 1], T.tm[T.list[k]])
  IN  s[Len(T.list)]

WakeupTime(T, upper) ==
  LET s == Slice(T, upper)
  IN  IF s.lower = 0 THEN 0 ELSE (s.lower + s.upper) \div 2

timer_set(T, upper, now, bad) ==
  LET U == timers_cleanup(T) IN timer_arm(U, WakeupTime(U, upper), now, bad)

TimerSetFails(T, upper, bad) ==
  LET U == timers_cleanup(T) IN ArmFails(U, WakeupTime(U, upper), bad)

-----------------------------------------------------------------------------
(* ev_mgr_add_timer: in start ms from now, count times (0: for ever); of   *)
(* an absolute start, what is left of it when time(0) is subtracted.       *)
ev_mgr_add_timer(T, t, start, count, period, accuracy, aunref, garbage, now, bad) ==
  LET new == [st |-> "live", refcount |-> garbage,
              next_ms |-> (now + start) - (accuracy \div 2),
              accuracy_ms |-> IF accuracy = 0 THEN 1 ELSE accuracy,
              period_ms |-> IF period = 0 THEN DEFAULT_PERIOD_MS ELSE period,
              decount |-> count,
              is_active |-> TRUE, is_deleted |-> FALSE, auto_unref |-> aunref, mgr |-> TRUE]
      U == [T EXCEPT !.tm[t] = new, !.list = <<t>> \o @]
      V == timer_set(U, TIME_MS_MAX, now, bad)
  IN  IF TimerSetFails(U, TIME_MS_MAX, bad)
        THEN [V EXCEPT !.tm[t].is_deleted = TRUE, !.tm[t].is_active = FALSE]
        ELSE V

ev_timer_addref(T, t) == [T EXCEPT !.tm[t].refcount = IncRef(@)]

TimerUnrefIsFault(T, t) == DecRef(T.tm[t].refcount) = 0 /\ ~T.tm[t].mgr

ev_timer_unref(T, t) ==
  IF DecRef(T.tm[t].refcount) # 0 THEN [T EXCEPT !.tm[t].refcount = DecRef(@)]
  ELSE [T EXCEPT !.tm[t].refcount = 0, !.tm[t].is_active = FALSE,
                 !.tm[t].is_deleted = TRUE, !.cleanup = TRUE]

-----------------------------------------------------------------------------
(* timer_dispatch.  The walk w is made of w.prv, the timer whose link      *)
(* leads to the next one to look at (HEAD: mgr->timers), w.cur, the timer  *)
(* whose handler runs (HEAD: none any more), and w.now.                    *)
HEAD == "head"

ASSUME HeadAssumption == HEAD \notin Timers

NoWalk == [prv |-> HEAD, cur |-> HEAD, now |-> 0]

Upto(list, p)  == IF p = HEAD THEN <<>> ELSE SubSeq(list, 1, SelectInSeq(list, LAMBDA t : t = p))
After(list, p) == IF p = HEAD THEN list
                  ELSE SubSeq(list, SelectInSeq(list, LAMBDA t : t = p) + 1, Len(list))

(* From w.prv to the next due timer, freeing the deleted ones met.         *)
ScanStep(T, w) ==
  LET rest == After(T.list, w.prv)
      k    == SelectInSeq(rest, LAMBDA t : Due(T, t, w.now))
      met  == IF k = 0 THEN rest ELSE SubSeq(rest, 1, k - 1)
      dead == {t \in ToSet(met) : T.tm[t].is_deleted}
      kept == Without(met, dead)
  IN  [T |-> Free(T, dead),
       w |-> [w EXCEPT !.prv = IF kept = <<>> THEN @ ELSE Last(kept),
                       !.cur = IF k = 0 THEN HEAD ELSE rest[k]]]

(* next_ms += period_ms while it is in the past.                           *)
Advance(next, period, now) == next + period * (((now - next) \div period) + 1)

(* Variant: a countdown ends one call late.                                *)
CountedLate(tm, now) ==
  LET nx == [tm EXCEPT !.next_ms = Advance(tm.next_ms, tm.period_ms, now)]
  IN  IF tm.decount = 0 THEN nx
      ELSE [nx EXCEPT !.decount = @ - 1, !.is_active = @ /\ tm.decount # 0]

(* The timer after its handler has returned.                               *)
Counted(tm, now) ==
  LET nx == [tm EXCEPT !.next_ms = Advance(tm.next_ms, tm.period_ms, now)]
  IN  CASE tm.decount = 0 -> nx
        [] tm.decount > 1 -> [nx EXCEPT !.decount = @ - 1]
        [] tm.decount = 1 /\ tm.auto_unref ->
             [nx EXCEPT !.decount = 0, !.is_active = FALSE, !.is_deleted = TRUE]
        [] tm.decount = 1 /\ ~tm.auto_unref ->
             [nx EXCEPT !.decount = 0, !.is_active = FALSE, !.next_ms = TIME_MS_MAX]

(* Variant: a deleted timer is taken out of the list through its head.     *)
UnlinkFromHead(T, w) ==
  LET U == [T EXCEPT !.tm[w.cur] = Counted(@, w.now)]
  IN  IF U.tm[w.cur].is_deleted
        THEN [T |-> [U EXCEPT !.list = After(U.list, w.cur), !.tm[w.cur].st = "freed"],
              w |-> w]
        ELSE [T |-> U, w |-> [w EXCEPT !.prv = w.cur]]

(* What follows the handler: deletion goes through the link found before   *)
(* the handler ran, *prvtim = timer->next.                                 *)
AfterHandler(T, w) ==
  LET U == [T EXCEPT !.tm[w.cur] = Counted(@, w.now)]
  IN  IF U.tm[w.cur].is_deleted
        THEN [T |-> [U EXCEPT !.list = Upto(U.list, w.prv) \o After(U.list, w.cur),
                              !.tm[w.cur].st = "freed"],
              w |-> w]
        ELSE [T |-> U, w |-> [w EXCEPT !.prv = w.cur]]

(* The walk touches freed memory.                                          *)
WalkIsFault(T, w) ==
  \/ T.tm[w.cur].st = "freed"
  \/ w.prv # HEAD /\ T.tm[w.prv].st = "freed" /\ Counted(T.tm[w.cur], w.now).is_deleted

OrphanTimers(T) ==
  [T EXCEPT !.tm = [t \in Timers |-> [T.tm[t] EXCEPT !.mgr = FALSE]],
            !.when = 0, !.fired = FALSE]
=============================================================================
