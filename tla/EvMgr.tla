-------------------------------- MODULE EvMgr --------------------------------
(***************************************************************************)
(* sandbox/ev-mgr.c: the event manager.  One thread runs the loop,         *)
(* ev_mgr_prepare, ev_mgr_wait and ev_mgr_dispatch (ev_mgr_run calls the   *)
(* three); the client's operations come between these calls, inside the    *)
(* handlers they call, or from another thread while the loop waits.        *)
(*                                                                         *)
(* The constant Allowed says which operations the client uses in which     *)
(* situation.  A client operates on an object only as long as it holds a   *)
(* reference on it.                                                        *)
(***************************************************************************)
EXTENDS EvObjects

CONSTANTS
  Preps,        \* the struct ev_prepare that may be allocated, each at most once
  Allowed,      \* the operations of the client in each situation
  CtlMayFail,   \* whether EPOLL_CTL_ADD and EPOLL_CTL_MOD may fail
  ArmMayFail,   \* whether the system calls of timer_arm may fail
  TimerArgs,    \* the [start, count, period, accuracy, aunref] of new timers
  FdArgs,       \* the [aunref, aclose] of new fds
  Wakeups,      \* the delays given to ev_mgr_prepare_with_wakeup
  MaxRef,       \* bound: references a client takes on one object
  MaxWake,      \* bound: pending wakeups
  MaxNow        \* bound: the clock

Objects == Fds \cup Timers \cup Preps

OpNames == {"add_fd", "fd_addref", "fd_unref", "fd_set_events",
            "add_prepare", "prepare_addref", "prepare_unref",
            "add_timer", "timer_addref", "timer_unref",
            "mgr_addref", "mgr_unref", "wakeup", "recover"}

(* Where the client may act: between calls, with an event pending or not,  *)
(* while the loop waits, in the handler of a preparer, an fd or a timer.   *)
Situations == {"out", "pending", "wait", "prep", "fdcb", "timcb"}

ASSUME AllowedAssumption == Allowed \in [Situations -> SUBSET OpNames]
ASSUME MayFailAssumption == CtlMayFail \in BOOLEAN /\ ArmMayFail \in BOOLEAN

ASSUME ObjectsAssumption ==
  /\ Fds \cap Timers = {} /\ Fds \cap Preps = {} /\ Timers \cap Preps = {}
  /\ NONE \notin Fds \cup Preps

ASSUME BoundsAssumption ==
  /\ MaxRef \in 1 .. RefMod - 1 /\ MaxWake \in Nat
  /\ MaxNow \in Nat \ {0} /\ Wakeups \subseteq Nat

ASSUME FdArgsAssumption == FdArgs \subseteq [aunref : BOOLEAN, aclose : BOOLEAN]

(* No time computed from the arguments of a timer is negative or past the  *)
(* end of time.                                                            *)
ASSUME TimerArgsAssumption ==
  \A a \in TimerArgs :
    /\ a \in [start : Nat, count : Nat, period : Nat, accuracy : Nat, aunref : BOOLEAN]
    /\ a.accuracy \div 2 <= 1 + a.start /\ MaxNow + a.start <= TIME_MS_MAX
    /\ MaxNow + (IF a.period = 0 THEN DEFAULT_PERIOD_MS ELSE a.period) <= TIME_MS_MAX

VARIABLES
  F,        \* the file descriptors, see EvObjects
  T,        \* the timers, see EvObjects
  P,        \* the preparers: P.pr[p], P.list head first, P.cleanup
  state,    \* mgr->state
  refcount, \* mgr->refcount; the manager is freed at 0
  event,    \* mgr->event: data.ptr and whether HUP is among the events
  wake,     \* the value of the eventfd, a semaphore
  now,      \* the clock
  pc,       \* where the loop is: one of Situations, "pending" apart
  cur,      \* the preparer whose handler runs
  upper,    \* the argument of the timer_set of the running do_prepare
  walk,     \* the walk of timer_dispatch, see EvObjects
  refs,     \* the references the client holds
  fault     \* freed memory or a null manager was accessed: all is lost

vars == <<F, T, P, state, refcount, event, wake, now, pc, cur, upper, walk, refs, fault>>

NoEvent == [ptr |-> NONE, hup |-> FALSE]
TIMER   == "timer"

ASSUME TimerAssumption == TIMER \notin Fds \cup {NONE}

Init ==
  /\ F = NoFds /\ T = NoTimers
  /\ P = [pr |-> [p \in Preps |-> [st |-> "none", refcount |-> 0, mgr |-> FALSE]],
          list |-> <<>>, cleanup |-> FALSE]
  /\ state = "Idle" /\ refcount = 1 /\ event = NoEvent /\ wake = 0 /\ now = 1
  /\ pc = "out" /\ cur = NONE /\ upper = TIME_MS_MAX /\ walk = NoWalk
  /\ refs = [o \in Objects |-> 0]
  /\ fault = FALSE

Running == ~fault /\ refcount # 0

-----------------------------------------------------------------------------
(* The preparers.                                                          *)
preparers_cleanup(Q) ==
  LET D == {p \in ToSet(Q.list) : Q.pr[p].refcount = 0}
  IN  IF ~Q.cleanup THEN Q
      ELSE [Q EXCEPT !.cleanup = FALSE,
              !.list = Without(Q.list, D),
              !.pr = [p \in Preps |-> IF p \in D THEN [Q.pr[p] EXCEPT !.st = "freed"]
                                                 ELSE Q.pr[p]]]

(* The first preparer with a reference after p (NONE: from the head).      *)
NextPreparer(Q, p) ==
  LET rest == IF p = NONE THEN Q.list
              ELSE SubSeq(Q.list, SelectInSeq(Q.list, LAMBDA q : q = p) + 1, Len(Q.list))
      k    == SelectInSeq(rest, LAMBDA q : Q.pr[q].refcount # 0)
  IN  IF k = 0 THEN NONE ELSE rest[k]

(* The end of do_prepare.                                                  *)
EndPrepare(G, U, up) ==
  /\ \E bad \in IF ArmMayFail THEN BOOLEAN ELSE {FALSE} : T' = timer_set(U, up, now, bad)
  /\ \E bad \in IF CtlMayFail THEN SUBSET LiveFds(G) ELSE {{}} : F' = efds_prepare(G, bad)
  /\ state' = "Ready" /\ pc' = "out" /\ cur' = NONE

(* do_prepare, up to its first handler if there is one.                    *)
do_prepare(up) ==
  /\ Running /\ pc = "out" /\ state \in {"Idle", "Ready"}
  /\ LET G == efds_cleanup(F)
         U == timers_cleanup(T)
         Q == preparers_cleanup(P)
         p == NextPreparer(Q, NONE)
     IN  /\ P' = Q /\ upper' = up
         /\ \/ /\ p = NONE /\ EndPrepare(G, U, up)
            \/ /\ p # NONE /\ F' = G /\ T' = U
               /\ state' = "Preparing" /\ pc' = "prep" /\ cur' = p
  /\ UNCHANGED <<refcount, event, wake, now, walk, refs, fault>>

ev_mgr_prepare == do_prepare(TIME_MS_MAX)

ev_mgr_prepare_with_wakeup == \E ms \in Wakeups : do_prepare(now + ms)

(* The handler of a preparer returns.                                      *)
PreparerReturns ==
  /\ Running /\ pc = "prep"
  /\ \/ /\ P.pr[cur].st = "freed"
        /\ fault' = TRUE /\ UNCHANGED <<F, T, state, pc, cur>>
     \/ /\ P.pr[cur].st = "live"
        /\ LET p == NextPreparer(P, cur)
           IN  \/ p = NONE /\ EndPrepare(F, T, upper)
               \/ p # NONE /\ cur' = p /\ UNCHANGED <<F, T, state, pc>>
        /\ UNCHANGED fault
  /\ UNCHANGED <<P, refcount, event, wake, now, upper, walk, refs>>

-----------------------------------------------------------------------------
ev_mgr_wait ==
  /\ Running /\ pc = "out" /\ state = "Ready"
  /\ state' = "Waiting" /\ pc' = "wait"
  /\ UNCHANGED <<F, T, P, refcount, event, wake, now, cur, upper, walk, refs, fault>>

Return(s, e) == state' = s /\ event' = e /\ pc' = "out"

(* epoll_wait returns on a timeout, an interruption or an error.           *)
WaitFails ==
  /\ Running /\ pc = "wait"
  /\ Return("Idle", [event EXCEPT !.hup = FALSE])
  /\ UNCHANGED <<F, T, P, refcount, wake, now, cur, upper, walk, refs, fault>>

(* It returns the eventfd, of which do_wait takes one.                     *)
WaitWoken ==
  /\ Running /\ pc = "wait" /\ wake > 0
  /\ wake' = wake - 1
  /\ Return("Idle", NoEvent)
  /\ UNCHANGED <<F, T, P, refcount, now, cur, upper, walk, refs, fault>>

(* It returns an event of a watched descriptor, or of the timerfd.         *)
WaitEvent ==
  /\ Running /\ pc = "wait"
  /\ \/ T.fired /\ Return("Pending", [ptr |-> TIMER, hup |-> FALSE])
     \/ \E f \in Fds, hup \in BOOLEAN :
          /\ F.epoll[f] # NONE
          /\ Return("Pending", [ptr |-> f, hup |-> hup])
  /\ UNCHANGED <<F, T, P, refcount, wake, now, cur, upper, walk, refs, fault>>

-----------------------------------------------------------------------------
(* do_dispatch of an fd, up to the call of its handler.                    *)
DispatchFd ==
  /\ Running /\ pc = "out" /\ state = "Pending" /\ event.ptr \in Fds
  /\ \/ F.efd[event.ptr].st = "freed" /\ fault' = TRUE /\ UNCHANGED <<state, pc>>
     \/ /\ F.efd[event.ptr].st = "live"
        /\ state' = "Dispatching" /\ pc' = "fdcb" /\ UNCHANGED fault
  /\ UNCHANGED <<F, T, P, refcount, event, wake, now, cur, upper, walk, refs>>

(* The handler of an fd returns.  A reference that is automatically        *)
(* dropped is one of the client's.                                         *)
FdReturns ==
  /\ Running /\ pc = "fdcb"
  /\ LET f == event.ptr
     IN  \/ F.efd[f].st = "freed" /\ fault' = TRUE /\ UNCHANGED <<F, state, pc, refs>>
         \/ /\ F.efd[f].st = "live"
            /\ F' = fd_dispatch_end(F, f, event.hup)
            /\ refs' = [refs EXCEPT ![f] =
                          IF event.hup /\ F.efd[f].auto_unref /\ @ > 0 THEN @ - 1 ELSE @]
            /\ state' = "Idle" /\ pc' = "out" /\ UNCHANGED fault
  /\ UNCHANGED <<T, P, refcount, event, wake, now, cur, upper, walk>>

(* From the walk w on: to the next handler or to the end of the dispatch.  *)
Continue(U, w) ==
  LET s == ScanStep(U, w)
  IN  /\ T' = s.T
      /\ \/ /\ s.w.cur = HEAD
            /\ walk' = NoWalk /\ state' = "Idle" /\ pc' = "out"
         \/ /\ s.w.cur # HEAD
            /\ walk' = s.w /\ state' = "Dispatching" /\ pc' = "timcb"

(* do_dispatch of the timerfd.                                             *)
timer_event ==
  /\ Running /\ pc = "out" /\ state = "Pending" /\ event.ptr = TIMER
  /\ \/ /\ ~T.fired                  \* EAGAIN
        /\ state' = "Idle" /\ UNCHANGED <<T, walk, pc>>
     \/ /\ T.fired
        /\ Continue([T EXCEPT !.fired = FALSE], [NoWalk EXCEPT !.now = now])
  /\ UNCHANGED <<F, P, refcount, event, wake, now, cur, upper, refs, fault>>

(* The handler of a timer returns.                                         *)
TimerReturns ==
  /\ Running /\ pc = "timcb"
  /\ \/ /\ WalkIsFault(T, walk)
        /\ fault' = TRUE /\ UNCHANGED <<T, state, pc, walk, refs>>
     \/ /\ ~WalkIsFault(T, walk)
        /\ LET a == AfterHandler(T, walk) IN Continue(a.T, a.w)
        /\ refs' = [refs EXCEPT ![walk.cur] =
             IF T.tm[walk.cur].decount = 1 /\ T.tm[walk.cur].auto_unref /\ @ > 0
               THEN @ - 1 ELSE @]
        /\ UNCHANGED fault
  /\ UNCHANGED <<F, P, refcount, event, wake, now, cur, upper>>

Tick ==
  /\ Running /\ now < MaxNow
  /\ now' = now + 1
  /\ T' = ClockTick(T, now)
  /\ UNCHANGED <<F, P, state, refcount, event, wake, pc, cur, upper, walk, refs, fault>>

-----------------------------------------------------------------------------
(* The operations of the client.                                           *)
Situation == IF pc = "out" /\ state = "Pending" THEN "pending" ELSE pc

May(op) == ~fault /\ op \in Allowed[Situation]

Take(o) == /\ refs[o] < MaxRef /\ refs' = [refs EXCEPT ![o] = @ + 1]
Drop(o) == /\ refs[o] > 0 /\ refs' = [refs EXCEPT ![o] = @ - 1]

LoopSame == UNCHANGED <<state, event, wake, now, pc, cur, upper, walk>>

AddFd ==
  /\ May("add_fd") /\ refcount # 0
  /\ \E f \in Fds, e \in Events, a \in FdArgs :
       /\ F.efd[f].st = "none"
       /\ F' = ev_mgr_add_fd(F, f, e, a.aunref, a.aclose)
       /\ refs' = [refs EXCEPT ![f] = 1]
  /\ LoopSame /\ UNCHANGED <<T, P, refcount, fault>>

FdAddref ==
  /\ May("fd_addref")
  /\ \E f \in Fds : refs[f] > 0 /\ Take(f) /\ F' = ev_fd_addref(F, f)
  /\ LoopSame /\ UNCHANGED <<T, P, refcount, fault>>

FdUnref ==
  /\ May("fd_unref")
  /\ \E f \in Fds :
       /\ Drop(f)
       /\ IF UnrefIsFault(F, f) THEN fault' = TRUE /\ UNCHANGED F
                                ELSE F' = ev_fd_unref(F, f) /\ UNCHANGED fault
  /\ LoopSame /\ UNCHANGED <<T, P, refcount>>

FdSetEvents ==
  /\ May("fd_set_events")
  /\ \E f \in Fds, e \in Events, bad \in IF CtlMayFail THEN BOOLEAN ELSE {FALSE} :
       /\ refs[f] > 0
       /\ IF SetEventsIsFault(F, f, e)
            THEN fault' = TRUE /\ UNCHANGED F
            ELSE F' = ev_fd_set_events(F, f, e, bad) /\ UNCHANGED fault
  /\ LoopSame /\ UNCHANGED <<T, P, refcount, refs>>

AddPrepare ==
  /\ May("add_prepare") /\ refcount # 0
  /\ \E p \in Preps :
       /\ P.pr[p].st = "none"
       /\ P' = [P EXCEPT !.pr[p] = [st |-> "live", refcount |-> 1, mgr |-> TRUE],
                         !.list = <<p>> \o @]
       /\ refs' = [refs EXCEPT ![p] = 1]
  /\ LoopSame /\ UNCHANGED <<F, T, refcount, fault>>

PrepareAddref ==
  /\ May("prepare_addref")
  /\ \E p \in Preps : refs[p] > 0 /\ Take(p) /\ P' = [P EXCEPT !.pr[p].refcount = IncRef(@)]
  /\ LoopSame /\ UNCHANGED <<F, T, refcount, fault>>

ev_prepare_unref(p) ==
  LET c == DecRef(P.pr[p].refcount)
      Q == [P EXCEPT !.pr[p].refcount = c]
  IN  IF c # 0 THEN Q
      ELSE IF P.pr[p].mgr THEN [Q EXCEPT !.cleanup = TRUE]
      ELSE [Q EXCEPT !.pr[p].st = "freed"]

PrepareUnref ==
  /\ May("prepare_unref")
  /\ \E p \in Preps : Drop(p) /\ P' = ev_prepare_unref(p)
  /\ LoopSame /\ UNCHANGED <<F, T, refcount, fault>>

AddTimer ==
  /\ May("add_timer") /\ refcount # 0
  /\ \E t \in Timers, a \in TimerArgs, g \in RefGarbage,
        bad \in IF ArmMayFail THEN BOOLEAN ELSE {FALSE} :
       /\ T.tm[t].st = "none"
       /\ T' = ev_mgr_add_timer(T, t, a.start, a.count, a.period, a.accuracy, a.aunref,
                                g, now, bad)
       /\ refs' = [refs EXCEPT ![t] = 1]
  /\ LoopSame /\ UNCHANGED <<F, P, refcount, fault>>

TimerAddref ==
  /\ May("timer_addref")
  /\ \E t \in Timers : refs[t] > 0 /\ Take(t) /\ T' = ev_timer_addref(T, t)
  /\ LoopSame /\ UNCHANGED <<F, P, refcount, fault>>

TimerUnref ==
  /\ May("timer_unref")
  /\ \E t \in Timers :
       /\ Drop(t)
       /\ IF TimerUnrefIsFault(T, t) THEN fault' = TRUE /\ UNCHANGED T
                                     ELSE T' = ev_timer_unref(T, t) /\ UNCHANGED fault
  /\ LoopSame /\ UNCHANGED <<F, P, refcount>>

ev_mgr_addref ==
  /\ May("mgr_addref") /\ refcount \in 1 .. MaxRef - 1
  /\ refcount' = refcount + 1
  /\ LoopSame /\ UNCHANGED <<F, T, P, refs, fault>>

(* ev_mgr_unref: the cleanup is done whatever the loop is doing.  At 0 the *)
(* manager is freed; its objects stay and know they have none, but a loop  *)
(* that is running does not.                                               *)
ev_mgr_unref ==
  /\ May("mgr_unref") /\ refcount # 0
  /\ refcount' = refcount - 1
  /\ fault' = (refcount = 1 /\ pc # "out")
  /\ LET G == efds_cleanup(F)
         U == timers_cleanup(T)
         Q == preparers_cleanup(P)
     IN  IF refcount # 1 THEN F' = G /\ T' = U /\ P' = Q
         ELSE /\ F' = OrphanFds(G) /\ T' = OrphanTimers(U)
              /\ P' = [Q EXCEPT !.pr = [p \in Preps |-> [Q.pr[p] EXCEPT !.mgr = FALSE]]]
  /\ LoopSame /\ UNCHANGED refs

ev_mgr_wakeup ==
  /\ May("wakeup") /\ Running /\ wake < MaxWake
  /\ wake' = wake + 1
  /\ UNCHANGED <<F, T, P, state, refcount, event, now, pc, cur, upper, walk, refs, fault>>

ev_mgr_recover_run ==
  /\ May("recover") /\ Running
  /\ state' = "Idle"
  /\ UNCHANGED <<F, T, P, refcount, event, wake, now, pc, cur, upper, walk, refs, fault>>

-----------------------------------------------------------------------------
Loop ==
  \/ ev_mgr_prepare \/ ev_mgr_prepare_with_wakeup \/ PreparerReturns
  \/ ev_mgr_wait \/ WaitFails \/ WaitWoken \/ WaitEvent
  \/ DispatchFd \/ FdReturns \/ timer_event \/ TimerReturns

Client ==
  \/ AddFd \/ FdAddref \/ FdUnref \/ FdSetEvents
  \/ AddPrepare \/ PrepareAddref \/ PrepareUnref
  \/ AddTimer \/ TimerAddref \/ TimerUnref
  \/ ev_mgr_addref \/ ev_mgr_unref \/ ev_mgr_wakeup \/ ev_mgr_recover_run

Next == Loop \/ Client \/ Tick

Spec == Init /\ [][Next]_vars

(* The client calls the loop again and again, with timeouts, and handlers  *)
(* return.                                                                 *)
Fairness ==
  /\ WF_vars(ev_mgr_prepare) /\ WF_vars(PreparerReturns)
  /\ WF_vars(ev_mgr_wait) /\ WF_vars(WaitFails)
  /\ WF_vars(DispatchFd) /\ WF_vars(FdReturns)
  /\ WF_vars(timer_event) /\ WF_vars(TimerReturns)

FairSpec == Spec /\ Fairness

-----------------------------------------------------------------------------
(* The values the variables may take.                                      *)
TypeOK ==
  /\ F \in FdsType
  /\ T \in [tm : [Timers -> TimerType], list : Seq(Timers), cleanup : BOOLEAN,
            last : Nat, when : Nat, fired : BOOLEAN]
  /\ P \in [pr : [Preps -> [st : {"none", "live", "freed"}, refcount : 0 .. RefMod - 1,
                            mgr : BOOLEAN]],
            list : Seq(Preps), cleanup : BOOLEAN]
  /\ state \in {"Idle", "Preparing", "Ready", "Waiting", "Pending", "Dispatching"}
  /\ event \in [ptr : Fds \cup {TIMER, NONE}, hup : BOOLEAN]
  /\ pc \in Situations \ {"pending"} /\ cur \in Preps \cup {NONE}
  /\ walk \in [prv : Timers \cup {HEAD}, cur : Timers \cup {HEAD}, now : 0 .. MaxNow]
  /\ upper \in Nat
  /\ refcount \in 0 .. MaxRef /\ wake \in 0 .. MaxWake /\ now \in 1 .. MaxNow
  /\ refs \in [Objects -> 0 .. MaxRef] /\ fault \in BOOLEAN

(* As long as the manager lives, the loop uses no freed object.            *)
NoFault == refcount # 0 => ~fault

St(o) == IF o \in Fds THEN F.efd[o].st ELSE IF o \in Timers THEN T.tm[o].st ELSE P.pr[o].st

(* No object is freed that its client still holds a reference on, and one  *)
(* that nobody holds any more is freed, or going to be; the counters stay in *)
(* their 16 bits (TypeOK).                                                 *)
FdAndPrepareRefs ==
  /\ TypeOK
  /\ \A o \in Fds \cup Preps : refs[o] > 0 => St(o) = "live"
  /\ ~fault => \A f \in LiveFds(F) :
       IF refs[f] > 0 THEN F.efd[f].refcount = refs[f] /\ ~F.efd[f].is_deleted
       ELSE F.efd[f].is_deleted /\ (F.efd[f].mgr => F.cleanup)
  /\ \A p \in Preps : P.pr[p].st = "live" =>
       /\ P.pr[p].refcount = refs[p]
       /\ refs[p] = 0 /\ P.pr[p].mgr => P.cleanup

(* A client that holds a timer can use it: the reference counter of the    *)
(* timer is that of its references.                                        *)
TimerRefs == \A t \in Timers : refs[t] > 0 => St(t) = "live"

(* The kernel never hands out an object that was deleted before the loop   *)
(* went waiting: a deleted object is not watched.                          *)
DeletedNotWatched ==
  \A f \in Fds : F.epoll[f] # NONE => St(f) = "live" /\ ~F.efd[f].is_deleted

(* is_set tells whether the descriptor is set in epoll.                    *)
IsSetInEpoll ==
  \A f \in LiveFds(F) : F.efd[f].mgr => (F.efd[f].is_set <=> F.epoll[f] # NONE)

(* Once prepared, unless the list changes again, the kernel watches each   *)
(* active descriptor for the events asked for, and no other.               *)
WatchesWhatIsAsked ==
  state \in {"Ready", "Waiting"} /\ ~F.changed /\ refcount # 0 =>
    \A f \in LiveFds(F) :
      F.epoll[f] = IF F.efd[f].is_active THEN F.efd[f].events ELSE NONE

(* The kernel and the objects agree whatever was asked in between: a       *)
(* descriptor is registered exactly when is_set says so, never once it is  *)
(* deleted, and for the events of the last ev_fd_set_events when prepared. *)
EpollAgrees == DeletedNotWatched /\ IsSetInEpoll /\ WatchesWhatIsAsked

(* Before the loop waits, the timerfd is armed for a time that suits every *)
(* active timer: none is late.                                             *)
TimersAreArmed ==
  state \in {"Ready", "Waiting"} /\ upper = TIME_MS_MAX =>
    \A t \in ActiveTimers(T) :
      \/ T.fired
      \/ T.when # 0 /\ T.when <= T.tm[t].next_ms + T.tm[t].accuracy_ms

(* A timer is either deleted or in the list.                               *)
TimersAreListed ==
  refcount # 0 => \A t \in ActiveTimers(T) : \E k \in DOMAIN T.list : T.list[k] = t

(* A counted timer is called with a decount of 1 last: the countdown never *)
(* ends in the decount 0 of a timer that goes on for ever.                 *)
CountdownEnds ==
  [][\A t \in Timers :
       T.tm[t].decount > 0 /\ T'.tm[t].decount = 0 => ~T'.tm[t].is_active]_vars

(* A deleted descriptor object is eventually freed, and a preparer too,    *)
(* whatever handlers and other threads do meanwhile.                       *)
DeletedIsFreed ==
  \A o \in Fds \cup Preps :
    (St(o) = "live" /\ refs[o] = 0) ~> (St(o) = "freed" \/ refcount = 0 \/ fault)
=============================================================================
