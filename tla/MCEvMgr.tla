------------------------------ MODULE MCEvMgr ------------------------------
(* Bounded instances of EvMgr for TLC.                                     *)
EXTENDS EvMgr

FdOps   == {"add_fd", "fd_addref", "fd_unref", "fd_set_events"}
PrepOps == {"add_prepare", "prepare_addref", "prepare_unref"}
MgrOps  == {"mgr_addref", "mgr_unref"}

(* Descriptors: everything everywhere, but the manager is dropped only     *)
(* between two rounds of the loop.                                         *)
FdClient ==
  [s \in Situations |->
     CASE s = "out"     -> FdOps \cup MgrOps \cup {"recover"}
       [] s = "pending" -> FdOps \cup {"recover", "mgr_addref"}
       [] s = "wait"    -> FdOps \cup {"wakeup"}
       [] OTHER         -> FdOps \cup {"mgr_addref"}]

FdArgsAll == [aunref : BOOLEAN, aclose : BOOLEAN]

(* Preparers: the same.                                                    *)
PrepClient ==
  [s \in Situations |->
     CASE s = "out"  -> PrepOps \cup MgrOps
       [] s = "prep" -> PrepOps \cup {"mgr_addref"}
       [] s = "wait" -> PrepOps \cup {"wakeup"}
       [] OTHER      -> PrepOps]

(* Both.                                                                   *)
AnyClient == [s \in Situations |-> FdClient[s] \cup PrepClient[s]]

(* Timers: they are added outside of the handlers of timers, with a start  *)
(* in the future.                                                          *)
TimerClient ==
  [s \in Situations |->
     CASE s \in {"out", "wait"} -> {"add_timer", "timer_addref", "timer_unref"}
       [] s = "pending"         -> {"add_timer", "timer_unref", "recover"}
       [] OTHER                 -> {"timer_unref", "timer_addref"}]

TimerArgsLater ==
  {[start |-> 1, count |-> 2, period |-> 2, accuracy |-> 0, aunref |-> FALSE],
   [start |-> 2, count |-> 1, period |-> 2, accuracy |-> 3, aunref |-> TRUE],
   [start |-> 2, count |-> 0, period |-> 3, accuracy |-> 2, aunref |-> FALSE]}

(* Timers added by the handlers of timers, with an immediate start.        *)
TimerChain ==
  [s \in Situations |-> IF s \in {"out", "timcb"} THEN {"add_timer"} ELSE {}]

OneShots ==
  {[start |-> 1, count |-> 1, period |-> 2, accuracy |-> 0, aunref |-> TRUE]}

Immediate ==
  {[start |-> 0, count |-> 1, period |-> 2, accuracy |-> 0, aunref |-> FALSE],
   [start |-> 1, count |-> 1, period |-> 2, accuracy |-> 0, aunref |-> FALSE]}
=============================================================================
