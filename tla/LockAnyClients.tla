--------------------------- MODULE LockAnyClients ---------------------------
(***************************************************************************)
(* LockAny driven by threads that issue finitely many requests and release *)
(* what they hold.  lockany gives precedence to readers and its mutex is   *)
(* not fair, so an endless flow of requests may starve a waiter; with a    *)
(* finite flow nobody may be left waiting.                                 *)
(***************************************************************************)
EXTENDS LockAny

CONSTANT MaxCalls  \* bound on the requests of one thread

ASSUME MaxCallsAssumption == MaxCalls \in Nat

VARIABLE calls     \* requests issued so far by each thread

ClientsInit == Init /\ calls = [t \in Threads |-> 0]

ClientRequest(t) ==
  /\ calls[t] < MaxCalls
  /\ Request(t)
  /\ calls' = [calls EXCEPT ![t] = @ + 1]

ClientUnlock(t) ==
  /\ \E i \in Items : lockany_unlock(t, i)
  /\ UNCHANGED calls

ClientResume(t) == Resume(t) /\ UNCHANGED calls

ClientSpurious(t) == SpuriousWakeup(t) /\ UNCHANGED calls

(* All requests were issued and every lock was given back.                 *)
Done ==
  /\ \A t \in Threads : calls[t] = MaxCalls /\ pc[t] = "out"
  /\ \A t \in Threads, i \in Items : held[t][i] = "none"
  /\ UNCHANGED <<vars, calls>>

ClientsNext ==
  \/ \E t \in Threads : \/ ClientRequest(t)
                        \/ ClientUnlock(t)
                        \/ ClientResume(t)
                        \/ ClientSpurious(t)
  \/ Done

(* A signalled thread that can get the mutex eventually does, and a holder *)
(* eventually unlocks.  Nothing forces a spurious wakeup or a new request. *)
Fairness ==
  \A t \in Threads : /\ WF_<<vars, calls>>(ClientResume(t))
                     /\ WF_<<vars, calls>>(ClientUnlock(t))

ClientsSpec == ClientsInit /\ [][ClientsNext]_<<vars, calls>> /\ Fairness

(* Every thread blocked in lockany_lock_read or lockany_lock_write is      *)
(* eventually granted its lock.                                            *)
WaiterIsServed ==
  \A t \in Threads, i \in Items, m \in {"r", "w"} :
    (pc[t] # "out" /\ req[t].item = i /\ req[t].mode = m) ~> (held[t][i] = m)
=============================================================================
