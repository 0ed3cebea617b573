------------------------------- MODULE RWLock -------------------------------
(***************************************************************************)
(* What a caller of lockany may rely on: for each item, either one writer  *)
(* or any number of readers.  Only the locks that were granted are         *)
(* visible; waiting is not.                                                *)
(***************************************************************************)
CONSTANTS
  Threads,    \* the calling threads
  Items       \* the addresses being locked

VARIABLE held \* held[t][i]: the lock thread t was granted on item i

Mode == {"none", "r", "w"}

Init == held = [t \in Threads |-> [i \in Items |-> "none"]]

Grant(t, i, m) == held' = [held EXCEPT ![t][i] = m]

AcquireRead(t, i) ==
  /\ \A u \in Threads : held[u][i] # "w"
  /\ held[t][i] = "none"
  /\ Grant(t, i, "r")

AcquireWrite(t, i) ==
  /\ \A u \in Threads : held[u][i] = "none"
  /\ Grant(t, i, "w")

Release(t, i) ==
  /\ held[t][i] # "none"
  /\ Grant(t, i, "none")

Next == \E t \in Threads, i \in Items :
           AcquireRead(t, i) \/ AcquireWrite(t, i) \/ Release(t, i)

Spec == Init /\ [][Next]_held
=============================================================================
