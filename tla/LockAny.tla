------------------------------ MODULE LockAny ------------------------------
(***************************************************************************)
(* sandbox/lockany.c: read/write locks on arbitrary addresses.  A global   *)
(* list of lockers, guarded by one mutex, is searched for the locker of    *)
(* the item; lockers that serve nobody are recycled for other items.       *)
(*                                                                         *)
(* Every function runs under the mutex from locker_get to locker_release   *)
(* or to the wait on the locker's condition, so each of these stretches is *)
(* one action.  The client protocol is the one lockany_unlock needs (it is *)
(* not told who calls nor in which mode): a thread does not lock again an  *)
(* item it holds and unlocks only what it holds.                           *)
(***************************************************************************)
EXTENDS Naturals, FiniteSets, Sequences

CONSTANTS
  Threads,      \* the calling threads
  Items,        \* the addresses being locked
  NULL,         \* the item of a locker that serves nobody
  CntMod,       \* the counters are bit fields of 15 bits: they wrap at CntMod
  Ops,          \* the entry points the clients use, lockany_unlock apart
  TryAlone,     \* whether they use lockany_try_lock_write only where they are alone
  AllocMayFail  \* whether malloc may return NULL in locker_get

AllOps == {"lock_read", "try_lock_read", "lock_write", "try_lock_write"}

ASSUME ThreadsAssumption == IsFiniteSet(Threads)
ASSUME NullAssumption    == NULL \notin Items
ASSUME CntAssumption     == CntMod \in Nat /\ Cardinality(Threads) < CntMod
ASSUME OpsAssumption     == Ops \subseteq AllOps /\ TryAlone \in BOOLEAN /\ AllocMayFail \in BOOLEAN

VARIABLES
  lockers,   \* the list, oldest first: new lockers are put at the C list's head
  leaked,    \* TRUE once locker_get returned NULL: mutlock is then never unlocked
  pc,        \* out: not in a blocking call; sleep: in x_cond_wait;
             \* woken: signalled, has yet to take mutlock again
  req,       \* the pending request of a thread that is not out
  held       \* the locks granted to the clients, as they see it

vars == <<lockers, leaked, pc, req, held>>

NoReq == [mode |-> "none", item |-> NULL, slot |-> 0]

Init ==
  /\ lockers = <<>>
  /\ leaked = FALSE
  /\ pc = [t \in Threads |-> "out"]
  /\ req = [t \in Threads |-> NoReq]
  /\ held = [t \in Threads |-> [i \in Items |-> "none"]]

-----------------------------------------------------------------------------
(* The bit fields of a locker.                                             *)
Inc(c) == IF c + 1 = CntMod THEN 0 ELSE c + 1
Dec(c) == IF c = 0 THEN CntMod - 1 ELSE c - 1

NewLocker(i) ==
  [item |-> i, lockw |-> FALSE, lockr |-> FALSE, cntw |-> 0, cntr |-> 0]

LockersOf(i) == {k \in DOMAIN lockers : lockers[k].item = i}

(* The first of a set of lockers in the order of the C list.               *)
First(K) == CHOOSE k \in K : \A j \in K : j <= k

(* locker_get: the locker of the item, else an unused one, else a new one. *)
locker_get(i) ==
  CASE LockersOf(i) # {}                           -> First(LockersOf(i))
    [] LockersOf(i) = {} /\ LockersOf(NULL) # {}   -> First(LockersOf(NULL))
    [] LockersOf(i) = {} /\ LockersOf(NULL) = {}   -> Len(lockers) + 1

MustAlloc(i) == locker_get(i) = Len(lockers) + 1

(* The list once locker_get has claimed or created the locker of the item. *)
Claimed(i) ==
  IF MustAlloc(i) THEN Append(lockers, NewLocker(i))
                  ELSE [lockers EXCEPT ![locker_get(i)].item = i]

(* Variant: a locker counts as used by its flags, not by its counters.     *)
UsedByFlags(l) == l.lockw \/ l.lockr

locker_used(l) == l.cntw # 0 \/ l.cntr # 0

(* Variant: lockers are never recycled.                                    *)
NeverReleased(l) == l

locker_release(l) == IF locker_used(l) THEN l ELSE [l EXCEPT !.item = NULL]

(* Variant: x_cond_signal in place of x_cond_broadcast.                    *)
SignalOne(k) ==
  LET S == {t \in Threads : pc[t] = "sleep" /\ req[t].slot = k}
  IN  IF S = {} THEN pc ELSE [pc EXCEPT ![CHOOSE t \in S : TRUE] = "woken"]

(* x_cond_broadcast on the condition of locker k.                          *)
locker_signal(k) ==
  [t \in Threads |-> IF pc[t] = "sleep" /\ req[t].slot = k THEN "woken" ELSE pc[t]]

-----------------------------------------------------------------------------
Grant(t, i, m) == held' = [held EXCEPT ![t][i] = m]

(* No other thread has the item or waits for it.                           *)
Alone(t, i) ==
  \A u \in Threads \ {t} : held[u][i] = "none" /\ (pc[u] # "out" => req[u].item # i)

(* A client calls an entry point and gets the mutex.                       *)
Call(t, i, op) ==
  /\ op \in Ops
  /\ op = "try_lock_write" /\ TryAlone => Alone(t, i)
  /\ ~leaked
  /\ pc[t] = "out"
  /\ held[t][i] = "none"

Block(t, i, m, k) ==
  /\ pc' = [pc EXCEPT ![t] = "sleep"]
  /\ req' = [req EXCEPT ![t] = [mode |-> m, item |-> i, slot |-> k]]

(* Out of memory: locker_get returns NULL with mutlock locked, the entry   *)
(* point skips its body, locker_release included, and reports success.     *)
OutOfMemory(t, i, op) ==
  /\ Call(t, i, op)
  /\ AllocMayFail
  /\ MustAlloc(i)
  /\ leaked' = TRUE
  /\ Grant(t, i, IF op \in {"lock_read", "try_lock_read"} THEN "r" ELSE "w")
  /\ UNCHANGED <<lockers, pc, req>>

lockany_lock_read(t, i) ==
  /\ Call(t, i, "lock_read")
  /\ LET k == locker_get(i)
         l == [Claimed(i)[k] EXCEPT !.cntr = Inc(@)]
     IN \/ /\ ~l.lockw
           /\ lockers' = [Claimed(i) EXCEPT
                            ![k] = locker_release([l EXCEPT !.lockr = TRUE])]
           /\ Grant(t, i, "r")
           /\ UNCHANGED <<pc, req>>
        \/ /\ l.lockw
           /\ lockers' = [Claimed(i) EXCEPT ![k] = l]
           /\ Block(t, i, "r", k)
           /\ UNCHANGED held
  /\ UNCHANGED leaked

lockany_try_lock_read(t, i) ==
  /\ Call(t, i, "try_lock_read")
  /\ LET k == locker_get(i)
         l == Claimed(i)[k]
     IN \/ /\ l.lockw                   \* X_EAGAIN
           /\ lockers' = [Claimed(i) EXCEPT ![k] = locker_release(l)]
           /\ UNCHANGED held
        \/ /\ ~l.lockw
           /\ lockers' = [Claimed(i) EXCEPT ![k] = locker_release(
                            [l EXCEPT !.cntr = Inc(@), !.lockr = TRUE])]
           /\ Grant(t, i, "r")
  /\ UNCHANGED <<leaked, pc, req>>

lockany_lock_write(t, i) ==
  /\ Call(t, i, "lock_write")
  /\ LET k == locker_get(i)
         l == [Claimed(i)[k] EXCEPT !.cntw = Inc(@)]
     IN \/ /\ ~(l.lockw \/ l.lockr)
           /\ lockers' = [Claimed(i) EXCEPT
                            ![k] = locker_release([l EXCEPT !.lockw = TRUE])]
           /\ Grant(t, i, "w")
           /\ UNCHANGED <<pc, req>>
        \/ /\ l.lockw \/ l.lockr
           /\ lockers' = [Claimed(i) EXCEPT ![k] = l]
           /\ Block(t, i, "w", k)
           /\ UNCHANGED held
  /\ UNCHANGED leaked

(* The code refuses only when the item is locked in both modes at once, so *)
(* beside other threads it is not a lock: see TryAlone.                    *)
lockany_try_lock_write(t, i) ==
  /\ Call(t, i, "try_lock_write")
  /\ LET k == locker_get(i)
         l == Claimed(i)[k]
     IN \/ /\ l.lockw /\ l.lockr        \* X_EAGAIN
           /\ lockers' = [Claimed(i) EXCEPT ![k] = locker_release(l)]
           /\ UNCHANGED held
        \/ /\ ~(l.lockw /\ l.lockr)
           /\ lockers' = [Claimed(i) EXCEPT ![k] = locker_release(
                            [l EXCEPT !.cntw = Inc(@), !.lockw = TRUE])]
           /\ Grant(t, i, "w")
  /\ UNCHANGED <<leaked, pc, req>>

(* Variant: the condition is not evaluated again after the wait.           *)
ResumeUnchecked(t) ==
  /\ pc[t] = "woken"
  /\ ~leaked
  /\ lockers' = [lockers EXCEPT
                   ![req[t].slot].lockr = @ \/ req[t].mode = "r",
                   ![req[t].slot].lockw = @ \/ req[t].mode = "w"]
  /\ Grant(t, req[t].item, req[t].mode)
  /\ pc' = [pc EXCEPT ![t] = "out"]
  /\ req' = [req EXCEPT ![t] = NoReq]
  /\ UNCHANGED leaked

(* The return from x_cond_wait, once mutlock is taken again: the loops of  *)
(* lockany_lock_read and lockany_lock_write re-evaluate their condition on *)
(* the locker they found before sleeping.                                  *)
Resume(t) ==
  /\ pc[t] = "woken"
  /\ ~leaked
  /\ LET k == req[t].slot
         l == lockers[k]
         blocked == l.lockw \/ (req[t].mode = "w" /\ l.lockr)
     IN \/ /\ blocked
           /\ pc' = [pc EXCEPT ![t] = "sleep"]
           /\ UNCHANGED <<lockers, req, held>>
        \/ /\ ~blocked
           /\ lockers' = [lockers EXCEPT ![k] = locker_release(
                IF req[t].mode = "r" THEN [l EXCEPT !.lockr = TRUE]
                                     ELSE [l EXCEPT !.lockw = TRUE])]
           /\ Grant(t, req[t].item, req[t].mode)
           /\ pc' = [pc EXCEPT ![t] = "out"]
           /\ req' = [req EXCEPT ![t] = NoReq]
  /\ UNCHANGED leaked

(* POSIX allows x_cond_wait to return without a signal.                    *)
SpuriousWakeup(t) ==
  /\ pc[t] = "sleep"
  /\ pc' = [pc EXCEPT ![t] = "woken"]
  /\ UNCHANGED <<lockers, leaked, req, held>>

(* Variant: the first reader that unlocks clears the flag of all.          *)
UnlockedEager(l) ==
  IF l.lockw THEN [l EXCEPT !.lockw = FALSE, !.cntw = Dec(@)]
             ELSE [l EXCEPT !.lockr = FALSE, !.cntr = Dec(@)]

(* What lockany_unlock makes of the locker, before locker_release.         *)
Unlocked(l) ==
  IF l.lockw THEN [l EXCEPT !.lockw = FALSE, !.cntw = Dec(@)]
  ELSE IF l.lockr
    THEN [l EXCEPT !.cntr = Dec(@), !.lockr = Dec(l.cntr) # 0]
    ELSE l

(* Variant: only a writer wakes the waiters up.                            *)
SignalsWriter(l) == l.lockw

Signals(l) == l.lockw \/ (l.lockr /\ Dec(l.cntr) = 0)

lockany_unlock(t, i) ==
  /\ ~leaked
  /\ pc[t] = "out"
  /\ held[t][i] # "none"
  /\ LET k == locker_get(i)
         l == Claimed(i)[k]
     IN /\ lockers' = [Claimed(i) EXCEPT ![k] = locker_release(Unlocked(l))]
        /\ pc' = IF Signals(l) /\ locker_used(Unlocked(l))
                   THEN locker_signal(k) ELSE pc
  /\ Grant(t, i, "none")
  /\ UNCHANGED <<leaked, req>>

-----------------------------------------------------------------------------
Request(t) ==
  \E i \in Items :
    \/ lockany_lock_read(t, i)
    \/ lockany_try_lock_read(t, i)
    \/ lockany_lock_write(t, i)
    \/ lockany_try_lock_write(t, i)
    \/ \E op \in Ops : OutOfMemory(t, i, op)

Next ==
  \E t \in Threads :
    \/ Request(t)
    \/ Resume(t)
    \/ SpuriousWakeup(t)
    \/ \E i \in Items : lockany_unlock(t, i)

Spec == Init /\ [][Next]_vars

-----------------------------------------------------------------------------
Locker == [item : Items \cup {NULL}, lockw : BOOLEAN, lockr : BOOLEAN,
           cntw : 0 .. CntMod - 1, cntr : 0 .. CntMod - 1]

(* The values the variables may take.                                      *)
TypeOK ==
  /\ lockers \in Seq(Locker)
  /\ leaked \in BOOLEAN
  /\ pc \in [Threads -> {"out", "sleep", "woken"}]
  /\ req \in [Threads -> [mode : {"none", "r", "w"}, item : Items \cup {NULL}, slot : Nat]]
  /\ held \in [Threads -> [Items -> {"none", "r", "w"}]]

(* A granted write lock excludes every other granted lock on the item.     *)
Exclusion ==
  \A t, u \in Threads, i \in Items :
    t # u /\ held[t][i] = "w" => held[u][i] = "none"

(* The locker a thread sleeps on is not recycled under its feet: it serves *)
(* the thread's item until the thread is granted its lock, and it is the   *)
(* only locker of this item.                                               *)
WaiterKeepsLocker ==
  /\ \A t \in Threads :
       pc[t] # "out" => /\ req[t].slot \in DOMAIN lockers
                        /\ lockers[req[t].slot].item = req[t].item
  /\ \A j, k \in DOMAIN lockers :
       lockers[j].item = lockers[k].item /\ lockers[j].item # NULL => j = k

(* No wakeup is lost: a thread sleeps only while its request is really     *)
(* incompatible with the state of its locker.                              *)
NoLostWakeup ==
  \A t \in Threads :
    pc[t] = "sleep" =>
      LET l == lockers[req[t].slot]
      IN  l.lockw \/ (req[t].mode = "w" /\ l.lockr)

Reads(t, i)  == held[t][i] = "r" \/ (pc[t] # "out" /\ req[t].mode = "r" /\ req[t].item = i)
Writes(t, i) == held[t][i] = "w" \/ (pc[t] # "out" /\ req[t].mode = "w" /\ req[t].item = i)

(* The counters of a locker count exactly the threads that hold or wait    *)
(* for its item, so that it is recycled as soon as, and never before,      *)
(* nobody needs it.                                                        *)
CountsExact ==
  \A k \in DOMAIN lockers :
    LET l == lockers[k]
    IN  IF l.item = NULL
          THEN l.cntr = 0 /\ l.cntw = 0
          ELSE /\ l.cntr = Cardinality({t \in Threads : Reads(t, l.item)})
               /\ l.cntw = Cardinality({t \in Threads : Writes(t, l.item)})
               /\ locker_used(l)

RW == INSTANCE RWLock

(* lockany implements the abstract read/write locks.                       *)
ImplementsRWLock == RW!Spec
=============================================================================
