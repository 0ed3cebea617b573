SPECIFICATION Spec
CONSTANTS
  Threads = {t1, t2, t3}
  Items = {a, b}
  NULL = NULL
  CntMod = 4
  Ops = {"lock_read", "try_lock_read", "lock_write", "try_lock_write"}
  TryAlone = TRUE
  AllocMayFail = TRUE
CHECK_DEADLOCK FALSE
INVARIANTS
  Exclusion
  WaiterKeepsLocker
  NoLostWakeup
  CountsExact
PROPERTIES
  ImplementsRWLock
