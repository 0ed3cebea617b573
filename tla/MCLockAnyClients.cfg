SPECIFICATION ClientsSpec
CONSTANTS
  Threads = {t1, t2, t3}
  Items = {a}
  NULL = NULL
  CntMod = 4
  Ops = {"lock_read", "try_lock_read", "lock_write", "try_lock_write"}
  TryAlone = TRUE
  AllocMayFail = FALSE
  MaxCalls = 2
PROPERTIES
  WaiterIsServed
