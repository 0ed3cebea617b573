SPECIFICATION FairSpec
CHECK_DEADLOCK FALSE
CONSTANTS
  Fds = {f1}
  Events = {e1, e2}
  NONE = NONE
  RefMod = 4
  Timers = {}
  TIME_MS_MAX = 100
  RefGarbage = {1}
  Preps = {p1}
  Allowed <- AnyClient
  CtlMayFail = FALSE
  ArmMayFail = FALSE
  TimerArgs = {}
  FdArgs <- FdArgsAll
  Wakeups = {}
  MaxRef = 2
  MaxWake = 1
  MaxNow = 1
INVARIANTS
  NoFault
  FdAndPrepareRefs
  EpollAgrees
PROPERTY
  DeletedIsFreed
