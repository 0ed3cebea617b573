SPECIFICATION Spec
CHECK_DEADLOCK FALSE
CONSTANTS
  Fds = {}
  Events = {e1, e2}
  NONE = NONE
  RefMod = 4
  Timers = {t1, t2}
  TIME_MS_MAX = 100
  RefGarbage = {1}
  Preps = {}
  Allowed <- TimerClient
  CtlMayFail = FALSE
  ArmMayFail = FALSE
  TimerArgs <- TimerArgsLater
  FdArgs = {}
  Wakeups = {2}
  MaxRef = 2
  MaxWake = 1
  MaxNow = 5
INVARIANTS
  TimersAreArmed
  TimersAreListed
PROPERTY
  CountdownEnds
