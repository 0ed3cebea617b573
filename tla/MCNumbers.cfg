SPECIFICATION MCSpec
CONSTANTS
  UINT64_MAX = 255
  UINT32_MAX = 15
  RP_EXPAND_VARS_LIMIT = 10
  RP_EXPAND_VARS_DEPTH_MAX = 3
  STACKCOUNT = 3
  DEPTHMAX = 3
  NameChars = {"A", "B", "C", "z"}
INVARIANT
  NumbersFitIn64Bits
CHECK_DEADLOCK FALSE
