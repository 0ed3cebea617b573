SPECIFICATION MCSpec
CONSTANTS
  Patterns <- MCPatterns
  Texts <- MCTexts
  Closures = {c1}
  Hash <- MCHash
  LowMask = 1
  UINT_MAX = 15
  Contexts = {"x", "y"}
  CONTEXT_DEPTH = 2
  MaxPushed = 4
  Puts <- MCPuts
  Inodes = {n1, n2}
  NoInode = NoInode
  WS_BUFS_COUNT = 2
  MaxLength = 300
  Frames <- MCFrames
  RawBuffers <- MCRawBuffers
  Itfs <- MCItfs
  MaxBuffers = 3
  Requests = {r1, r2}
  Blocks = {"x", "y"}
  MaxBlocks = 3
  Uris <- MCUris
  Schemes = {"", "unix", "http", "char"}
  MaxAddresses = 2
  strtod <- MCStrtod
  grisu2 <- MCGrisu2
  callback <- Callback
  StringBuffer = 20
  HppLeaves <- MCHppLeaves
  HppItems <- MCHppItems
  HppKeys <- MCHppKeys
  HppCopies <- MCHppCopies
  HppChunks <- MCHppChunks
  MaxChunks = 3
CHECK_DEADLOCK FALSE
INVARIANTS
  LoggedAsAsked
  FilesAreWhole
  BuffersAreKept
  FramesAreExchanged
  CalledOnceWhole
  SocketAsAsked
  ValuesSurvive
  InputsAreStable
PROPERTY
  IsHandlerMap
