SPECIFICATION MCSpec
CONSTANTS
  p1 = p1
  p2 = p2
  IdMod = 8
  N = 2
  PtrCells = 2
  P = 2
  Ids = {0, 1, 2, 5, 6}
  Ptrs <- MCPtrs
  Pairs <- FewPairs
  da = da
  db = db
  dc = dc
  Empty = Empty
  Null = Null
  Slots = {1, 2}
  Nodes = {1, 2, 3, 4}
  Dirs = {da, db, dc}
  DirSeqs <- MCDirSeqs
  RefMod = 65536
  JsonValues <- MCValues
  JsonKeys <- MCKeys
  MaxItems = 4
  MaxNodes = 6
  MaxSteps = 3
  Roots = {r1}
  Searches = {s1, s2, s3}
  NoSearch = NoSearch
  Lists <- MCLists
  LRU_COUNT = 2
  MaxRefs = 2
CHECK_DEADLOCK FALSE
INVARIANTS
  CountsAreExact
  RefsAreOwned
  OperationsAreExact
  LocaleLifetimes
  TriedInOrder
PROPERTIES
  MapsAreImplemented
  ImplementsDirLists
