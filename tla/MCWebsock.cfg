SPECIFICATION FairSpec
CONSTANTS
  PeerFrames <- AnyFrames
  Itfs <- SomeItfs
  MaxFrames = 2
  MaxLength = 66000
  MaxReplies = 3
  Leaves = {1, 5}
  Sizes = {65530, 66000}
CHECK_DEADLOCK FALSE
INVARIANTS
  Aligned
  FramesAreReported
PROPERTY
  FramesAreServed
