SPECIFICATION MCSpec
CONSTANTS
  Sentinel = {s1, s2}
  Quorum = 1
  MaxEpoch = 2
  MaxReplies = 1
  MaxRestarts = 1
  None = None
  Inst = {m, r}
  Master0 = m
  Priority <- SamePriority
  ParallelSyncs = 1
  MaxTroubles = 3
  MaxCrashes = 1
  MaxGlitches = 0
  NoOne = NoOne
  Unknown = Unknown
INVARIANTS
  
  
  PromotedIsKnown
PROPERTIES
  
  GoesOnUntilDone
CHECK_DEADLOCK FALSE
