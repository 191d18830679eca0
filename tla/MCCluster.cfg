SPECIFICATION MCSpec
CONSTANTS
  Voters = {v1, v2}
  Group = {n0, n1, n2}
  Owner0 = n0
  MaxEpoch = 2
  MaxRestarts = 1
  PromptVotes = TRUE
  PingPeriod = 1
  DownAfter = 2
  ReconnectPeriod = 2
  PubSubPeriod = 1
  TiltTrigger = 1
  TiltPeriod = 2
  MaxPending = 1
  MaxAge = 3
  Replica = {r1, r2}
  Client = {c1, c2}
  NoOne = NoOne
  MaxWrites = 1
  MaxTroubles = 1
  MaxFailovers = 1
  MaxWaits = 2
INVARIANTS
  OneWinnerPerEpoch
  SameEpochSameOwner
  
  HandoverIsSafe
SYMMETRY Interchangeable
CHECK_DEADLOCK FALSE
