SPECIFICATION MCSpec
CONSTANTS
  None = None
  Node = {1, 2, 3}
  Slot = {1, 2}
  Owner0 <- FirstOwners
  Master0 <- FirstMasters
  Epoch0 <- FirstEpochs
  MaxNet = 1
  MaxEpoch = 3
  MaxReshards = 1
  MaxTakeovers = 1
INVARIANTS
  TablesAreSafe
  NewsSettles
  ResyncIsExact
  
  LogIsSafe
CHECK_DEADLOCK FALSE
