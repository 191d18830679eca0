SPECIFICATION Spec
CONSTANTS
  None = None
INVARIANTS
  BlockedAreServed
  TransactionsHold
  StreamsAgree
  
  EvictionIsSound
PROPERTIES
  NoForbiddenStep
CHECK_DEADLOCK FALSE
