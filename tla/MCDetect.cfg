SPECIFICATION MCSpec
CONSTANTS
  Observer = {a, b}
  Masters = {a, b}
  Kinds = {"slots"}
  None = None
  MaxCuts = 1
  MaxRestarts = 1
  MaxLosses = 1
PROPERTIES
  
  TruthIsNoticed
  ExpiredGoAway
CHECK_DEADLOCK FALSE
