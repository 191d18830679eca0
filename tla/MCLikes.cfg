SPECIFICATION Spec
CONSTANTS
  Users = {u1, u2}
  Threads = {t1, t2}
  MaxPosts = 2
  MaxLikes = 3
INVARIANTS
  CounterIsExact
  AtMostOneLike
  ForeignKeysHold
PROPERTY ImplementsLedger
SYMMETRY Interchangeable
CHECK_DEADLOCK FALSE
