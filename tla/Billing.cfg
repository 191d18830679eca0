SPECIFICATION Spec
CONSTANTS
  Users = {u1}
  Products = {p1}
  Subs = {s1}
  Amounts = {1000}
  Threads = {t1, t2}
  MaxProducts = 3
  MaxRows = 3
  None = None
INVARIANTS
  SubscriptionsHaveOwners
  ActiveWasGranted
  OneRowEach
  ActiveIffStatus
CHECK_DEADLOCK FALSE
