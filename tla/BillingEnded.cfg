SPECIFICATION FairSpec
CONSTANTS
  Users = {u1}
  Products = {p1}
  Subs = {s1}
  Amounts = {1000}
  Threads = {t1}
  MaxProducts = 1
  MaxRows = 1
  None = None
PROPERTY
  EndedBecomesInactive
CHECK_DEADLOCK FALSE
