SPECIFICATION MCFairSpec
CONSTANTS
  Names = {n1}
  Emails = {e1}
  Customers = {c1, c2, c3}
  Spare = {c3}
  Threads = {t1, t2}
  First = t1
  MaxUsers = 2
  None = None
INVARIANTS
  EveryUserIsCustomer
  
PROPERTY
  WelcomeArrivesAlone
CHECK_DEADLOCK FALSE
