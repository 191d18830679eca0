SPECIFICATION QuotaSpec
CONSTANTS
  Users = {u1, a1}
  Admins = {a1}
  Products = {"#2 Posts", "#5 Posts", "#Infinite Posts", "Poster"}
  Workers = {t1, t2}
  MaxPosts = 8
  MaxRows = 2
INVARIANTS
  OvershootBounded
CHECK_DEADLOCK FALSE
