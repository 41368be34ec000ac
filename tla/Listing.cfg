SPECIFICATION ListSpec
CONSTANTS
  u1 = u1  u2 = u2  open = open  closed = closed
  NULL = NULL  GONE = GONE
  User = {u1, u2}
  Status = {open, closed}
  Size = {1, 2}
  Id <- Ids
  Rows <- SomeRows
  Query <- Queries
  limit = 2
INVARIANTS ListTypeOK WalkComplete NoRepeats
PROPERTIES PageAgreesWithTotal FiltersHonoured
CHECK_DEADLOCK FALSE
