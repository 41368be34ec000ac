SPECIFICATION MigrationSpec
CONSTANTS
  NULL = NULL
  ABSENT = ABSENT
  User <- TwoUsers
  Row = {1}
INVARIANT AdviceCanBeFollowed
