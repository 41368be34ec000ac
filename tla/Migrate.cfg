SPECIFICATION MigrationSpec
CONSTANTS
  NULL = NULL
  ABSENT = ABSENT
  User <- TwoUsers
  Row = {1, 2}
INVARIANTS MigrationTypeOK SchemaMatchesRevision RowsOwned OnlyMissingUserFails
PROPERTIES UpgradeKeepsRows AtomicRuns
