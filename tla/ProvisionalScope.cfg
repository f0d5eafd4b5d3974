SPECIFICATION FairSpec
CONSTANTS
  MaxOwn = 4
  GetterRollsBack = FALSE
INVARIANTS NeverBothNeverNeither CommitTellsTheTruth
PROPERTIES Settles ImplementsReleaseLedger
CHECK_DEADLOCK FALSE
