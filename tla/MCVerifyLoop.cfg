SPECIFICATION FairSpec
CONSTANTS
  MaxAttempts = 4
  RetryBackoff = 3
  MaxTime = 14
INVARIANTS TypeOK PatienceCovers
PROPERTY CancelEnds
CHECK_DEADLOCK FALSE
