SPECIFICATION FairSpec
CONSTANTS
  NoTokens = NoTokens
  Window = 5
  Timeout = 2
  AccessLife = 8
  RefreshLife = 10
  MaxTime = 14
  Faults <- Everything
INVARIANTS TypeOK WindowCoversTwoCalls HeadlessInTime
PROPERTIES SpentIsStored FailureKeepsSession HeadlessGetsThrough
