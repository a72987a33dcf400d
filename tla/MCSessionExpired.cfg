SPECIFICATION Spec
CONSTANTS
  NoTokens = NoTokens
  Window = 5
  Timeout = 2
  AccessLife = 8
  RefreshLife = 10
  MaxTime = 4
  Faults <- NoFaults
INVARIANT ExpiredExitsAsAuth
