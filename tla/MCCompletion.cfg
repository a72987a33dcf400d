SPECIFICATION Spec
CONSTANTS
  Unset = Unset
  Malformed = Malformed
  Nothing = Nothing
  LogLevels = {"", "debug", "warning", "error", "loud"}
  Invocations <- Completing
  Second = 4
  MaxTime = 6
  ChildCodes = {0, 3, 255}
  Hour = 4
  Durations <- Quarters
  Rejected = Rejected
INVARIANT CompletionNeedsNoState
CHECK_DEADLOCK FALSE
