SPECIFICATION FairSpec
CONSTANTS
  Unset = Unset
  Malformed = Malformed
  Nothing = Nothing
  LogLevels = {"", "debug", "warning", "error", "loud"}
  Invocations <- All
  Second = 4
  MaxTime = 6
  ChildCodes = {0, 3, 255}
  Hour = 4
  Durations <- Quarters
  Rejected = Rejected
INVARIANTS TypeOK NoTeardownWithoutConsent StatusTells CredentialsReachSomebody
  ChildsStatus ExpiredRowSaysSo VerboseNeverQuieter LogLevelIsFinal
  PrivateBeforeUse VersionNeedsNoState
  FewestHoursThatCover ServesWhatItOffers
PROPERTY InterruptedEnds
CHECK_DEADLOCK FALSE
