SPECIFICATION Spec
CONSTANTS
  p1 = p1
  p2 = p2
  i1 = i1
  i2 = i2
  i3 = i3
  aws = aws
  azure = azure
  NoEntry = NoEntry
  Procs = {p1, p2}
  Kinds = {aws, azure}
  Aws = aws
  Verifiable = {aws}
  Coded = {azure}
  Ids = {i1, i2, i3}
  Life = 2
  MaxTime = 5
  Environments <- SomeOrMost
SYMMETRY Interchangeable
INVARIANTS TypeOK FreshIsRegistered CacheMirrorsAccount OneFreshKind NothingElseRuns
PROPERTIES HandedOutIsLive RunningIsKept CodeIsForCached AllOrNothing
