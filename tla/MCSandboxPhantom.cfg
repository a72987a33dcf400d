SPECIFICATION Spec
CONSTANTS
  p1 = p1
  i1 = i1
  i2 = i2
  aws = aws
  azure = azure
  NoEntry = NoEntry
  Procs = {p1}
  Kinds = {aws, azure}
  Aws = aws
  Verifiable = {aws}
  Coded = {azure}
  Ids = {i1, i2}
  Life = 2
  Environments <- Refused
  MaxTime = 3
INVARIANT NoPhantom
