SPECIFICATION Spec
CONSTANTS
  p1 = p1
  p2 = p2
  t1 = t1
  t2 = t2
  huge = huge
  aws = aws
  gcp = gcp
  b = b
  NoAuth = NoAuth
  BadAuth = BadAuth
  NoBox = NoBox
  BadBox = BadBox
  Procs = {p1, p2}
  Tokens = {t1, t2, huge}
  Unprintable = {huge}
  Kinds = {aws, gcp}
  Boxes = {b}
  Environments <- WriterAndReaders
SYMMETRY Invocations
INVARIANTS TypeOK NeverTorn
PROPERTIES PublishedWholeAndPrivate ResidueNeverBlocks SessionOutlivesReaders ContractSpec
