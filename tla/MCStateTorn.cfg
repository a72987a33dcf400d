SPECIFICATION Spec
CONSTANTS
  p1 = p1
  p2 = p2
  t1 = t1
  aws = aws
  b = b
  NoAuth = NoAuth
  BadAuth = BadAuth
  NoBox = NoBox
  BadBox = BadBox
  Procs = {p1, p2}
  Tokens = {t1}
  Unprintable = {}
  Kinds = {aws}
  Boxes = {b}
  Environments <- Racing
INVARIANT NeverTorn
