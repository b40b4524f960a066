SPECIFICATION Spec
CONSTANTS
  Sessions = {m1, m2}
  Ids = {i1, i2}
  Paths = {p1}
  Tasks = {t1, t2, t3}
  Dropped <- Anywhere
  None = None
SYMMETRY Symmetry
INVARIANTS
  MapsAgree
  CalledIsListed
  OneOperation
PROPERTY
  ReapedWhenIdle
