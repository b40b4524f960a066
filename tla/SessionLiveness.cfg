SPECIFICATION Spec
CONSTANTS
  Sessions = {m1, m2}
  Ids = {i1}
  Paths = {p1}
  Tasks = {t1, t2}
  Dropped <- Nowhere
  None = None
PROPERTIES
  RequestsEnd
  IdleIsReaped
