SPECIFICATION Spec
CONSTANTS
  t1 = t1
  t2 = t2
  c1 = c1
  Client = Client
  Binary = Binary
  None = None
  Calls <- TwoCalls
  Caches <- OneCache
  Images = 1
  MaxGenerations = 2
CHECK_DEADLOCK FALSE
INVARIANT CancelledIsClean OneWriterPerI64 LoadsOnTarget
PROPERTY CancelSettles
