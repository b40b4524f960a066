SPECIFICATION LockSpec
CONSTANTS
  Procs = {w1, w2, w3}
  MaxInodes = 4
  Nobody = Nobody
SYMMETRY Symmetry
INVARIANTS
  FileHasKeeper
  SweptClean
CHECK_DEADLOCK FALSE
