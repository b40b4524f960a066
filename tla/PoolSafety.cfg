SPECIFICATION Spec
CONSTANTS
  Sessions = {s1, s2}
  Tasks = {t1, t2}
  MaxWorkers = 2
  MinWorkers = 1
  MaxSpawns = 2
  Transports <- Both
  Events <- AllEvents
  DropPoints <- AllDrops
  NoSession = NoSession
  NoTask = NoTask
SYMMETRY Symmetry
INVARIANTS
  ExclusiveLease
  IdleIsClean
  NoOrphanProcess
PROPERTY
  ImplementsLeasing
CHECK_DEADLOCK FALSE
