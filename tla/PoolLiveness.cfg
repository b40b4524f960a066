SPECIFICATION Spec
CONSTANTS
  Sessions = {s1, s2}
  Tasks = {t1, t2}
  MaxWorkers = 1
  MinWorkers = 1
  MaxSpawns = 2
  Transports <- Http
  Events <- Crashes
  DropPoints <- MostDrops
  NoSession = NoSession
  NoTask = NoTask

  
PROPERTIES
  
  OperationsEnd
CHECK_DEADLOCK FALSE
