SPECIFICATION HttpSpec
CONSTANTS
  s1 = s1
  s2 = s2
  x1 = x1
  x2 = x2
  x3 = x3
  x4 = x4
  NoSession = NoSession
  SessionIds <- TwoSessions
  Streams <- ThreeStreams
CHECK_DEADLOCK FALSE
INVARIANT CountsStreams
PROPERTY  AbandonedCloses
