CONSTANTS
  Keys = {k1}
  Messages = {c1, c2}
  Fillers = {}
  MaxSessions = 1
  Threads = 1
  None = None
SPECIFICATION FairSpec
PROPERTIES
  EveryCallEnds
  StopGetsThrough
CHECK_DEADLOCK FALSE
