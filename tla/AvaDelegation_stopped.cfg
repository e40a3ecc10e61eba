CONSTANTS
  Keys = {k1}
  Messages = {c1, c2}
  Fillers = {}
  MaxSessions = 1
  Threads = 5
  None = None
SPECIFICATION Spec
INVARIANTS
  StoppedWorkStops
CHECK_DEADLOCK FALSE
