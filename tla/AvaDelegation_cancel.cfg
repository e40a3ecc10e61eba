CONSTANTS
  Keys = {k1, k2}
  Messages = {c1, c2}
  Fillers = {c1, c2}
  MaxSessions = 1
  Threads = 3
  None = None
SPECIFICATION Spec
SYMMETRY Interchangeable
INVARIANTS
  LatestIsCancellable
  ConnectionsApart
  NoLateFiller
  SilentOnceCancelled
CHECK_DEADLOCK FALSE
