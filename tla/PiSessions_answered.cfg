CONSTANTS
  Keys = {k1, k2}
  Messages = {m1, m2}
  Deletes = {d1, d2}
  MaxSessions = 1
  None = None
SPECIFICATION FairSpec
PROPERTIES
  EveryCallAnswered
CHECK_DEADLOCK FALSE
