CONSTANTS
  Keys = {k1, k2, k3}
  Messages = {m1, m2, m3}
  Deletes = {d1, d2}
  MaxSessions = 2
  None = None
SPECIFICATION Spec
SYMMETRY Interchangeable
INVARIANTS
  TypeOK
  ResidencyBound
  BusyMeansRunning
  CreationOwned
  NoSessionLost
  ConversationsIsolated
  ResidentIsIndexed
CHECK_DEADLOCK FALSE
