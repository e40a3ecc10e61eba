CONSTANTS
  Sessions = {s1, s2}
  Ring = 2
  Conns = {c1, c2}
  Uploads = {u1, u2, u3}
  Allows <- Capable
  MaxRequests = 2
  NoSession = NoSession
SPECIFICATION Spec
SYMMETRY Interchangeable
INVARIANTS
  ConfigGivenOnce
  KnownWhileLive
  RingHoldsNewest
PROPERTIES
  CaptureOnce
CHECK_DEADLOCK FALSE
