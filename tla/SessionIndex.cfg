CONSTANTS
  Keys = {k1, k2}
  Saves = {s1, s2}
  Drops = {d1}
  ReadFaults = FALSE
  None = None
SPECIFICATION FairSpec
INVARIANTS
  ConfirmedIsDurable
  NoDanglingEntry
PROPERTIES
  EveryWriteSettles
  EntriesSurvive
  KeepsPromise
CHECK_DEADLOCK FALSE
