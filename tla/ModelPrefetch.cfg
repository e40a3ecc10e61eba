CONSTANTS
  MaxFaults = 4
SPECIFICATION FairSpec
PROPERTIES
  StartsUsable
  OnlyWholeReplaces
  EventuallyReady
CHECK_DEADLOCK FALSE
