CONSTANTS
  Preserve = 2
  Limit = 2
  MaxMessages = 8
SPECIFICATION Spec
INVARIANTS
  PromptThenLatest
  NothingLost
  ResultsHaveCalls
CHECK_DEADLOCK FALSE
