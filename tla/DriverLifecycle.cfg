CONSTANTS
  MaxLoads = 2
  MaxLooks = 3
SPECIFICATION FairSpec
CHECK_DEADLOCK FALSE
INVARIANTS
  FailedOpenLeavesNoTask
  DeletedOnce
PROPERTIES
  OpenReturns
