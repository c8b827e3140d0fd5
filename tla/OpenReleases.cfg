CONSTANTS
  MaxLoads = 1
  MaxLooks = 2
SPECIFICATION Spec
CHECK_DEADLOCK FALSE
INVARIANT FailedOpenReleases
