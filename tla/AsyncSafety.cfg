CONSTANTS
  Blocks = {b1, b2}
  NoBlock = NoBlock
  Calls <- AsyncCalls
  CmdLength = 2
  MaxTries = 2
  ReloadAfterTimeout = FALSE
SPECIFICATION Spec
SYMMETRY Symmetry
INVARIANTS
  TypeOK
  TaskAssertHolds
  NoLostWakeup
  LinkedOnce
  BusyShownIsRunning
  OkMeansResult
  StoppedMeansQuiet
  IInv
PROPERTIES
  AbortedStays
  WorkStable
  ImplementsService
