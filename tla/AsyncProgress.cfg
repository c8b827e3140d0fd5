CONSTANTS
  Blocks = {b1, b2}
  NoBlock = NoBlock
  Calls = {"COMMAND"}
  CmdLength = 1
  MaxTries = 2
  ReloadAfterTimeout = FALSE
SPECIFICATION StuckTaskSpec
PROPERTIES
  CompletesWhenScheduled
  StopReturns
