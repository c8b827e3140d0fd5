CONSTANTS
  Blocks = {b1, b2}
  NoBlock = NoBlock
  Calls = {"COMMAND", "CLEAR_TXRX"}
  CmdLength = 2
  MaxTries = 2
  ReloadAfterTimeout = TRUE
SPECIFICATION Spec
SYMMETRY Symmetry
INVARIANTS
  TaskAssertHolds
