SPECIFICATION MCSpec
CONSTANTS
  CmdLength = 17
  DataLength = 2
  MaxPolls = 2
  EosChars = {10}
  Signs = {FALSE, TRUE}
INVARIANTS CommandBytesOnce NoEosModeError
PROPERTIES CommandsWhileActive DataInStandby CallsComeToAnEnd
