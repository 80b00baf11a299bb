\* Four cells on two slots, the clock moving between the two readings of one pass.
SPECIFICATION Lives
CONSTANTS
  None = None  Null = Null
  spaced = spaced  plain = plain  directive = directive
  NumCells = 4
  Keys = {spaced, plain}
  KeyOf <- TwoKeys
  Jobs = 2
  CapFor <- Caps
  SpacingFor <- Spacings
  Skipped = {directive}
  Commands <- Cmds
  Found <- Captured
CHECK_DEADLOCK FALSE
INVARIANT DoneIsComplete
