\* Four cells on two slots and an entry that cannot run.
SPECIFICATION Lives
CONSTANTS
  None = None  Null = Null
  spaced = spaced  plain = plain  directive = directive
  NumCells = 4
  Keys = {spaced, plain}
  KeyOf <- TwoKeys
  Jobs = 2
  CapFor <- Caps
  SpacingFor <- Spacings
  Skipped = {directive}
  Commands <- Cmds
  Found <- Captured
CHECK_DEADLOCK FALSE
INVARIANTS CountsAreRight WaitsAreRight BatchIsKept AttemptIsTrue StopsAreAnswered
PROPERTIES SpacedStarts RunsEnd
