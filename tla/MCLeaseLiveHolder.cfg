\* A dead holder and two that both judge it.
SPECIFICATION Locks
CONSTANTS
  None = None
  p1 = p1  p2 = p2  gone = gone
  Processes = {p1, p2, gone}
  Departed = {gone}
  Inodes = {1, 2, 3}
  Callers = {p1, p2}
  Gone = gone
  Directories <- Trees
  Nothing = Nothing
  Unset = Unset
  Registries <- Registers
  Grader = "g"
  NumBlocks = 3
  Attempts <- Planned
  ArmOf <- Arms
  GlobalCap = 4
  Cooldown = 2
  MaxTime = 3
CHECK_DEADLOCK FALSE
INVARIANT LiveHolderInPlace
