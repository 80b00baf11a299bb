\* The parts checked by themselves, side by side.
SPECIFICATION PartsSpec
CONSTANTS
  None = None  Nil = Nil
  nobody = nobody
  w1 = w1  w2 = w2
  p1 = p1  p2 = p2  p3 = p3
  j1 = j1  j2 = j2
  Writers = {w1, w2}
  Transitions = {"registered", "started"}
  Registration = "registered"
  MaxGeneration = 3
  Deciders = {p1, p2, p3}
  BodyOf <- Bodies
  MaxOutages = 2
  Nothing = Nothing
  Publishers = {p1, p2}
  Last = 2
  Completed = TRUE
  MaxFaults = 1
  Absent = Absent
  Empty = nobody
  Jobs = {j1, j2}
  Requests <- Asked
  MaxBoxes = 4
  MaxMishaps = 1
  Never = Never
  SustainK = 2
  CoverageN = 2
  Patience = 3
  BlockSize = 2
  LastInstant = 4
  Unsaid = Unsaid
  Bundles <- Bundled
  Requirements <- Required
SYMMETRY Publishing
CHECK_DEADLOCK FALSE
INVARIANTS
  DecisionIsKept ReportsAreKept JobsAreKept EvidenceIsHonest
PROPERTIES
  JournalIsTrue ContentionIsSound
