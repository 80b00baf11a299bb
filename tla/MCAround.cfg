\* The parts before and after the sessions, and the fold's clock, side by side.
SPECIFICATION Around
CONSTANTS
  None = None  Null = Null  Unset = Unset
  p1 = p1  p2 = p2
  Registrars = {p1, p2}
  Primaries = {"p"}
  Reserves = {"r"}
  Samples = {"s"}
  PrimaryOf <- PairOf
  CellOf <- OneCell
  MaxAttempts = 1
  Containers = {"box"}
  StartIds = {"start"}
  Processes = {p1}
  ReplacementCauses = {"subject_crashed"}
  ValidityCauses = {"provenance"}
  Observations <- PassOrCrash
  StopProofs <- Proofs
  Times <- ThreeInstants
  Inputs <- Declared
  Later <- LaterOnes
  Logs <- TwoLogs
  Place <- PlaceOf
  Snapshots <- NoneOrOneBefore
  Timings <- Crossings
  RetryAttempts = 2
  Normalizers = {"claude", "codex", "pi", "kimi", "gemini", "acp"}
  Made <- CallsMade
  Questions <- ChecksAsked
  MaxCalls = 3
  MaxAstray = 2
  Blank = Blank
  Scripts <- ScriptsOf
  Manifested <- ScriptsOf
  Expansions = {"x", "y"}
  Absent = Absent
  Paths <- TreePaths
  PathTools = {"t"}
  Patterns <- PatternsAsked
  Baselines <- BaselinesDeclared
  Endings <- WaysToEnd
  MaxEntries = 3
  MaxCommits = 2
  Stops = {"endpoint", "timeout", "assisted"}
CHECK_DEADLOCK FALSE
INVARIANTS PlanIsExact TranscriptsAreTrue SessionIsOwn
  TraceChecksAreTrue WorkChecksAreTrue JudgedIsChecked PassIsApproved TimesOrdered
PROPERTIES RegistrationIsWhole
