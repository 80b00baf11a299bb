\* Two pairs of one arm each and room for one, one reserve, no exclusion by an audit,
\* two faults.
SPECIFICATION FairSession
CONSTANTS
  None = None
  p1 = p1  p2 = p2  r1 = r1  sa = sa  sb = sb
  start1 = start1  ctl1 = ctl1
  Primaries = {p1, p2}
  Reserves = {r1}
  Samples = {sa, sb}
  PrimaryOf <- RivalsOf
  CellOf <- OneCell
  MaxAttempts = 2
  Containers <- Attempts
  Workers <- Attempts
  StartIds = {start1}
  Processes = {ctl1}
  ReplacementCauses <- Replaceables
  ValidityCauses = {}
  Observations <- Evidence
  StopProofs <- Proofs
  Times <- Instant
  RunCap = 1
  FatalCauses = {}
  Indeterminate <- Pass
  MaxFaults = 2
CHECK_DEADLOCK FALSE
INVARIANT HostIsShared
PROPERTIES SessionsEnd
