\* One comparison pair (two arms) with one reserve.
SPECIFICATION Spec
CONSTANTS
  None = None
  p1 = p1  p2 = p2  r1 = r1  sa = sa  sb = sb
  c1 = c1  c2 = c2  c3 = c3
  start1 = start1  start2 = start2  ctl1 = ctl1  ctl2 = ctl2
  Primaries = {p1}
  Reserves = {r1}
  Samples = {sa, sb}
  PrimaryOf <- PairOf
  CellOf <- OneCell
  MaxAttempts = 2
  Containers = {c1}
  StartIds = {start1}
  Processes = {ctl1}
  ReplacementCauses <- PairReplacementCauses
  ValidityCauses <- PairValidityCauses
  Observations <- PairObservations
  StopProofs <- InspectedOrNever
  Times <- Instant
  Arm <- ArmOfSample
  Found <- PairFound
CONSTRAINT NoAccounts
SYMMETRY PairSymmetry
CHECK_DEADLOCK FALSE
INVARIANTS BlocksAreSound ReportIsHonest
PROPERTIES RecordsAreFinal ImplementsLedger
