\* Two pairs of one arm each, and one reserve between them.
SPECIFICATION Spec
CONSTANTS
  None = None
  p1 = p1  p2 = p2  r1 = r1  sa = sa  sb = sb
  c1 = c1  c2 = c2  c3 = c3
  start1 = start1  start2 = start2  ctl1 = ctl1  ctl2 = ctl2
  Primaries = {p1, p2}
  Reserves = {r1}
  Samples = {sa, sb}
  PrimaryOf <- RivalsOf
  CellOf <- OneCell
  MaxAttempts = 2
  Containers = {c1, c2}
  StartIds = {start1}
  Processes = {ctl1}
  ReplacementCauses <- Contention
  ValidityCauses <- Contention
  Observations <- RivalObservations
  StopProofs <- InspectedOrNever
  Times <- Instant
  Arm <- ArmOfSample
  Found = {}
CHECK_DEADLOCK FALSE
CONSTRAINT OneAccount
SYMMETRY RivalSymmetry
INVARIANTS OneOwner EndsAreSound
