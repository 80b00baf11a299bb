\* One pair of two arms, one reserve, one fault.
SPECIFICATION SessionSpec
CONSTANTS
  None = None
  p1 = p1  p2 = p2  r1 = r1  sa = sa  sb = sb
  start1 = start1  ctl1 = ctl1
  Primaries = {p1}
  Reserves = {r1}
  Samples = {sa, sb}
  PrimaryOf <- PairOf
  CellOf <- OneCell
  MaxAttempts = 2
  Containers <- Attempts
  Workers <- Attempts
  StartIds = {start1}
  Processes = {ctl1}
  ReplacementCauses <- Replaceables
  ValidityCauses <- Contention
  Observations <- EvidenceOrBilling
  StopProofs <- Proofs
  Times <- Instant
  RunCap = 2
  FatalCauses <- Fatal
  Indeterminate <- Pass
  MaxFaults = 1
SYMMETRY Arms
CHECK_DEADLOCK FALSE
INVARIANT ReserveIsForStorage
