SPECIFICATION LiveSpec
CONSTANTS
  None = None  Blank = Blank
  c1 = c1 c2 = c2
  l1 = l1 l2 = l2 l3 = l3
  k1 = k1 k2 = k2 k3 = k3
  x1 = x1 x2 = x2 m1 = m1
  Campaigns = {c1, c2}
  Launchers = {l1, l2, l3}
  Controllers = {k1, k2, k3}
  Cancellers = {x1, x2}
  Mutators = {m1}
  CampaignOf <- MCCampaignOf
  ChildOf <- MCChildOf
  MaxFaults = 1
  Casts <- MCCasts
INVARIANTS SpendingIsAlone
PROPERTIES ImplementsOwnership CancelEnds
CHECK_DEADLOCK FALSE
