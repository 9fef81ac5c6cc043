SPECIFICATION Spec
CONSTANTS
  c1 = c1
  a1 = a1
  a2 = a2
  g1 = g1
  g2 = g2
  g3 = g3
  x1 = x1
  Cells = {c1}
  Grants = {g1, g2, g3, x1}
  KindOf <- MCKindOf
  CellOf <- MCCellOf
  AmountOf <- MCAmountOf
  Forecasts = {f1}
  OwnerOf <- MCOwnerOf
  ChanceOf <- MCChanceOf
  Term = 1
  Allocators = {a1, a2}
  Runs <- MCRuns
  Ttl = 2
  MinResolved = 1
  MaxParallel = 1
  Funds = {3}
  MaxFunded = 3
  Approved = {g1, g2, g3}
  MaxStale = 1
  Toggled = {"auto_promotion"}
  Standings = {"alive", "dead"}
SYMMETRY MCSymmetry
INVARIANTS
  TypeOK
  PoolIsACeiling
  PilotsAreEarned
PROPERTIES
  CapitalMovesByConsent
CHECK_DEADLOCK FALSE
