SPECIFICATION Spec
CONSTANTS
  e1 = e1
  e2 = e2
  e3 = e3
  c1 = c1
  k1 = k1
  k2 = k2
  Events = {e1, e2, e3}
  DedupeKeys = {k1, k2}
  DedupeOf <- MCDedupeOf
  Producing = {e1, e3}
  Cells = {c1}
  NoCell = none
  CellOf <- MCCellOf
  Workers = {w1, w2}
  Dispatchers = {d1}
  MaxAttempts = 2
  MaxReplays = 1
INVARIANT HandledOnce
CHECK_DEADLOCK FALSE
