SPECIFICATION Spec
CONSTANTS
  c1 = c1
  c2 = c2
  c3 = c3
  c4 = c4
  Cells = {c1, c2, c3, c4}
  Auditors = {c3}
  GenomeOf <- MCGenomeOf
  BudgetOf <- MCBudgetOf
  NoCell = none
  MaxLiving = 3
  MaxActive = 2
  MaxBirths = 2
  LineageShare = 75
  MaxParallel = 1
  MaxGain = 1
  Does <- MCDoes
  MaxWarrants = 1
  MaxEpoch = 1
INVARIANTS
  TypeOK
  BirthsFit
  SlotsAreHeldByTheLiving
PROPERTIES
  ChildrenKeepTheShare
  DeathsAreAccountable
CHECK_DEADLOCK FALSE
