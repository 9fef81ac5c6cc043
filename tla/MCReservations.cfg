SPECIFICATION Spec
CONSTANTS
  Cells <- MCCells
  Rids <- MCRids
  CellOf <- MCCellOf
  BookOf <- MCBookOf
  OperationOf <- MCOperationOf
  Funding <- MCFunding
  Amounts <- MCAmounts
  PerRequestCap = 2
  ConcurrentCap = 3
  WindowCap = 3
INVARIANTS
  TypeOK
  CommittedIsHeld
  ExposureWithinCap
PROPERTY ImplementsEscrow
CHECK_DEADLOCK FALSE
