SPECIFICATION FairSpec
CONSTANTS
  c1 = c1
  Cells = {c1}
  Calls = {a1}
  Rids <- MCRids
  CellOf <- MCCellOf
  BookOf <- MCBookOf
  OperationOf <- MCOperationOf
  Funding <- MCFunding
  PerRequestCap = 2
  ConcurrentCap = 4
  WindowCap = 4
  Keys = {k1}
  KeyOf <- MCSameKey
  NoCall = none
  Prior <- MCNoPrior
  Estimates = {2}
  Costs <- MCCosts
  Invoices <- MCInvoices
  MirrorMultiplier = 0
  Sweepers = {w1}
PROPERTIES
  SweepingResolves
CHECK_DEADLOCK FALSE
