SPECIFICATION Spec
CONSTANTS
  c1 = c1
  Cells = {c1}
  Calls = {a1, a2}
  Rids <- MCRids
  CellOf <- MCCellOf
  BookOf <- MCBookOf
  OperationOf <- MCOperationOf
  Funding <- MCFunding
  PerRequestCap = 2
  ConcurrentCap = 4
  WindowCap = 4
  Keys = {k1}
  KeyOf <- MCSameKey
  NoCall = none
  Prior <- MCNoPrior
  Estimates = {2}
  Costs <- MCCosts
  Invoices <- MCInvoices
  MirrorMultiplier = 1
  Sweepers = {w1}
SYMMETRY MCSymmetry
INVARIANTS
  TypeOK
  ChargeIsTrue
  BilledIsNeverForgiven
  KeyPaidOnce
PROPERTY OutcomesStay
CHECK_DEADLOCK FALSE
