SPECIFICATION Spec
CONSTANTS
  Cells = {"c1", "c2"}
  Sales = {"s1", "s2", "s3"}
  Reversals = {"v1", "v2"}
  Fees = {"f1"}
  SellerOf <- MCSellerOf
  AmountOf <- MCAmountOf
  SaleOf <- MCSaleOf
  Chargebacks = {"v2"}
  ChargeOf <- MCChargeOf
  Amounts = {2}
  Whole = 2
  ReserveTerms <- MCReserveTerms
  AdvanceTerms <- MCAdvanceTerms
  Funding <- MCFunding
  LastSale = 2
  Mortal = {"c1"}
  MaxClock = 3
INVARIANTS
  TypeOK
  ReserveCoversRefunds
  DebtIsBacked
  ProfitIsWhatIsLeft
CHECK_DEADLOCK FALSE
