SPECIFICATION FairSpec
CONSTANTS
  c1 = c1
  t1 = t1
  t2 = t2
  CellOrder <- OneCell
  MaxEpoch = 1
  Ticks = {t1, t2}
  Setups <- MCSetups
  MaxRevisions = 1
  Costs = {1}
  Lefts = {"little", "enough"}
  AlarmAt = 1
  Acceleration = 1
  BaselineEpochs = 1
INVARIANT TypeOK
PROPERTIES
  DeliberationsStay
  AffordableWakesRun
CHECK_DEADLOCK FALSE
