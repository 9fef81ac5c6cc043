SPECIFICATION Spec
CONSTANTS
  Arms <- MCArms
  Drills <- MCDrills
  Population = 2
  Epochs = 4
  Slots = 1
  MaxLiving = 4
  MaxBirths = 2
  LineageShare = 75
  FloodLimit = 1
  ShiftAt = 2
  MinTries = 2
  TopNiches = 1
  Fraction = 30
  Sliver = 5
  Calls <- MCCalls
  Segments = {1}
  Offers = {0, 1}
  Styles = {0, 1}
  Prices = {300, 450}
  Noise <- MCNoise
  MaxBorn = 4
INVARIANTS
  EveryCellMayExperiment
PROPERTIES
  NobodyIsOvertakenTwice
CHECK_DEADLOCK FALSE
