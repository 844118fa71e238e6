CONSTANTS
  Capacities = {2}
  Lags = {1}
  LastSecond = 3
  MaxUpdates = 6
SPECIFICATION Spec
CHECK_DEADLOCK FALSE
INVARIANT CallsOfThisSecondCounted
