CONSTANTS
  Capacities = {1, 2, 3}
  Lags = {0}
  LastSecond = 5
  MaxUpdates = 4
SPECIFICATION Spec
CHECK_DEADLOCK FALSE
INVARIANTS TypeOK TotalIsSumOfRing RecentCallsCounted
PROPERTY TotalsMoveAsBreakerAssumes
