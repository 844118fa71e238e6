CONSTANTS
  c1 = c1
  c2 = c2
  c3 = c3
  NoOne = NoOne
  Callers = {c1, c2, c3}
  Factors = {0, 1, 2, 3}
  Size = 2
  maxWaitDuration = 5
  CountWidth = 4
SPECIFICATION FairSpec
INVARIANTS TypeOK TokensConserved QueueIsTheWaiting NoWaiterLeftAsleep CountDriftsByFailuresOnly
PROPERTIES FirstComeFirstServed EveryWaiterIsServed ImplementsConcurrencyLimiter
