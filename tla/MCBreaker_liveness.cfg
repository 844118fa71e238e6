CONSTANTS
  c1 = c1
  c2 = c2
  c3 = c3
  None = None
  Callers = {c1, c2}
  StateRefs = {1, 2, 3, 4}
  LimiterRefs = {1, 2, 3, 4}
  Configs <- LivenessConfigs
  Factors = {1}
  AdminTargets = {}
  ListenersRegister = TRUE
  FallbackMayPanic = FALSE
  CountWidth = 1000
  MaxTotal = 2
SPECIFICATION FairSpec
PROPERTIES OpenEnds SemiOpenEnds
