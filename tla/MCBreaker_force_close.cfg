CONSTANTS
  c1 = c1
  c2 = c2
  c3 = c3
  None = None
  Callers = {c1, c2, c3}
  StateRefs = {1, 2, 3, 4, 5}
  LimiterRefs = {1, 2, 3, 4, 5}
  Configs <- OneConfig
  Factors = {1}
  AdminTargets = {"ForcedClosed"}
  ListenersRegister = FALSE
  FallbackMayPanic = FALSE
  CountWidth = 1000
  MaxTotal = 1
SPECIFICATION Spec
SYMMETRY CallerSymmetry
INVARIANT InFlightWithinLimit
