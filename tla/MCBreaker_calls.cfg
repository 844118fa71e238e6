CONSTANTS
  c1 = c1
  c2 = c2
  c3 = c3
  None = None
  Callers = {c1, c2, c3}
  StateRefs = {1, 2, 3, 4, 5}
  LimiterRefs = {1, 2, 3, 4, 5}
  Configs <- CallsConfigs
  Factors = {1}
  AdminTargets = {}
  ListenersRegister = FALSE
  FallbackMayPanic = FALSE
  CountWidth = 1000
  MaxTotal = 2
SPECIFICATION Spec
SYMMETRY CallerSymmetry
INVARIANTS TypeOK PermitsConserved SemiOpenNeverWedged InFlightWithinLimit
PROPERTY SemiOpenDecidesOnItsCalls
