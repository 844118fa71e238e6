CONSTANTS
  c1 = c1
  c2 = c2
  c3 = c3
  None = None
  Callers = {c1, c2}
  StateRefs = {1, 2, 3, 4}
  LimiterRefs = {1, 2, 3, 4}
  Configs <- TimeoutConfigs
  Factors = {1}
  AdminTargets = {"ForcedClosed", "Closed", "ForcedOpen"}
  ListenersRegister = FALSE
  FallbackMayPanic = FALSE
  CountWidth = 1000
  MaxTotal = 1
SPECIFICATION Spec
SYMMETRY CallerSymmetry
INVARIANT PermitsConserved
PROPERTIES AutomaticStepsFollowTheTable CallsHoldInstalledStates ImplementsStateMachine
