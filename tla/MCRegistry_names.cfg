CONSTANTS
  c1 = c1
  c2 = c2
  n1 = n1
  n2 = n2
  Nil = Nil
  Clients = {c1, c2}
  Names = {n1, n2}
  BreakerRefs = {1, 2, 3, 4}
  Configs <- ThreeConfigs
  AdminTargets = {"ForcedOpen", "Closed"}
SPECIFICATION Spec
SYMMETRY Symmetry
INVARIANTS TypeOK OneBreakerPerName BatchIsAtomic BatchNeverPanics GaugesShowBreaker
