SPECIFICATION Spec
CONSTANTS
  Systems <- MCCrystals
  ComputeForces = TRUE
  ComputeStress = FALSE
  Overrides <- MCNoOverrides
  Missing = Missing
  Empty = Empty
  Never = Never
  NoAtoms = NoAtoms
  NoShift = NoShift
  NoEngine = NoEngine
  DeadEngine = DeadEngine
INVARIANTS
  OnlyComputedIsReported
