SPECIFICATION Spec
CONSTANTS
  Systems <- MCOpenSystems
  ComputeForces = TRUE
  ComputeStress = FALSE
  Overrides <- MCStressOn
  Missing = Missing
  Empty = Empty
  Never = Never
  NoAtoms = NoAtoms
  NoShift = NoShift
  NoEngine = NoEngine
  DeadEngine = DeadEngine
INVARIANTS
  TypeOK
  PlacedAnswersMatch
  ResultsBelongTogether
