\* A bad mesh after a Gaussian movement, in a periodic cell.
CONSTANTS
  Atoms = {a1}
  Periodic = {1, 2, 3}
  Edge <- MCEdge
  EdgeLength = 9
  Mobile = {1}
  Reach = 9
  SkipTol = 0
  GaussMax = 3
  FloatMax = 2
  Floating = FALSE
  Positions <- MCPositions
SPECIFICATION Spec
INVARIANT HoldsByConstruction
