\* Two atoms on a line through a periodic cell, where one atom's move decides
\* whether the other one is wrapped; a slab of one atom whose driver drifts two
\* lattice vectors from the cell; and the two atoms with floating charges.
CONSTANTS
  Atoms = {a1, a2}
  Periodic = {1, 2, 3}
  Edge <- MCEdge
  EdgeLength = 5
  Mobile = {1}
  Reach = 2
  SkipTol = 0
  GaussMax = 2
  FloatMax = 2
  Floating = FALSE
  Positions <- MCPositions
  SlabAtoms = {b1}
  SlabEdge = 4
  SlabReach = 7
SPECIFICATION MCSpec
SYMMETRY MCSymmetry
INVARIANTS
  TypeOK
  AnswersRequestedGeometry
  MeshFollowsAtoms
  UpdateNeverOutside
  OtherSystemsFollow
PROPERTIES
  SmallStepStaysSmall
