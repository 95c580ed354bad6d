CONSTANTS
  NumRanks = 3
  NBXTag = 1
  PatternTag = 2
  GatherTag = 3
  MaxCalls = 2
  NumIndices = 3
  EmptyStarts = {1, 3}
SPECIFICATION MCSpec
INVARIANTS TypeOK PatternsPair ThrowsWhereItSays NumbersInverse PointsServed NoStrayProbe
PROPERTY JobEnds
CHECK_DEADLOCK FALSE
