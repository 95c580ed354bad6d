\* Three ranks, two exchanges in a release and in a debug build, up to one
\* target each.
CONSTANTS
  Ranks = {r1, r2, r3}
  MaxRounds = 2
  DebugBuild = FALSE
  Degree = 1
  TargetSets <- MCTargetSets
SPECIFICATION MCSpec
INVARIANTS
  TypeOK
  RequestersExact
  NoSecondMessage
PROPERTY ExchangesEnd
