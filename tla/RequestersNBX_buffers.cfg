\* Receives that finish() does not wait for.
CONSTANTS
  Ranks = {r1, r2, r3}
  MaxRounds = 1
  DebugBuild = FALSE
  Degree = 2
  TargetSets <- MCTargetSets
SPECIFICATION MCSpec
INVARIANT NoReceiveIntoFreedBuffer
