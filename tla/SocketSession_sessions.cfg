\* Scripts and notebooks, over engines that die at any point.
CONSTANTS
  MaxLaunches = 2
  MaxCalls = 3
  Interrupts = TRUE
SPECIFICATION MCSpec
INVARIANTS
  TypeOK
  AnswerIsToThisCallOnceClosed
  ScriptsReleaseAll
PROPERTIES
  IsScriptsRemoteCall
  AnswersAdvance
  CallsReturn
  EnginesEnd
