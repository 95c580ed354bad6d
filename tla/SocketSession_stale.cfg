\* The call after an interrupted one.
CONSTANTS
  MaxLaunches = 1
  MaxCalls = 3
  Interrupts = TRUE
SPECIFICATION Spec
INVARIANTS
  AnswerIsToThisCall
