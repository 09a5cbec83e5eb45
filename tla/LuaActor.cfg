SPECIFICATION Spec
CONSTANTS
  MaxMessages = 3
  MaxCalls = 3
  MaxDepth = 3
INVARIANTS Anchored AnswerToAsker
CHECK_DEADLOCK FALSE
