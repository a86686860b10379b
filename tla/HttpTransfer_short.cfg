SPECIFICATION Spec
CONSTANTS
  Responses <- Answers
  Defaults = {0, 2}
  StoreLimit = 2
  ProgressParts = 2
INVARIANT AlwaysReturns
CHECK_DEADLOCK FALSE
