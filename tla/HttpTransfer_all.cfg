SPECIFICATION FairSpec
CONSTANTS
  Responses <- Answers
  Defaults = {0, 2}
  StoreLimit = 2
  ProgressParts = 2
INVARIANTS TypeOK DeliversContent
PROPERTY TransferEnds
CHECK_DEADLOCK FALSE
