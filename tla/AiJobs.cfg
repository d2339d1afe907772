SPECIFICATION AiSpec
CONSTANTS
  Jobs = {1, 2}
  Prefetch = 2
  MaxFaults = 1
  MaxPolls = 1
  Outlives = FALSE
  MaxRunning = 2
INVARIANTS  JobsKept
PROPERTIES QuestionsSettle
CHECK_DEADLOCK FALSE
