SPECIFICATION FairSpec
CONSTANTS
  MaxProcs = 2
  MaxJobs = 2
  FirstCapacity = 1
  MaxStages = 2
  ExitCodes = {0}
  Pipefail = FALSE
PROPERTY PromptReturns
CHECK_DEADLOCK FALSE
