SPECIFICATION Spec
CONSTANTS
  MaxProcs = 3
  MaxJobs = 2
  FirstCapacity = 1
  MaxStages = 2
  ExitCodes = {0}
  Pipefail = FALSE
PROPERTY StoppedIsListed
CHECK_DEADLOCK FALSE
