SPECIFICATION Spec
CONSTANTS
  MaxProcs = 3
  MaxJobs = 2
  FirstCapacity = 1
  MaxStages = 2
  ExitCodes = {0, 3}
  Pipefail = TRUE
INVARIANTS TypeOK IdsAscend TtyOwner NeverStuck TableExact ExitStatusKept
PROPERTIES ForgetsOnlyTheDead PipelineStatus JobsLive
CHECK_DEADLOCK FALSE
