SPECIFICATION Spec
CONSTANTS
  MaxFd = 10
  Written <- Mixed
  Paths = {"a", "b"}
  MaxRedirections = 2
  MaxCommands = 2
  MaxDepth = 2
INVARIANTS ShellKeeps ProgramSees WrittenOnce InnermostInput
CHECK_DEADLOCK FALSE
