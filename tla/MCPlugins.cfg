SPECIFICATION Spec
CONSTANTS
  Libs = {p, q}
  NoLib = NoLib
  MaxName = 4
  Builtins = {2, 3}
  MaxPlugins = 2
  MaxEntries = 3
  MaxDepth = 1
  MaxCalls = 1
  Offered <- MCOffered
INVARIANTS FindExact OpenCount CallableLoaded CacheFresh
CHECK_DEADLOCK FALSE
