SPECIFICATION Spec
CONSTANTS
  ClassNames = {"A", "B", "C", "D"}
  Definitions <- MCDefinitions
  MaxClasses = 4
  MaxInstances = 3
  FirstCapacity = 2
  MaxId = 4
INVARIANTS Hierarchy DefaultsAsLookedUp InstancesInStep
CHECK_DEADLOCK FALSE
