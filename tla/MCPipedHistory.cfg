SPECIFICATION Spec
CONSTANTS
  Char <- Characters
  Typed <- Letters
  Files <- Histories
  Candidates <- Names
  OtherEntries <- Elsewhere
  MaxLine = 5
  MaxMulti = 7
  MaxHistory = 2
  MaxKeys = 5
  MaxStarts = 2

PROPERTY PipedNeverWrites
CHECK_DEADLOCK FALSE
