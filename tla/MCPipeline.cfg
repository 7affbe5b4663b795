SPECIFICATION Spec
CONSTANTS
  Sources <- MCSources
  Texts <- MCTexts
  PathTexts <- MCPaths
  Items <- MCItems
  Blocks <- MCBlocks
  MaxSteps = 2
  MaxPathSegments = 3
  MaxJsonDepth = 2
  MaxCols = 2
  MaxRows = 3
  MaxName = 2
  MaxPiece = 6
  MaxOutput = 40
INVARIANTS SelectsAndSorts GroupsPartition PathsExact RoundTrips BindingsKept
CHECK_DEADLOCK FALSE
