SPECIFICATION Spec
CONSTANTS
  Rows = 10
  Cols = 10
  Pieces <- MCPieces
  Limit = 2
  Long = 3
  MinX = 5
  MaxX = 9
  MinY = 5
  MaxY = 9
  SameRows = 6
  SameCols = 6
  None = None
CHECK_DEADLOCK FALSE
INVARIANTS
  TablesHold
  FollowedOrStale
  ThinLineWhole
