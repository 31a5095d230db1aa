\* MAX_EDGE_LINES is 100000: three lines let the table run full.
SPECIFICATION Spec
CONSTANTS
  Rows = 8
  Cols = 7
  Images <- MCImages
  MaxLines = 3
  MinCharHeight = 2
  MaxCharHeight = 6
CHECK_DEADLOCK FALSE
INVARIANTS
  BoxIsTight
  PixelsCovered
PROPERTIES
  ImplementsLabelling
