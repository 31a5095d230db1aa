SPECIFICATION PlateSpec
CONSTANTS
  MaxBlobs <- MCMaxBlobs
  MaxSaved <- MCMaxSaved
  MinHeight <- MCMinHeight
  MaxHeight <- MCMaxHeight
  EdgeTables <- MCEdgeTables
INVARIANTS
  SearchTypeOK
  SavedInOrder
  NoneSkipped
  SameWidthFindsAll
CHECK_DEADLOCK FALSE
