SPECIFICATION CarefulSpec
CONSTANTS
  Folders <- MCFolders
  WeightPlace <- MCWeightPlace
  HiddenCounts <- MCSmallHidden
  Details = {6}
  TwoBytes = 8
  MaxGroup = 4
  MaxClass = 2
  MaxInput = 2
  MaxHidden = 2
  None = None
INVARIANTS
  SavedWeightsReload
