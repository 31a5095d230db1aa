SPECIFICATION CarefulSpec
CONSTANTS
  Folders <- MCFolders
  WeightPlace <- MCWeightPlace
  HiddenCounts <- MCHidden
  Details = {6}
  TwoBytes = 8
  MaxGroup = 4
  MaxClass = 2
  MaxInput = 2
  MaxHidden = 2
  None = None
INVARIANTS
  SamplesAreTheFolders
  LoadsIffFinished
  NamesOfSamples
  OneHiddenRestored
  TruncatedRefused
