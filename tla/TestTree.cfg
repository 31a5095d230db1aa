SPECIFICATION Spec
CONSTANTS
  Root = Root
  FailFolder = FailFolder
  Deep = Deep
  Folders <- MCFolders
  Parent <- MCParent
  Fail <- MCFail
  Images = {a, b}
  None = None
  MaxTexts = 2
  MaxCount = 1
SYMMETRY MCSymmetry
INVARIANTS
  EveryImageOnce
  ResultsAreTested
  TotalsAreTheLines
PROPERTIES
  ResultsKept
