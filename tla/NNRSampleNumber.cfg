SPECIFICATION Spec
CONSTANTS
  One = One
  Two = Two
  None = None
  MaxGroups <- MCMaxGroups
  MaxShape <- MCMaxShape
INVARIANT SampleNumberValid
CHECK_DEADLOCK FALSE
