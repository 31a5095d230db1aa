\* Every user; `conduct` tells a careful one.
SPECIFICATION FairSpec
CONSTANTS
  One = One
  Two = Two
  None = None
  MaxGroups <- MCMaxGroups
  MaxShape <- MCMaxShape
INVARIANTS
  TypeOK
  OneTraining
  NetworkNotLost
  NoCrash
  SizesMatchSamples
PROPERTIES
  StopTakesEffect
CHECK_DEADLOCK FALSE
