\* Three rows instead of 20: the ring wraps in the second epoch.
SPECIFICATION Spec
CONSTANTS
  Classes = 2
  Groups = 2
  MomNum = 3
  RandMax = 2
  Errors <- MCErrors
  One = One
  Two = Two
  MaxEpochs = 3
INVARIANTS
  EveryClassOnce
  RingHoldsLastCalls
  ReportIsOfThisEpoch
PROPERTIES
  TickEnds
