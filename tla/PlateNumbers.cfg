SPECIFICATION RetrySpec
CONSTANTS
  Images <- MCImages
  Thresholds <- MCThresholds
  Usual = Usual
  Fine = Fine
  Other = Other
  Broken = Broken
  None = None
  Old = Old
  Tried = Tried
INVARIANTS
  NumbersAtHandKept
