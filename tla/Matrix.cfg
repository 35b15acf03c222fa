SPECIFICATION Spec
CONSTANTS
  None = None
  Lifetimes = {300, 900, 1800}
  MaxMissing = 2
  MaxFaults = 1
INVARIANTS
  TypeOK
  PassMeansEnforced
  FailMeansFault
