SPECIFICATION FairSpec
CONSTANTS
  None = None
  FailAts = {None, "axiam-up", "org-bootstrap"}
  MaxFaults = 4
  TornWrites = TRUE
  ListsFail = TRUE
  MaxLeaves = 2
INVARIANTS TypeOK DoneMeansProbed NeverLockedOut
PROPERTIES Converges
