SPECIFICATION Spec
CONSTANTS
  Kinds = {"service", "device"}
  MaxMade = 3
  MaxCerts = 4
  MaxFaults = 3
INVARIANTS TypeOK DoneMeansBound HalvesAgree LeavesOwed
