SPECIFICATION Spec
CONSTANTS
  None = None
  Torn = Torn
  Stale = Stale
  lakeside = lakeside
  r1 = r1
  r2 = r2
  Runs = {r1, r2}
  Demo = {lakeside}
  Reserved = "organization"
  Catalogs <- MCCatalogs
  Wild = "*"
  Hand = "byHand"
  MaxRoots = 2
  MaxFaults = 1
SYMMETRY MCSymmetry
INVARIANTS TypeOK AloneKept DoneMeansReady CAsTrusted
