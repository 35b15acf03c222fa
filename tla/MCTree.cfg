SPECIFICATION Spec
CONSTANTS
  None = None
  r1 = r1
  r2 = r2
  Runs = {r1, r2}
  Root = "portfolio"
  Branch <- MCBranch
  Parent <- MCParent
  Depth <- MCDepth
  Roles <- MCRoles
  MaxMade = 6
  MaxFaults = 2
SYMMETRY MCSymmetry
INVARIANTS TypeOK NothingDangles AloneUnambiguous DoneMeansBuilt
