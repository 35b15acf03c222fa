SPECIFICATION Spec
CONSTANTS
  None = None
  t1 = t1
  t2 = t2
  Tenants = {t1, t2}
  Maps <- MCMaps
  Workers = {w1, w2}
  MaxNow = 4
  MaxReloads = 5
SYMMETRY MCSymmetry
INVARIANTS TypeOK CalmRegistryCurrent ReloadsBounded
