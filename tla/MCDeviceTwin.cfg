SPECIFICATION Spec
CONSTANTS
  TopicRoot = "domo"
  Names = {"domo", "s1", "s2", "a1", "a2", "w"}
  Mixed = {}
  None = None
  Accounts = {"a1", "a2"}
  Strangers = {"guest"}
  t1 = t1
  t2 = t2
  Tenants = {t1, t2}
  Slugs = {"s1", "s2"}
  Maps <- MCMaps
  Tokens <- MCTokens
  Keys <- MCKeys
  ConnectForms <- MCConnectForms
  CheckForms <- MCCheckForms
  Requests = {r1, r2}
  Skew = 1
  MaxExp = 1
  MaxClock = 1
  MaxWrites = 1
SYMMETRY MCSymmetry
INVARIANTS TypeOK EvidenceBacked NoSharedTopics
PROPERTIES OnlyAllowedConnectsCache KeepsAuthority
