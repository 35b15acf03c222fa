SPECIFICATION FairSpec
CONSTANTS
  TopicRoot = "domo"
  Names = {"domo", "s1", "s2", "a1", "a2", "w"}
  Mixed = {}
  None = None
  Accounts = {"a1", "a2"}
  Strangers = {"guest"}
  t1 = t1
  t2 = t2
  Tenants = {t1, t2}
  Slugs = {"s1", "s2"}
  Maps <- MCMaps
  Tokens <- MCLiveTokens
  Keys <- MCKeys
  ConnectForms <- MCLiveConnectForms
  CheckForms <- MCLiveCheckForms
  Requests = {r1}
  Skew = 1
  MaxExp = 1
  MaxClock = 2
  MaxWrites = 3
PROPERTIES GoodDevicesAdmitted
