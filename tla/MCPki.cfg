SPECIFICATION Spec
CONSTANTS
  Listeners <- MCListeners
  AtFirst = {"axiam-server", "rabbitmq"}
  Axiam = "axiam-server"
  MaxRoots = 3
  MaxFaults = 2
INVARIANTS TypeOK OneRootAtATime DoneMeansChained
PROPERTIES RootKept
