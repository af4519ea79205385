SPECIFICATION FairSpec
CONSTANTS
  Ids <- MCIds
  EmptyId = ""
  DefaultId = "user1"
  Trim <- MCTrim
  FirstId = "user1 "
  Hosts = {h1, h2}
  Ports = {p1}
  NoPort = NoPort
  SeedHost = h1
  SeedPort = p1
  MaxChanges = 3
  MaxDials = 1
INVARIANTS TypeOK OneLifecycleThread UiTargetOutlivesThreads NoThreadOverwritten
  DhtOutlivesLoop SessionIdentity RestartTakesEffect
PROPERTIES SessionSpec OnlyEarlyRefreshMisleads CloseCompletes ChangeCompletes
