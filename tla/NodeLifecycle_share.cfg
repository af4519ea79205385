SPECIFICATION Spec
CONSTANTS
  Ids <- MCIds
  EmptyId = ""
  DefaultId = "user1"
  Trim <- MCTrim
  FirstId = "user1 "
  Hosts = {h1, h2}
  Ports = {p1}
  NoPort = NoPort
  SeedHost = h1
  SeedPort = NoPort
  MaxChanges = 0
  MaxDials = 0
INVARIANTS SharedIdHasProfile
