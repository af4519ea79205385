SPECIFICATION Spec
CONSTANTS
  Ids <- MCIds
  EmptyId = ""
  DefaultId = "user1"
  Trim <- MCTrim
  FirstId = "user1"
  Hosts = {h1, h2}
  Ports = {p1}
  NoPort = NoPort
  SeedHost = h1
  SeedPort = p1
  MaxChanges = 2
  MaxDials = 0
INVARIANTS LastRequestWins
