SPECIFICATION Spec
CONSTANTS
  Ids = {a, b}
  LocalIds = {a, b}
  Messages = {m1}
  Keys = {k1, k2}
  NoKey = NoKey
  NoPacket = NoPacket
  Window = 0
  MaxSkew = 0
  MaxClock = 1
  MaxLookups = 2
INVARIANTS ReplayMeansShown
