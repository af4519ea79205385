SPECIFICATION FairSpec
CONSTANTS
  Ids = {a, b}
  LocalIds = {a, b}
  Messages = {m1, m2}
  Keys = {k1}
  NoKey = NoKey
  NoPacket = NoPacket
  Window = 0
  MaxSkew = 1
  MaxClock = 1
  MaxLookups = 2
INVARIANTS TypeOK AtMostOnce RecordsAgree
PROPERTIES ShownUnderItsAddress ContractSpec EveryMessageIsJudged
