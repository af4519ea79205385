SPECIFICATION FairSpec
CONSTANTS
  a1 = a1
  a2 = a2
  Spelling <- MCSpelling
  OwnIds = {a1, a2}
  Peers = {b}
  NoId = NoId
  Texts = {t1}
  NoText = NoText
  Messages = {m1, m2}
  NoKey = NoKey
  NoPacket = NoPacket
  Window = 0
  MaxClock = 1
  MaxLookups = 1
  MaxPairs = 2
INVARIANTS TypeOK OnePutPerText SealMatchesHeader  UnreadableIsExplained WireIsTransparent
PROPERTIES InboxSpec EndToEndContract EverySendEnds
