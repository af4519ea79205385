SPECIFICATION FairSpec
CONSTANTS
  Peers <- Distinct
  NoPeer = NoPeer
  Texts = {t1, t2, t3}
  Folded <- MCFolded
  MaxEvents = 2
INVARIANTS TypeOK ScreenIsActiveThread ReceivedInOrder EveryThreadListed
PROPERTIES ThreadsOnlyGrow MessagesAreRecorded
