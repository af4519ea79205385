SPECIFICATION Spec
CONSTANTS
  Peers <- Twins
  NoPeer = NoPeer
  Texts = {t1}
  Folded <- MCFolded
  MaxEvents = 1
INVARIANTS EveryThreadListed
