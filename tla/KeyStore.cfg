SPECIFICATION Spec
CONSTANTS
  Pairs = {p1, p2, p3, p4}
  NoFile = NoFile
  NoKeys = NoKeys
  MaxFaults = 2
SYMMETRY Symmetry
INVARIANTS TypeOK OneIdentity HalvesMatch
PROPERTIES SavedIdentityIsKept
