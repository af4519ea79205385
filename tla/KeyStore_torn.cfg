SPECIFICATION Spec
CONSTANTS
  Pairs = {p1, p2}
  NoFile = NoFile
  NoKeys = NoKeys
  MaxFaults = 0
INVARIANTS RunsWithAPair
