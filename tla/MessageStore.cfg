SPECIFICATION Spec
CONSTANTS
  Messages = {m1, m2, m3}
  NotUtf8 = {m3}
  NoMessage = NoMessage
  NoFile = NoFile
  Torn = Torn
  MaxLength = 4
  MaxFaults = 2
INVARIANTS TypeOK NoDuplicates SavedIsKept
PROPERTIES LogSpec
