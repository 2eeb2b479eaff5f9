SPECIFICATION FairSpec
CONSTANTS
  Lookups = {g1, g2}
  Readers = {g1}
  Order <- ServiceFirst
  MaxFaults = 3
INVARIANTS
  TypeOK
  ReaderHasDrive
  NoMountLeft
  AnswerIsThere
PROPERTIES
  LookupsEnd
  VolumesPlaced
  DriveFillsCache
CHECK_DEADLOCK FALSE
