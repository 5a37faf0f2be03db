SPECIFICATION ServerSpec
CONSTANTS
  Keys = {k1, k2}
  Values = {v1, v2}
  Absent = Absent
  Workers = {w1}
  LastBlock = 2
  NoBlock = NoBlock
  None = None
  MaxQueue = 1
  KeyBytes = 1
  BlockSize = 67108864
  InfoLimit = 100
  FullSpace = {0, 300}
  SpareSpace = {70000000}
  Reading = FALSE
  QuietStop = TRUE
  MaxRestarts = 2
SYMMETRY ServerSymmetry
CHECK_DEADLOCK FALSE
INVARIANTS
  ServerTypeOK
  PersistedOnDisk
  ReadsBack
  FileMapsAlike
  MappedBlocksUsed
PROPERTIES
  
  SavedAtExit
