SPECIFICATION ServerSpec
CONSTANTS
  Keys = {k1, k2}
  Values = {v1, v2}
  Absent = Absent
  Workers = {w1}
  LastBlock = 2
  NoBlock = NoBlock
  None = None
  MaxQueue = 1
  KeyBytes = 1
  BlockSize = 67108864
  InfoLimit = 1000
  FullSpace = {0, 300}
  SpareSpace <- SpareSpaces
  Reading = TRUE
  QuietStop = FALSE
  MaxRestarts = 2
SYMMETRY ServerSymmetry
CHECK_DEADLOCK FALSE
PROPERTY SavedAtExit
