SPECIFICATION Spec
CONSTANTS
  Keys = {k1, k2}
  Values = {v1, v2}
  Absent = Absent
  Workers = {w1, w2}
  LastBlock = 2
  NoBlock = NoBlock
  None = None
  MaxQueue = 2
SYMMETRY StorageSymmetry
CHECK_DEADLOCK FALSE
INVARIANT FlushedIsFound
