SPECIFICATION Spec
CONSTANTS
  None = None
  NumThreads = 3
  Targets = {0, 1, 2, 5}
  Submitters = {s1, s2}
  MaxTasks = 2
SYMMETRY SubmitterSymmetry
INVARIANTS
  TypeOK
  DestroyedDrained
  StopReachesThread0
PROPERTIES
  ImplementsBlockIO
