SPECIFICATION Spec
CONSTANTS
  None = None
  Callers = {c1, c2}
  InitialThreads = 2
  MaxThreads = 2
  MaxTaskCount = 1
  Limits = {}
  MaxTasks = 2
  MaxSem = 1
  Ops = {"submit", "pause", "resume", "shutdown", "terminate"}
  DestroyTerminatedOnly = FALSE
SYMMETRY CallerSymmetry
INVARIANTS
  TypeOK
  NeverThrows
  NoLostResume
  AtMostOneLateStart
PROPERTY
  ImplementsTaskService
