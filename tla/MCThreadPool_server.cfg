SPECIFICATION FairSpec
CONSTANTS
  None = None
  Callers = {c1, c2}
  InitialThreads = 2
  MaxThreads = 2
  MaxTaskCount = 1
  Limits = {}
  MaxTasks = 2
  MaxSem = 0
  Ops = {"submit", "shutdown", "wait", "destroy"}
  DestroyTerminatedOnly = TRUE
INVARIANT
  NoSleeperBesideTask
PROPERTIES
  TasksFinish
  DrainReturns
  DestructorReturns
