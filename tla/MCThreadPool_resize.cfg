SPECIFICATION Spec
CONSTANTS
  None = None
  Callers = {c1, c2}
  InitialThreads = 1
  MaxThreads = 2
  MaxTaskCount = 1
  Limits = {2}
  MaxTasks = 4
  MaxSem = 1
  Ops = {"submit", "add_thread", "remove_thread", "set_max_task_count", "shutdown", "destroy"}
  DestroyTerminatedOnly = TRUE
SYMMETRY CallerSymmetry
INVARIANTS
  QueueLimit
  TasksAccounted
  ShutdownDrains
  NoOrphans
