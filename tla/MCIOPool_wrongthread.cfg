SPECIFICATION FairSpec
CONSTANTS
  None = None
  NumThreads = 2
  Targets = {0, 1}
  Submitters = {s1}
  MaxTasks = 1
PROPERTIES
  TasksRun
