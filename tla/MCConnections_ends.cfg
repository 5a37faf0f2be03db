SPECIFICATION FairSpec
CONSTANTS
  Clients <- TwoClients
  Backlog = 1
  Workers = 1
  MaxTasks = 1
  CountEvery = 2
  MaxRequests = 2
  MaxSignals = 2
CHECK_DEADLOCK FALSE
INVARIANTS
  TypeOK
  ReplyTruth
  StartedBeforeSave
  ServerSurvives
PROPERTIES
  EveryRequestAnswered
  
