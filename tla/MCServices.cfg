SPECIFICATION AllSpec
CONSTANTS
  j1 = j1
  a1 = a1
  w1 = w1
  w2 = w2
  w3 = w3
  w4 = w4
  w5 = w5
  NoJob = NoJob
  e1 = e1
  e2 = e2
  e3 = e3
  e4 = e4
  home = home
  away = away
  c1 = c1
  c2 = c2
  c3 = c3
  f1 = f1
  f2 = f2
  Nothing = Nothing
  None = None
  x1 = x1
  Play <- MCPlay
  Analysis <- MCAnalysis
  Worker <- MCWorker
  MinWorkers = 1
  MaxWorkers = 1
  Capacity = 1
  MaxAttempts = 2
  FailureThreshold = 2
  MaxEngineFaults = 2
  Process <- MCProcess
  Caller <- MCCaller
  CallerProcess <- MCCallerProcess
  Wants <- MCWants
  Limit <- MCLimit
  Flight <- MCFlight
  Entry <- MCEntry
  Priority <- MCPriority
  CapacityPerClass = 2
  AgingMs = 1
  MaxNow = 3
  Player <- MCPlayer
  Expiry <- MCExpiry
  MaxClaims = 2
  MaxLives = 3
  MaxLog = 3
  MaxFaults = 1
INVARIANTS
  QueueIsWaiting
PROPERTIES
  PoolKeepsItsLimits
  ServiceIsFair
  AnalysesAreShared
  RoutingIsCurrent
CHECK_DEADLOCK FALSE
