SPECIFICATION AllSpec
CONSTANTS
  p1 = p1
  p2 = p2
  None = None
  LastId = 2
  Void <- MCVoid
  Poison <- MCPoison
  Worker <- MCWorker
  Lease = 2
  RetryBase = 1
  RetryCap = 2
  MaxFailures = 2
  OlderPage = 1
  ForwardPage = 2
  Timely = FALSE
  MaxFaults = 2
  Process <- MCWorker
  NoGame = NoGame
  Tries = 2
  MaxSlot = 1
  Legacy = FALSE
  MaxOrders = 2
  MaxRefusals = 1
SYMMETRY Symmetry
PROPERTIES
  InboxIsFenced
  TournamentIsSound
  LaunchIsOnce
  ArenaIsSound
CHECK_DEADLOCK FALSE
