SPECIFICATION AllSpec
CONSTANTS
  p1 = p1
  p2 = p2
  None = None
  g1 = g1
  g2 = g2
  g3 = g3
  Intent <- MCIntent
  Game <- MCGames
  EndSeq = 1
  MaxXid = 3
  Applier <- MCIntent
  Projector <- MCIntent
  BatchSize = 2
  Projected <- MCProjected
  Breakable <- MCBreakable
  Lease = 1
  MaxCalls = 4
  MaxRotations = 1
  MaxRecoveryAttempts = 2
  MaxJoinRetries = 1
  MaxLog = 3
  MaxFaults = 1
  RefreshAttempts = 1
  FaultKinds = {"subscription", "publish", "socket", "join", "resume", "refresh", "button"}
SYMMETRY Symmetry
PROPERTIES
  ReadersFollowTheLog
  StoreIsFenced
  FeedIsTrue
CHECK_DEADLOCK FALSE
