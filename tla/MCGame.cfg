SPECIFICATION AllSpec
CONSTANTS
  f1 = f1
  p1 = p1
  c1 = c1
  c2 = c2
  Nobody = Nobody
  s1 = s1
  NoSeek = NoSeek
  ann = ann
  bob = bob
  Call <- MCCall
  Player <- MCPlayer
  Seek <- MCSeek
  MaxGames = 2
  Grace = 0
  Ttl = 1
  Drift = 0
  MaxTime = 2
  MaxRows = 3
  MaxResets = 1
  Person <- MCPerson
  MaxRequests = 2
  MaxMessages = 1
  TimeControls <- AllKinds
  Sources <- AllSources
  NoShowAfter = 2
  NoSide = NoSide
  FlagWorker <- MCFlagWorker
  NoShowWorker <- MCNoShowWorker
  Skew = 1
  MaxNow = 6
  MaxSeq = 4
SYMMETRY Symmetry
INVARIANTS
  TypeOK
  FlagRowIsDeadline
  PregameRowIsDeadline
  DeadlineIsFirstFlag
  CreationIsCoordinated
PROPERTIES
  DeadlineDecides
  EndedStaysEnded
  SessionsAreSound
  RelationsHold
CHECK_DEADLOCK FALSE
