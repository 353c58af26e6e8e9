SPECIFICATION Spec
CONSTANTS
  create = create
  c1 = c1
  s1 = s1
  s2 = s2
  Foreign = Foreign
  NoCmd = NoCmd
  NoSlot = NoSlot
  r1 = r1
  n1 = n1
  e1 = e1
  NoNode = NoNode
  NoExecutor = NoExecutor
  NoReq = NoReq
  f1 = f1
  p1 = p1
  NoSide = NoSide
  j1 = j1
  j2 = j2
  w1 = w1
  w2 = w2
  w3 = w3
  NoJob = NoJob
  home = home
  a1 = a1
  a2 = a2
  g1 = g1
  g2 = g2
  None = None
  solo = solo
PROPERTIES
  CommandsAnswered
  OverdueGameEnds
  EngineAnswers
  ClientsCatchUp
  ScansReachEverything
CHECK_DEADLOCK FALSE
