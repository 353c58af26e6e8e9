SPECIFICATION SceneSpec
CONSTANTS
  r1 = r1
  r2 = r2
  n1 = n1
  n2 = n2
  e1 = e1
  e2 = e2
  Req <- MCReq
  Node <- MCNode
  NoNode = NoNode
  Executor <- MCExecutor
  NoExecutor = NoExecutor
  NoReq = NoReq
  MaxCopies = 2
SYMMETRY Symmetry
INVARIANTS
  RunsOnce
  ForwardersTellTheTruth
  EnvelopesAreKept
