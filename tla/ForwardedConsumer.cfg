SPECIFICATION Spec
CONSTANTS
  Req = {r1}
  Node = {n1}
  NoNode = NoNode
  Executor = {e1}
  NoExecutor = NoExecutor
  NoReq = NoReq
  MaxCopies = 2
INVARIANT OwnerConsumes
