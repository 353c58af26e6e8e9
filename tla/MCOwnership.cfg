SPECIFICATION Spec
CONSTANTS
  n1 = n1
  n2 = n2
  Node <- MCNode
  NoNode = NoNode
  LeaseTtl = 3
  RenewalInterval = 1
  Second = 1
  Skew = 1
  MaxTime = 3
  MaxClaims = 2
  MaxPending = 2
SYMMETRY NodeSymmetry
INVARIANTS
  TypeOK
  LeaseIsBackedByRedis
  NoSplitBrain
  ReleaseIsFinal
PROPERTIES
  TicketNeverRevives
