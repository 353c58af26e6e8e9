SPECIFICATION AllSpec
CONSTANTS
  create = create
  c1 = c1
  c2 = c2
  s1 = s1
  s2 = s2
  Cmd <- MCCmd
  Creation <- MCCreation
  Slot <- MCSlot
  Foreign = Foreign
  NoCmd = NoCmd
  NoSlot = NoSlot
  MaxJobs = 2
  MaxLifecycle = 3
  MaxForeign = 1
  Parts = {"authority", "board"}
SYMMETRY CmdSymmetry
CHECK_DEADLOCK FALSE
INVARIANTS
  OneQueue
  RecordIsLogPrefix
  OnlyTheLogIsShown
  EvictionFences
  RulesHold
PROPERTIES
  CallersArePromised
