SPECIFICATION AllSpec
CONSTANTS
  create = create
  c1 = c1
  c2 = c2
  s1 = s1
  s2 = s2
  Cmd <- MCOneCommand
  Creation <- MCCreation
  Slot <- MCSlot
  Foreign = Foreign
  NoCmd = NoCmd
  NoSlot = NoSlot
  MaxJobs = 2
  MaxLifecycle = 2
  MaxForeign = 1
  Parts = {"authority"}
CHECK_DEADLOCK FALSE
PROPERTIES
  ReloadKeepsItsMark
