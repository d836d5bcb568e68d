SPECIFICATION FairSpec
CONSTANTS
  SecNum = 3
  Cap = 5
  MaxLen = 2
  Lens = {1, 2}
  MaxTime = 8
  Garbage = {0}
  UserStatus = {}
  Rollovers = {TRUE}
  NotFormatable = FALSE
  Restarts = TRUE
  MaxClean = 1
  MaxCrash = 0
  SizeMod = 16
  DataAsTsl <- OldData
INVARIANTS TypeOK Ordered CurAgrees EndNodesRight
PROPERTIES Atomic LaterOnly RefusedForReason FormatsBlankOnly CallsReturn
