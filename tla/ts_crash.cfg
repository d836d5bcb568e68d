SPECIFICATION FairSpec
CONSTANTS
  SecNum = 3
  Cap = 5
  MaxLen = 2
  Lens = {1}
  MaxTime = 4
  Garbage = {0, 4}
  UserStatus = {}
  Rollovers = {TRUE}
  NotFormatable = FALSE
  Restarts = TRUE
  MaxClean = 0
  MaxCrash = 1
  SizeMod = 16
  DataAsTsl <- OldData
INVARIANTS CurAgrees EndNodesRight LogsFit HasCurrent
PROPERTIES Atomic LaterOnly CallsReturn
