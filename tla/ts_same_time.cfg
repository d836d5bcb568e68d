SPECIFICATION Spec
CONSTANTS
  SecNum = 3
  Cap = 5
  MaxLen = 2
  Lens = {1, 2}
  MaxTime = 5
  Garbage = {0}
  UserStatus = {}
  Rollovers = {TRUE}
  NotFormatable = FALSE
  Restarts = TRUE
  MaxClean = 0
  MaxCrash = 2
  SizeMod = 16
  DataAsTsl <- OldData
PROPERTIES LaterOnly
