SPECIFICATION Spec
CONSTANTS
  SecNum = 3
  Cap = 4
  MaxLen = 1
  Lens = {1}
  MaxTime = 5
  Garbage = {0}
  UserStatus = {}
  Rollovers = {TRUE}
  NotFormatable = FALSE
  Restarts = FALSE
  MaxClean = 0
  MaxCrash = 0
  SizeMod = 16
  DataAsTsl <- OldData
INVARIANTS ByTimeExact
