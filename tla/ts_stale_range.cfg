SPECIFICATION Spec
CONSTANTS
  SecNum = 2
  Cap = 7
  MaxLen = 3
  Lens = {1, 3}
  MaxTime = 6
  Garbage = {0}
  UserStatus = {4}
  Rollovers = {TRUE}
  NotFormatable = FALSE
  Restarts = TRUE
  MaxClean = 1
  MaxCrash = 0
  SizeMod = 16
  DataAsTsl <- OldData
INVARIANTS StaleRange
