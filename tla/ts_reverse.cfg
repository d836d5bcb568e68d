SPECIFICATION Spec
CONSTANTS
  SecNum = 3
  Cap = 5
  MaxLen = 2
  Lens = {1}
  MaxTime = 4
  Garbage = {0}
  UserStatus = {}
  Rollovers = {TRUE}
  NotFormatable = FALSE
  Restarts = TRUE
  MaxClean = 0
  MaxCrash = 1
  SizeMod = 16
  DataAsTsl <- OldData
INVARIANTS ReverseComplete
