SPECIFICATION Spec
CONSTANTS
  SecNum = 3
  Cap = 5
  MaxLen = 5
  Lens = {5}
  MaxTime = 5
  Garbage = {0}
  UserStatus = {}
  Rollovers = {TRUE}
  NotFormatable = FALSE
  Restarts = TRUE
  MaxClean = 0
  MaxCrash = 0
  SizeMod = 16
  DataAsTsl <- OldData
INVARIANTS LogsFit
