SPECIFICATION Spec
CONSTANTS
  SecNum = 2
  Cap = 5
  MaxLen = 2
  Lens = {1, 2}
  MaxTime = 4
  Garbage = {0}
  UserStatus = {}
  Rollovers = {TRUE, FALSE}
  NotFormatable = FALSE
  Restarts = TRUE
  MaxClean = 1
  MaxCrash = 2
  SizeMod = 16
  DataAsTsl <- OldData
INVARIANTS OneUsing
