SPECIFICATION Spec
CONSTANTS
  SecNum = 3
  Cap = 5
  MaxLen = 2
  Lens = {1, 2}
  MaxTime = 5
  Garbage = {0}
  UserStatus = {}
  Rollovers = {FALSE}
  NotFormatable = FALSE
  Restarts = TRUE
  MaxClean = 0
  MaxCrash = 0
  SizeMod = 16
  DataAsTsl <- OldData
INVARIANTS HasCurrent
