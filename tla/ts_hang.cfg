SPECIFICATION FairSpec
CONSTANTS
  SecNum = 3
  Cap = 5
  MaxLen = 2
  Lens = {1}
  MaxTime = 3
  Garbage = {0}
  UserStatus = {}
  Rollovers = {TRUE}
  NotFormatable = FALSE
  Restarts = FALSE
  MaxClean = 0
  MaxCrash = 2
  SizeMod = 16
  DataAsTsl <- OldData
PROPERTIES CallsReturn
