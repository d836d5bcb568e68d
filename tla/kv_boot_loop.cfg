SPECIFICATION FairSpec
CONSTANTS
  k1 = k1  k2 = k2  v1 = v1  v2 = v2  big = big
  Key = {k1}
  Val = {v1, v2}
  NoKey = NoKey  NoVal = NoVal
  SecNum = 2
  Cap = 7
  HdrLen = 1
  GapLen = 1
  KvLen <- LenMixed
  Threshold = 1
  GcThreshold = 1
  SecCacheSize = 2
  KvCacheSize = 1
  Defaults <- NoDefaults
  NotFormatable = FALSE
  MaxCrash = 1
PROPERTIES CallsReturn
