SPECIFICATION Spec
CONSTANTS
  k1 = k1  k2 = k2  v1 = v1  v2 = v2  big = big
  Key = {k1}
  Val = {v1}
  NoKey = NoKey  NoVal = NoVal
  SecNum = 3
  Cap = 5
  HdrLen = 1
  GapLen = 1
  KvLen <- LenUniform
  Threshold = 1
  GcThreshold = 1
  SecCacheSize = 2
  KvCacheSize = 1
  Defaults <- NoDefaults
  NotFormatable = FALSE
  MaxCrash = 1
PROPERTIES OldestFound
