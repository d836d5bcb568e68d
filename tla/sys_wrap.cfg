SPECIFICATION FairSpec
CONSTANTS
    Task <- MCTask
    InitTask = {"main"}
    Db <- MCDb
    Kv = {"kv"}
    Offset <- MCOffset
    PartLen <- MCPartLen
    SecSize <- MCSecSize
    DevLen = 8
    EspLen = 8
    Block = 2
    Word = 16
    Lock <- MCDb
    LockMaps <- MCLockMaps
    Orderly = TRUE
    NotFormatable = FALSE
    CallbackLocks = FALSE
    Wraps = TRUE
    Addrs = {2, 15}
    Sizes = {1, 2}
    MaxOps = 1
    MaxCalls <- MCMaxCalls
INVARIANT InPartition
CHECK_DEADLOCK FALSE
