SPECIFICATION FairSpec
CONSTANTS
    Task <- MCTask
    InitTask = {"main"}
    Db <- MCDb
    Kv = {"kv"}
    Offset <- MCOffset
    PartLen <- MCPartLen
    SecSize <- MCSecSize
    DevLen = 8
    EspLen = 8
    Block = 2
    Word = 16
    Lock <- MCDb
    LockMaps <- MCLockMaps
    Orderly = FALSE
    NotFormatable = FALSE
    CallbackLocks = FALSE
    Wraps = FALSE
    Addrs = {2, 3}
    Sizes = {1, 2}
    MaxOps = 1
    MaxCalls <- MCMaxCalls
INVARIANT SectionsExclude
CHECK_DEADLOCK FALSE
