\* One watcher, two attempts per RPC call.
SPECIFICATION FairSpec

CONSTANTS
    Watchers = {w1}
    ChanCap = 1
    MaxRetryTimes = 2
    MaxDocuments = 1

INVARIANTS
    TypeOK
    WaitGroupCounts
    NoneLeftBehind
PROPERTIES
    ShutdownCompletes
    PollEnds

\* The process ends.
CHECK_DEADLOCK FALSE
