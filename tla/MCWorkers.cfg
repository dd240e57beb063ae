\* Three threads and two workers.
SPECIFICATION FairSpec
CONSTANTS
    t1 = t1
    t2 = t2
    t3 = t3
    None = None
    Threads = {t1, t2, t3}
    InputThreads = {t3}
    NumWorkers = 2
    PoolSizes = {2}
    Scenarios <- Enough
INVARIANTS PoolTypeOK OwnResult PoolKept
PROPERTY PoolCallsReturn
CHECK_DEADLOCK FALSE
