\* As many receives as there are workers: the send that would end them finds none.
SPECIFICATION FairSpec
CONSTANTS
    t1 = t1
    t2 = t2
    t3 = t3
    None = None
    Threads = {t1, t2, t3}
    InputThreads = {t3}
    NumWorkers = 2
    PoolSizes = {2}
    Scenarios <- TwoReceives

PROPERTY PoolCallsReturn
CHECK_DEADLOCK FALSE
