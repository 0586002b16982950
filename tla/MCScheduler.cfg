CONSTANTS
    t1 = t1  t2 = t2  t3 = t3
    Threads = {t1, t2, t3}
    FirstThread = t1
    NoThread = NoThread
    Size = 3
    MaxSleep = 2
    Faulty = {t2}
SPECIFICATION FairSpec
INVARIANT WaitersRegistered
PROPERTIES WaitersWake ZombiesReaped RunnableRuns SleepersWake
CHECK_DEADLOCK FALSE
