CONSTANTS
    t3 = t3
    w1 = w1  w2 = w2
    large = large
    NoKey = NoKey
    Threads = {t1, t2, t3}
    Keys = {large, small}
    Worker <- MCWorker
    Size <- MCSize
    Capacity = 2
    MaxCalls = 3
    MaxCrashes = 1
SPECIFICATION Spec
INVARIANTS
    NoTruncatedFile DownloadOnce PartsAreCleaned SettlesUnderCapacity
CHECK_DEADLOCK FALSE
