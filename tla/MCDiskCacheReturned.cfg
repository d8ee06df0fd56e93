CONSTANTS
    t3 = t3
    w1 = w1  w2 = w2
    large = large
    NoKey = NoKey
    Threads = {t1}
    Keys = {large, small}
    Worker <- MCWorker
    Size <- MCSize
    Capacity = 1
    MaxCalls = 3
    MaxCrashes = 1
SPECIFICATION Spec
PROPERTY ReturnedPathHolds
CHECK_DEADLOCK FALSE
