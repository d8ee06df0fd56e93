CONSTANTS
    t1 = t1  t2 = t2  t3 = t3
    n1 = n1  n2 = n2  n3 = n3
    w1 = w1  w2 = w2
    Video = Video  Stack = Stack  Encoded = Encoded
    NoKey = NoKey
    Threads = {t1, t2, t3, n1, n2, n3}
    Keys = {Video, Stack, Encoded}
    Worker <- MCWorker
    Runs <- MCRuns
    Inner <- MCInner
    Size <- MCSize
    Capacity = 3
    MaxCalls = 0
    MaxCrashes = 1
    Faults = 1
SPECIFICATION FrameSpec
INVARIANTS
    ErrorsHaveACause PassedDumpIsWhole
PROPERTY EverySiftAnswers
CHECK_DEADLOCK FALSE
