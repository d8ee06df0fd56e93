CONSTANTS
    Order <- LineOrder
    Inputs <- LineInputs
    Kind <- LineKind
    Matches <- LineMatches
    Documents <- LineDocs
    Reduces = {}
    Faulty = {}
    SampleIds = {"s1", "s2"}
    Verdicts = {"pass", "error"}
    Batches <- OneBatch
    MaxWorkers = 2
SPECIFICATION Spec
INVARIANT EverySampleAnswered
