CONSTANTS
    Order <- ClashOrder
    Inputs <- ClashInputs
    Kind <- ClashKind
    Matches <- ClashMatches
    Documents <- ClashDocs
    Reduces = {}
    Faulty = {}
    SampleIds = {"s1", "s2"}
    Verdicts = {"pass", "error"}
    Batches <- OneBatch
    MaxWorkers = 2
SPECIFICATION Spec
PROPERTY OnlyDigestPropagates
