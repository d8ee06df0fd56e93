CONSTANTS
    Order <- MutOrder
    Inputs <- MutInputs
    Kind <- MutKind
    Matches <- MutMatches
    Documents <- MutDocs
    Reduces = {}
    Faulty = {}
    SampleIds = {"s1"}
    Verdicts = {"pass", "error"}
    Batches <- SameIdTwice
    MaxWorkers = 2
SPECIFICATION Spec
PROPERTY EarlierBatchesStand
