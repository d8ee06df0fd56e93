CONSTANTS
    Order <- PairOrder
    Inputs <- PairInputs
    Kind <- PairKind
    Matches <- NoMatches
    Documents <- NoDocuments
    Reduces = {"dur"}
    Faulty = {"load"}
    SampleIds = {"s1", "s3"}
    Verdicts = {"pass", "error"}
    Batches <- TwoBatches
    MaxWorkers = 1
SPECIFICATION WatchSpec
PROPERTY OpenPageKeepsUp
