CONSTANTS
    Order <- ClashOrder
    Inputs <- ClashInputs
    Kind <- ClashKind
    Matches <- ClashMatches
    Documents <- ClashDocs
    Reduces = {"dur"}
    Faulty = {"load", "imu", "dump", "dur"}
    SampleIds = {"s1", "s2"}
    Verdicts = {"pass", "error"}
    Batches <- OneBatch
    MaxWorkers = 2
SPECIFICATION Spec
INVARIANT RaisedIsQuiet
PROPERTIES
    JobEnds ImplementsQcJob
