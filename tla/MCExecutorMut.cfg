CONSTANTS
    Order <- MutOrder
    Inputs <- MutInputs
    Kind <- MutKind
    Matches <- MutMatches
    Documents <- MutDocs
    Reduces = {"qc"}
    Faulty = {"load", "imu", "sum"}
    SampleIds = {"s1", "s2", "s3"}
    Verdicts = {"pass", "error"}
    Batches <- TwoBatches
    MaxWorkers = 2
SPECIFICATION Spec
INVARIANTS
    TypeOK Partition NeverUnreachable ViewIsAncestors
PROPERTIES
    LeavesCarryEverything MutationWins FreedStaysFreed JobCompletes ImplementsQcJob
