CONSTANTS
    d1 = d1  d2 = d2  d3 = d3
    NoRun = NoRun
    Defs = {d1, d2, d3}
    Explicit = {d1, d2}
    Objects <- MCObjects
    FlatName <- MCFlatName
    Dumpers = {"video"}
    Documents <- MCDocuments
    MaxAttempts = 3
    MaxEdits = 2
    MaxTime = 1
SPECIFICATION Spec
INVARIANT ConfigIsTheDefinition
CHECK_DEADLOCK FALSE
