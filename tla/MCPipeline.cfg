CONSTANTS
    Documents <- MCDocuments
    Text <- MCText
    Float <- MCFloat
    Positive = {"64.0"}
    Covers <- MCCovers
    Literal <- MCLiteral
SPECIFICATION Spec
INVARIANTS AcceptedIsRunnable CycleIsReal YamlBreaksTies NoParallelReplacement ConfigsAgree
PROPERTY Decides
CHECK_DEADLOCK FALSE
