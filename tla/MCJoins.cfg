CONSTANT InputSeqs <- MCInputSeqs
SPECIFICATION Spec
INVARIANTS ClosedForms JoinIsUnion DeathSurvivesTheJoin OrderIrrelevant
CHECK_DEADLOCK FALSE
