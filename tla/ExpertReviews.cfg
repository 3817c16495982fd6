\* Both experts, two calls, two turns; one change of the source, one failing save or crash.
CONSTANTS
    CallId = {c1, c2}
    Expert = {"continuity", "critic"}
    Source = {"s1", "s2"}
    MaxTurn = 2
    MaxChanges = 1
    MaxFaults = 1
SPECIFICATION FairSpec
INVARIANTS
    BudgetKept
    CheckpointRestorable
    ToldIsRecorded
PROPERTIES
    ShownIsFinal
    DrainEnds
