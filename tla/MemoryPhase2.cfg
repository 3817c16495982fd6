\* Two consolidators and one thread with up to two extractions.
CONSTANTS
    Thread = {t1}
    MaxSource = 2
    RoughSource = 0
    Nobody = nobody
    MaxRaw = 1
    Consolidator = {c1, c2}
SPECIFICATION P2FairSpec
CHECK_DEADLOCK FALSE
INVARIANTS
    OnlyOneConsolidation
    BaselineIsDigested
PROPERTIES
    SuccessMatchesBaseline
    OnlyOwnerSettles
    P2KeepsOutputs
    PollutedForgotten
