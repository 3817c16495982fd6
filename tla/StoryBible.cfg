\* Two processes; one document with up to two versions as the source of facts.
CONSTANTS
    Proc = {p1, p2}
    Doc = {"note"}
    KindOf <- MCKindOf
    ParentOf <- MCParentOf
    UserStates = {"candidate"}
    MaxVersions = 2
    Key = {k1}
    Value = {v1, v2}
    UserFactStates = {"canonical"}
    MaxHistory = 2
    MaxProposals = 1
SYMMETRY MCSymmetry
SPECIFICATION BibleSpec
INVARIANTS
    HistoryExplainsFacts
    AcceptedOnce
PROPERTIES
    CanonWrittenFromCurrentSource
CHECK_DEADLOCK FALSE
