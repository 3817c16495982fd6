\* Two processes, three versions: a chapter, its scene and a managed document.
CONSTANTS
    Proc = {p1, p2}
    Doc = {"ch", "sc", "man"}
    KindOf <- MCKindOf
    ParentOf <- MCParentOf
    UserStates = {"draft", "candidate"}
    MaxVersions = 3
SYMMETRY MCSymmetry
SPECIFICATION Spec
INVARIANTS
    TypeOK
    VersionNumbersIncrease
    ManagedHeadNewest
    CardMatchesManuscript
PROPERTIES
    NoLostUpdate
    RejectedStaysRejected
CHECK_DEADLOCK FALSE
