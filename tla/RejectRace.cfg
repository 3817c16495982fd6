\* Two processes and one document: a rejection races with an acceptance.
CONSTANTS
    Proc = {p1, p2}
    Doc = {"ch"}
    KindOf <- MCKindOf
    ParentOf <- MCParentOf
    UserStates = {"draft", "candidate"}
    MaxVersions = 3
SPECIFICATION Spec
INVARIANTS
    ActiveStateAgrees
