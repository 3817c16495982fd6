\* One process, a chapter with up to two versions, two topics and two decisions.
CONSTANTS
    Proc = {p1}
    Doc = {"ch"}
    KindOf <- MCKindOf
    ParentOf <- MCParentOf
    UserStates = {"candidate"}
    MaxVersions = 2
    Decision = {r1, r2}
    Topic = {"ending", "scene"}
    TargetOf <- MCTargetOf
    Work = work
    OptionId = {"a", "b"}
    Content = {"x", "y"}
    Slate <- MCSlate
    MaxLog = 3
SYMMETRY MCSymmetry
SPECIFICATION DecisionSpec
PROPERTIES
    KeepsSelection
    EvidenceSurvivesAdoption
