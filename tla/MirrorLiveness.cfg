\* Two processes whose commits overtake each other's exports; one save by the editor.
CONSTANTS
    Proc = {p1, p2}
    Part = {"ch", "sc"}
    Chapter = "ch"
    Text = {"a", "b"}
    Title = {"t"}
    MaxVersions = 3
    MaxTouches = 1
    EditorWaits = TRUE
SPECIFICATION FairSpec
PROPERTIES
    MirrorCatchesUp
