\* Two processes, a chapter with one scene, two saves or deletions by the editor.
CONSTANTS
    Proc = {p1, p2}
    Part = {"ch", "sc"}
    Chapter = "ch"
    Text = {"a", "b"}
    Title = {"t", "u"}
    MaxVersions = 3
    MaxTouches = 2
    EditorWaits = TRUE
SYMMETRY MCSymmetry
SPECIFICATION Spec
INVARIANTS
    CleanMeansEqual
    AuthorTextKept
    QuietMeansClean
PROPERTIES
    ImportReplacesBaseline
