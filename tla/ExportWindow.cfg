\* One process and an editor that saves whenever the author presses save.
CONSTANTS
    Proc = {p1}
    Part = {"ch"}
    Chapter = "ch"
    Text = {"a", "b"}
    Title = {"t"}
    MaxVersions = 2
    MaxTouches = 1
    EditorWaits = FALSE
SPECIFICATION Spec
INVARIANTS
    AuthorTextKept
