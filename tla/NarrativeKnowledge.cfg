\* Two records, two positions and a source that comes and goes.
CONSTANTS
    Record = {r1, r2}
    Strand = {s1}
    Holder = {h1}
    Reader = reader
    HolderOf <- MCHolderOf
    Position = {0, 1}
    Forever = 2
    Source = {x1}
    MaxLog = 4
SYMMETRY MCSymmetry
SPECIFICATION Spec
INVARIANTS
    NoOverlap
    ViewUnambiguous
PROPERTIES
    KeepsAuthorChoice
