\* Two workers, two threads with two updates each, one live lease, one retry.
CONSTANTS
    Thread = {t1, t2}
    Worker = {w1, w2}
    MaxSource = 2
    MaxRunning = 1
    Retries = 1
    Nobody = nobody
SYMMETRY MCSymmetry
SPECIFICATION Spec
CHECK_DEADLOCK FALSE
INVARIANTS
    LeasesWithinCap
    OutputIsLastSuccess
PROPERTIES
    WatermarkAdvances
    KeepsOutputs
