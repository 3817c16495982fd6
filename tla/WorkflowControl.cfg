\* Two runs, two cancels or closes at a time, the scenarios of MCWorkflowControl.
CONSTANTS
    MaxRuns = 2
    Canceller = {k1, k2}
    Scenario <- MCScenario
SPECIFICATION FairSpec
INVARIANTS
    OneWorker
    ActiveHasTask
    JournalSettled
PROPERTIES
    CloseSettles
    StopIsSettled
    RequestsEnd
