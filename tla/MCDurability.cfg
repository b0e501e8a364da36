CONSTANTS
    InitPages = {0, 3}
    MaxPages = 3
    MaxBatches = 2
    MaxFaults = 2
    RecordPages = 2
    Failures = {"kill", "power"}
    Mixed = FALSE
SPECIFICATION Spec
CHECK_DEADLOCK FALSE
INVARIANTS
    Recoverable
    OnlyTailTorn
    RefusesOnlyAfterHeaderWrite
PROPERTIES
    StoreSpec
