CONSTANTS
    InitPages = {3}
    MaxPages = 3
    MaxBatches = 1
    MaxFaults = 2
    RecordPages = 2
    Failures = {"kill", "power"}
    Mixed = TRUE
SPECIFICATION Spec
INVARIANT Recoverable
CHECK_DEADLOCK FALSE
