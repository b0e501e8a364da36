CONSTANTS
    InitPages = {3}
    MaxPages = 3
    MaxBatches = 2
    MaxFaults = 1
    RecordPages = 2
    Failures = {"power"}
    Mixed = TRUE
SPECIFICATION Spec
INVARIANT TornHeaderRestored
CHECK_DEADLOCK FALSE
