CONSTANTS
    InitPages = {3}
    MaxPages = 3
    MaxBatches = 2
    MaxFaults = 1
    RecordPages = 2
    Failures = {"kill"}
    Mixed = TRUE
SPECIFICATION Spec
INVARIANT ReplayHarmless
CHECK_DEADLOCK FALSE
