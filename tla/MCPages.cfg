CONSTANTS
    Reader = {r1, r2}
    InitPages = 1
    MaxPages = 2
    MaxCommits = 2
    MaxEpoch = 1
    Limit = 1
    CachePages = 1
SPECIFICATION Spec
SYMMETRY Readers
INVARIANTS
    SnapshotReads
    TooOldOnlyIfEnded
    ChecksSound
    CountsAgree
    OlderWithinLimit
    CompactsAlone
    FileIsCurrent
PROPERTY
    EndsOnlyForRoom
