CONSTANTS
    Reader = {r1}
    InitPages = 1
    MaxPages = 3
    MaxCommits = 2
    MaxEpoch = 3
    Limit = 1
    CachePages = 1
SPECIFICATION FairSpec
INVARIANT
    FileIsCurrent
PROPERTY
    ReadsReturn
