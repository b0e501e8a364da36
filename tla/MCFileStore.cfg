CONSTANTS
    InitPages = 3
    MaxPages = 4
    Value = {v1, v2}
SPECIFICATION Spec
SYMMETRY Values
INVARIANTS
    FreeListSound
    HeldIntact
    CommittedWhole
    BeforeKept
    StampedWithFirstPage
