CONSTANTS
    Key <- Keys41
    Lengths <- SomeLengths
    Starts <- SomeStarts
    Used = {1, 9, 10, 11, 41}
    MaxPages = 16
    MaxDepth = 4
    PageRoom = 24
    SlotLen = 1
    LeafExtra = 2
    BranchExtra = 1
SPECIFICATION Spec
INVARIANTS
    LookupsRight
    WalksRight
    
    TreeIsWhole
    PagesSound
    CompactionCounted
