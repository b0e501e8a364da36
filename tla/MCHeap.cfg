CONSTANTS
    PageSize = 18
    HeaderLen = 1
    SlotLen = 2
    Doc <- Docs
    Value = {"small", "half", "whole", "large"}
    SizeOf <- Sizes
    Starts <- SomeStarts
    MaxPages = 7
    CellHeaderLen = 1
    PointerLen = 1
    OverflowCapacity = 12
    MinRoom = 4
    MinRoomToStay = 3
    MaxSteps = 4
SPECIFICATION Spec
INVARIANTS
    RecordsRead
    HeapWhole
    SlotsSound
    FreeSpaceRight
    PackedCounted
CHECK_DEADLOCK FALSE
