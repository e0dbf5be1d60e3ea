CONSTANTS
    TotalBlocks = 13
    UnitBits = 13
    UIntMax = 31
    PageSize = 2
    EntriesPerTable = 2
    NumPages = 12
    HeapBase = 6
    HeapTop = 8
    InitBitmap <- MCInitBitmap
    InitUsed = 30
    InitDir <- MCInitDir
    InitMap <- MCInitMap
    Dirty = {9, 12}
    MaxTarget = 15
    Targets <- MCTargets
    Increments <- MCIncrements
    Backward = FALSE
SPECIFICATION Spec
INVARIANTS TypeOK NoSharing
PROPERTIES StableBacking CounterFollowsBitmap CallsReturn
