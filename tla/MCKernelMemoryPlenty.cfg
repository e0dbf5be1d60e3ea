CONSTANTS
    TotalBlocks = 16
    UnitBits = 4
    UIntMax = 31
    PageSize = 2
    EntriesPerTable = 4
    NumPages = 20
    HeapBase = 10
    HeapTop = 12
    InitBitmap <- MCInitBitmap
    InitUsed = 6
    InitDir <- MCInitDir
    InitMap <- MCInitMap
    Dirty = {}
    MaxTarget = 23
    Targets <- MCTargets
    Increments <- MCIncrements
    Backward = FALSE
SPECIFICATION Spec
INVARIANT NoLeak
PROPERTY ImplementsHeap
