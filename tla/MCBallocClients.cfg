CONSTANTS
    c1 = c1
    c2 = c2
    Client <- MCClient
    Nobody = Nobody
    System = System
    TotalBlocks = 5
    UnitBits = 2
    UIntMax = 9
    InitUsed <- MCInitUsed
    FarBlock = 7
SPECIFICATION Spec
INVARIANTS TypeOK HeldExclusively
PROPERTIES CounterFollowsBitmap ImplementsPool
