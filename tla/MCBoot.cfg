CONSTANTS
    TotalBlocks = 12
    UnitBits = 4
    UIntMax = 63
    PageSize = 2
    AddrSpace = 128
    LowBlocks = 2
    KernelEnd = 4
    EntriesPerTable = 6
    KernelTable = 2
    Standards = {0, 1, 2}
    Alignments = {TRUE, FALSE}
    TagLists <- AllLists
    Entries = 2
    Places = {0, 1, 4, 12, 23}
    BitmapStart = 5
    EndCell = 9
    Cells = 40
    Noise <- AnyNoise
    Bases = {0, 3, 4, 7, 8, 16, 22, 64, 130}
    Lengths = {1, 6, 7, 16, 44}
    Maps <- AnyMaps
CHECK_DEADLOCK FALSE
SPECIFICATION BootSpec
INVARIANTS TypeOK KernelNeverHandedOut BootContract OnlyAvailableFreed NoneForgottenFreed MapRead PanicNamesFault
