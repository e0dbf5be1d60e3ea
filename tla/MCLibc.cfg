CONSTANTS
    UIntMax = 31
    INT_MAX = 8
    ITOA_BUFFER_SIZE = 6
    Jobs <- MCJobs
    MemorySize = 4
    Chars <- MCChars
SPECIFICATION LibcSpec
INVARIANTS PrintsMeaning CountTold CopiedAndFound
