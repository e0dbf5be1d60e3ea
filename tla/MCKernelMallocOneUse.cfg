CONSTANTS
    MinRequest = 16
    Stride = 8
    HeapWords = 32
    Requests = {2, 3}
    MayFail = FALSE
SPECIFICATION Spec
CHECK_DEADLOCK FALSE
INVARIANT OneUse
