CONSTANTS
    MinRequest = 10
    Stride = 2
    HeapWords = 20
    Requests = {2, 3}
    MayFail = TRUE
SPECIFICATION Spec
CHECK_DEADLOCK FALSE
INVARIANTS SoundMeansOneUse ListInOrder NoWordLost
PROPERTY CallsReturn
