CONSTANTS
    Drivers = {"disk", "tape"}
    Bytes = {65, 127, 3, 200, 255}
    FifoSize = 2
    MaxInput = 3
    MayFail = TRUE
SPECIFICATION Spec
CHECK_DEADLOCK FALSE
INVARIANTS DescriptorsFind EchoesInput
PROPERTY InputIsRead
