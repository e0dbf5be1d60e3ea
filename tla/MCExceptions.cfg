CONSTANTS
    Vectors <- Handled
    PageCodes <- Faults
    FaultCodes <- Selectors
    NmiCauses <- Ports
    MaxNesting = 3
SPECIFICATION Spec
CHECK_DEADLOCK FALSE
INVARIANTS ReturnsToInterrupted StopsOnError PageFaultDescribed
