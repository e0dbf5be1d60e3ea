CONSTANTS
    MaxInterrupts = 48
    Installs <- KernelDevices
    Devices = {0, 4}
    TickLimit = 3
SPECIFICATION Spec
INVARIANTS TypeOK NoStrayHandler ListensAfterInstall InServiceIsHandled
PROPERTY Served
