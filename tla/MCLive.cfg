CONSTANTS
    SeqValues = 3
    MaxPending = 2
    RxWindow = 2
    BlockSize = 1
    McuStarts <- LiveStarts
    NotifyMessages = {2}
    MaxMessages = 2
    MaxFaults = 1
    MaxWire = 4
    HomingTime = 1
    Timeout = 1
SPECIFICATION LiveSpec
INVARIANTS
    ShutdownIsTotal
    HomingLeavesNothing
PROPERTIES
    EverythingIsAcknowledged
    ChannelSpec
    HomingIsOver
    McusRecover
CHECK_DEADLOCK FALSE
