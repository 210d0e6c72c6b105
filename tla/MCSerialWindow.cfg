CONSTANTS
    SeqValues = 4
    MaxPending = 3
    RxWindow = 2
    BlockSize = 2
    McuStarts <- Starts
    NotifyMessages = {3}
    MaxMessages = 4
    MaxFaults = 1
    MaxWire = 3
    HomingTime = 2
    Timeout = 2
SPECIFICATION SerialSpec
INVARIANTS
    WindowIsRight
    LineIsSound
    EndstopsStopTogether
PROPERTIES
    PromisesAreKept
