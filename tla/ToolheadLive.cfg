CONSTANTS
    Low = 5
    High = 7
    StartTime = 3
    MinKin = 1
    KinDelay = 1
    StepFlush = 1
    BgLow = 2
    BgBatch = 2
    BgExtra = 2
    LookFlush = 3
    DripTime = 1
    DripSeg = 1
    Durations = {1, 4}
    MaxTime = 18
    MaxMoves = 2
    LastCommand = 3
SPECIFICATION LiveSpec
PROPERTIES
    MotionEnds
CHECK_DEADLOCK FALSE
