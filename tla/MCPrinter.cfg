CONSTANTS
    Kinds = {{}, {"watermark", "box"}, {"chamber"}}
    Targets = {0, 3}
    Hot = 3
    MaxHeat = 4
    Delay = 1
    StaleTime = 2
    StartTime = 1
    MaxDelta = 1
    Hysteresis = 1
    MaxError = 3
    Gain = 1
    GainTime = 2
    TuneDelta = 2
    Peaks = 1
    MaxInputs = 2
    ApiClients = {c1, c2}
    Plain = {o1}
    Deep = {o2}
    Keys = {k1, k2}
    Items = {0, 1}
    NoObjects = none
    MaxBlocked = 1
    MaxChanges = 1
    MaxRequests = 2
    IdleTimeouts = {3, 5}
    IdleTime = 9
    IdleMoves = 2
    OptionSections = {{"a", "b"}, {"c"}}
    VariableNames = {"x", "y"}
    ConfigSets = 2
    ConfigSaves = 2
    ConfigEdits = 1
    DiskFaults = 1
    Extruders = {e0, e1}
    CoordValues = {1, 4}
    FlowFactors = {1, 2}
    FeedRates = {1, 3}
    AxisLimit = 5
    PullLimit = 6
    SmallPull = 3
    BigPull = 9
    MoveCommands = 3
    PrintObjects = {a, b}
    FirstPulls = 2
    ObjectMoves = 7
    ObjectCommands = 3
    ProbePoints = 2
    BedScrews = 2
    ProbeTop = 5
    ZBob = 1
    BisectMax = 2
    TiltErrors = {0, 1, 2}
    TiltTolerance = 0
    TiltRetries = 2
    DriftEnd = 3
    DriftStep = 1
    GoodMoves = 3
    ProbeCommands = 4
SPECIFICATION PrinterSpec
INVARIANTS
    HeatersAreWatched
    PositionIsKnown
    SavedIsKept
    ClientsAreCurrent
    CalibrationsAreClean
CHECK_DEADLOCK FALSE
