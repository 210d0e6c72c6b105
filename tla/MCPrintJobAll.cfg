CONSTANTS
    Procs = {p1, p2}
    Commands <- AllCommands
    NLines = 2
    MaxJobs = 2
    MaxInputs = 5
SPECIFICATION PrintSpec
SYMMETRY Symmetry
INVARIANTS
    NoLineLost
    StateMatchesFile
    PrintingHasWorker
    IInv
    PauseStopsPrint
PROPERTIES
    CancelEndsPrint
