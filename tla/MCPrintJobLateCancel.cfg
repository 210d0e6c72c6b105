CONSTANTS
    Procs = {p1, p2}
    Commands = {"SDCARD_PRINT_FILE", "M24"}
    NLines = 2
    MaxJobs = 1
    MaxInputs = 4
SPECIFICATION OneSpec
SYMMETRY Symmetry
PROPERTIES
    CancelledPrintsNothing
