CONSTANTS
    Procs = {p1, p2}
    Commands = {"SDCARD_PRINT_FILE", "PAUSE"}
    NLines = 2
    MaxJobs = 2
    MaxInputs = 4
SPECIFICATION OneSpec
SYMMETRY Symmetry
INVARIANTS
    PausedMeansStopping
