CONSTANTS
    Procs = {p1, p2}
    Commands = {"SDCARD_PRINT_FILE", "M24", "M25", "CANCEL_PRINT"}
    NLines = 2
    MaxJobs = 1
    MaxInputs = 4
SPECIFICATION OneSpec
PROPERTIES
    GreenletsReturn
    PauseIsHeard
CHECK_DEADLOCK FALSE
