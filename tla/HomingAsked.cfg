CONSTANTS
    Stow = TRUE
    HomingRetries = 2
    TriggerRetries = 2
    SampleCount = 2
    SamplesToleranceRetries = 1
    MaxCommands = 3
SPECIFICATION Spec
INVARIANTS
    AskedIsHomed
CHECK_DEADLOCK FALSE
