CONSTANTS
    Greenlets = {g1, g2, g3, g4}
    u1 = u1
    u2 = u2
SPECIFICATION MutexSpec
INVARIANTS
    HandOffReachesHead
    IInv
    ReactorIsSound
    InputIsTaken
PROPERTIES
    WaitersServed
    FifoSpec
    CallbacksRun
