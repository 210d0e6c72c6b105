SPECIFICATION MachineSpec
INVARIANTS
    MovesAreTimely
    MeshIsTrue
    RailsAreKept
    StepsAreThoseOfMoves
    FansCool
    SensorsAreHeard
    DriversAreAsBelieved
    DevicesAreServed
    PanelIsTrue
CHECK_DEADLOCK FALSE
