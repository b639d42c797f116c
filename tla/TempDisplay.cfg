SPECIFICATION FairSpec
CONSTANTS
    NProcs = 2
    Digits = 2
    Readings = 3
    TimerWrap = 4
    DefaultDivider = 2
    Divider = 1
INVARIANTS
    IInv
    DwellBounded
    DarkAfterExit
    LightsOwnReadings
PROPERTIES
    LastOneShows
    EveryDigitLit
