SPECIFICATION FairSpec
CONSTANTS
    Address <- SensorAddress
    Sensors <- Anywhere
    Contents <- AllContents
    MaxKills = 2
INVARIANTS
    ReadsWhatItAsks
    LeavesBusIdle
    GoodIsRight
PROPERTIES
    NoConditionInsideByte
    NeverWrites
    Recovers
