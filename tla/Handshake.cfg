SPECIFICATION FairSpec
CONSTANTS
    InitialBoard = {"boot", "prompt", "sd"}
    Chatters = {{}, {"litex"}, {">"}, {"litex", ">"}}
    Timeliness = {TRUE, FALSE}
    MaxResets = 1
    MaxLine = 3
INVARIANTS
    NoFramesIntoSdBoot
    FramesOnlyToLoader
    MisledOnlyIfStaleOrChatty
PROPERTIES
    AutoAckedOnlyIfMisled
    ReachesLoader
