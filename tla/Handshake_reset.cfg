SPECIFICATION Spec
CONSTANTS
    InitialBoard = {"boot", "prompt"}
    Chatters = {{}, {"litex", ">"}}
    Timeliness = {FALSE}
    MaxResets = 1
    MaxLine = 3
PROPERTIES
    AutoNeverAcked
