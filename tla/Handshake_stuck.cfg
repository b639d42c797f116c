SPECIFICATION FairSpec
CONSTANTS
    InitialBoard = {"boot"}
    Chatters = {{}}
    Timeliness = {TRUE}
    MaxResets = 0
    MaxLine = 3
PROPERTIES
    PromptWorks
