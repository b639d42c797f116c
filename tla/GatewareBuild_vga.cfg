SPECIFICATION Spec
CONSTANTS
    Envs <- Documented
    Revisited <- Documented
    HandArgs = {}
    MaxCalls = 1
    MaxEdits = 0
INVARIANTS
    VgaProgramsFindTheirCsrs
