SPECIFICATION Spec
CONSTANTS
    Envs <- AllEnvs
    Revisited <- FewEnvs
    HandArgs <- SomeArgs
    MaxCalls = 2
    MaxEdits = 3
INVARIANTS
    DtsCompiles
    DescribesSoC
    ProgramsFindTheirCsrs
    PatchedOnce
PROPERTIES
    PatchesAsTold
