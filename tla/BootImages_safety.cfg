SPECIFICATION Spec
CONSTANTS
    MaxBuilds = 2
    Abortable = TRUE
INVARIANTS
    InitrdEndMatches
    SuccessIsLoadable
    OneRootfs
    KernelMatchesRootfs
