SPECIFICATION Spec
CONSTANTS
    Inputs <- AllInputs
INVARIANTS
    ShowsNearest
    ReadsRegister
