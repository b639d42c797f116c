SPECIFICATION Spec
CONSTANTS
    MaxResets = 1
INVARIANTS
    NeverHalfConfigured
PROPERTIES
    ReprogramsQuietly
