SPECIFICATION Spec
CONSTANTS
    Addresses <- SomeAddresses
    Chunks <- SomeChunks
    Damages <- SomeDamages
INVARIANTS
    IntactIsTaken
    DamageIsNoticed
