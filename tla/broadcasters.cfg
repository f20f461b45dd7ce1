SPECIFICATION FairSpec
CONSTANTS
    Kinds <- AllKinds
    Count = 3
INVARIANTS
    TypeOK
    OwnReadings
PROPERTIES
    MessageCompletes
