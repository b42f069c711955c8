SPECIFICATION Spec
CONSTANTS
    MaxExports = 2
    Ttl = 1
    LockBlocks = 1
    FactCap = 1
    MaxFaults = 1
INVARIANTS
    TypeOK
    Backed
    ImportIsTrue
    LockIsLive
PROPERTY
    AccountFreed
