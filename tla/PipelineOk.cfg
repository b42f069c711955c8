CONSTANTS
    Workers = {w1, w2}
    SaveEvery = 2
    FlushEvery = 3
    Standby = TRUE
    QueueCap = 2
    BlockCap = 1
    BatchCap = 2
    MaxVersions = 5
SPECIFICATION Spec
INVARIANTS TypeOK TrustedUntilRollback
