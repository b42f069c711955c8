CONSTANTS
    Accounts <- LoopAccounts
    Foreign = {"y"}
    Hi <- HiLoop
    CosignFlag = {"k"}
    ConservFlag = {"k"}
    Validators <- LoopValidators
    MinStake = 1
    EpochLength = 2
    ConservDelay = 1
    LockTimeout = 1
    MinImportFee = 1
    Allocation = 1
    Reward = 1
    RewardStake = 1
    Txs <- LoopTxs
    Start <- LoopStart
    BlockCap = 2
    QueueCap = 2
    PoolCap = 2
    MaxHeight = 2
    MaxArrivals = 3
SPECIFICATION LoopSpec
INVARIANTS LoopTypeOK CulpritFound OnlySenderToBlame
PROPERTIES GoesOn DivergenceNeedsPolicyChange
CHECK_DEADLOCK FALSE
