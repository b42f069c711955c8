CONSTANTS
    Accounts = {"c", "b"}
    Foreign = {}
    Hi <- HiPair
    CosignFlag = {}
    ConservFlag = {"c"}
    Validators <- SelfRescueValidators
    MinStake = 0
    EpochLength = 2
    ConservDelay = 1
    LockTimeout = 1
    MinImportFee = 1
    Allocation = 1
    Reward = 1
    RewardStake = 1
    Txs <- SelfRescueTxs
    Start <- SelfRescueStart
    Facts <- NoFacts
    MaxHeight = 2
SPECIFICATION Spec
INVARIANT SupplyConserved
CHECK_DEADLOCK FALSE
