CONSTANTS
    Accounts = {"c", "b", "r", "d", "n"}
    Foreign = {"y"}
    Hi <- HiTwo
    CosignFlag = {}
    ConservFlag = {"c"}
    Validators <- MixedValidators
    MinStake = 1
    EpochLength = 2
    ConservDelay = 1
    LockTimeout = 2
    MinImportFee = 1
    Allocation = 1
    Reward = 1
    RewardStake = 1
    Txs <- MixedTxs
    Start <- MixedStart
    Facts <- MixedFacts
    MaxHeight = 3
SPECIFICATION Spec
INVARIANTS TypeOK PendingExecutable EscrowExclusive SupplyConserved
PROPERTIES RowConsumesNonce FinalizedFrozen ImplementsModeB
CHECK_DEADLOCK FALSE
