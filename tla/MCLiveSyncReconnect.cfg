CONSTANTS
    a = a
    b = b
    Peers = {a, b}
    Forked = {b}
    ForkAt = 2
    HdrCap = 2
    BlkCap = 1
    InfCap = 2
    CupLagMin = 3
    CupTailMax = 2
    CupWin = 2
    CupChunk = 1
    BrkCap = 2
    MaxH <- MCMaxH
    MaxQueue <- MCMaxQueue
    MaxFaults = 1
SPECIFICATION Spec

PROPERTIES NoDeadlockAfterReconnect
CHECK_DEADLOCK FALSE
