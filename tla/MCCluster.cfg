CONSTANTS
    p1 = p1
    p2 = p2
    a1 = a1
    Proposers = {p1, p2}
    Attesters = {a1}
    Turns <- MCTurns
    Quorum = 1
    RetryCap = 1
    TailCap = 2
    MaxHeight = 2
    MaxBlocks = 3
    MaxLosses = 1
    MaxKinds = 1
SPECIFICATION Spec
INVARIANTS TypeOK SignedByQuorum OneChain
PROPERTIES Progress Failover
CHECK_DEADLOCK FALSE
