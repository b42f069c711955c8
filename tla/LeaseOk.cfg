CONSTANTS
    Nodes = {n1, n2}
    None = None
    Ttl = 2
    Wait = 1
    MaxNow = 6
SPECIFICATION Spec
INVARIANTS TypeOK OneHolder FenceKept
