SPECIFICATION Spec
CONSTANTS
    g = g
    a1 = a1
    a2 = a2
    a3 = a3
    b1 = b1
    b2 = b2
    b3 = b3
    m = m
    x = x
    Block <- MCBlock
    Genesis = g
    NoBlock = NoBlock
    Chain <- MCChain
    Work <- MCWork
    HashRank <- MCHashRank
    Malformed <- MCMalformed
    Invalid <- MCInvalid
    SmallUtxo <- MCSmallUtxo
    SnapshotInterval = 2
    TargetFromStore = TRUE
    WindowSize = 2
    ManualDisconnect = FALSE
    MaxLost = 0
PROPERTIES
    AheadSnapshotRejected
