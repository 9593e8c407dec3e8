SPECIFICATION Spec
SYMMETRY Symmetry
CONSTANTS
    Thread = {c1, c2}
    None = None
    Tx <- MCTx
    Outpoint <- MCOutpoint
    Inputs <- MCInputs
    Outputs <- MCOutputs
    Coins <- MCCoins
    Tip <- MCTip
    Genesis = "g"
    Block <- MCBlock
    Blocks <- MCBlocks
    Body <- MCBody
    Rank <- MCRank
    Fee <- MCFee
    Weight <- MCWeight
    Size <- MCSize
    BelowFloor = {}
    MaxSequence = 3
    MaxGeneration = 3
    MaxHeapId = 3
    max_transactions = 2
    max_bytes = 4
    low_water_bytes = 3
INVARIANTS
    PooledHoldClaims
    NoLeakedClaim
    SpentInputsArePlanned
    WithinCapacity
PROPERTIES
    AdmittedAtLiveTip
    EvictsWorstFirst
