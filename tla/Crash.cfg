SPECIFICATION Spec
CONSTANTS
    Block = {"g", "c1", "c2", "a3", "b3", "b4", "b5"}
    Genesis = "g"
    Null = Null
    Tx <- MCTx
    CoinBase <- MCCoinBase
    hashPrevBlock <- MCPrev
    nHeight <- MCHeight
    bnChainWork <- MCWork
    Branch <- MCBranch
    vtx <- MCVtx
    vin <- MCVin
    vout <- MCVout
    Malformed = {}
    COINBASE_MATURITY = 1
    MAX_MONEY = 100
    InitialSubsidy = 3
    SubsidyStep = 1
    FloorHeight = 2
    FloorSubsidy = 1
    TotalBlocksEstimate = 0
    BadScript = {}
    NonStandard = {}
    Mine = {"t1", "t2"}
    Unacceptable = {}
    Early = {}
    LowWork = {}
    MaxCrash = 2
INVARIANTS
    PoolNotInBranch
    PoolLinked
    WalletFollowsBranch
PROPERTIES
    DatabaseIsLedger
    WorkIncreases
CHECK_DEADLOCK FALSE
