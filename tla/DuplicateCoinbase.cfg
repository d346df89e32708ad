SPECIFICATION Spec
CONSTANTS
    Block = {"g", "c1", "c2", "e3", "e4", "b3", "b4", "b5"}
    Genesis = "g"
    Null = Null
    Tx <- MCTx
    CoinBase <- MCCoinBase
    hashPrevBlock <- MCPrev
    nHeight <- MCHeight
    bnChainWork <- MCWork
    Branch <- MCBranch
    vtx <- MCVtx
    vin <- MCVin
    vout <- MCVout
    Malformed = {}
    COINBASE_MATURITY = 1
    MAX_MONEY = 100
    InitialSubsidy = 3
    SubsidyStep = 1
    FloorHeight = 2
    FloorSubsidy = 2
    TotalBlocksEstimate = 0
    BadScript = {}
    NonStandard = {}
    Mine = {}
    Unacceptable = {}
    Early = {}
    LowWork = {}
    MaxCrash = 0
INVARIANTS
    DisconnectNeverFails
CHECK_DEADLOCK FALSE
