SPECIFICATION FairSpec
CONSTANTS
    Block = {"g", "c1", "c2", "a3", "a4", "b3", "b4", "b5", "x4", "x5", "d3"}
    Genesis = "g"
    Null = Null
    Tx <- MCTx
    CoinBase <- MCCoinBase
    hashPrevBlock <- MCPrev
    nHeight <- MCHeight
    bnChainWork <- MCWork
    Branch <- MCBranch
    vtx <- MCVtx
    vin <- MCVin
    vout <- MCVout
    Malformed = {}
    COINBASE_MATURITY = 1
    MAX_MONEY = 100
    InitialSubsidy = 3
    SubsidyStep = 1
    FloorHeight = 2
    FloorSubsidy = 1
    TotalBlocksEstimate = 0
    BadScript = {}
    NonStandard = {"t4"}
    Mine = {}
    Unacceptable = {"d3"}
    Early = {"b4"}
    LowWork = {"c2"}
    MaxCrash = 0
INVARIANTS
    TypeOK
    MainChainLinked
    RelayedIsValid
    ReorganizeKeepsTxs
    BestIsHeaviest
    WarningIsJustified
    OrphansDrained
    DisconnectNeverFails
PROPERTIES
    DatabaseIsLedger
    ProcessBlockReturns
    Converges
CHECK_DEADLOCK FALSE
