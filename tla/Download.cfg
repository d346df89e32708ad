SPECIFICATION FairSpec
CONSTANTS
    Server = {s1, s2}
    Leaving = {s1}
    Tip <- MCTip
    MaxHeight = 5
    Fork = 0
    SideLength = 1
    nLimit = 2
    vHave <- MCHave
    s1 = s1
    s2 = s2
INVARIANTS
    TypeOK
    NothingForgotten
    DownloadCompletes
PROPERTIES
    CatchesUp
    AdvancesWithNewBlock
