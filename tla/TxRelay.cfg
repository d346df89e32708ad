SPECIFICATION FairSpec
CONSTANTS
    Tx = {"t1", "t2", "t3", "t4"}
    Base = {"b"}
    vin <- MCVin
    Has <- MCHas
    BadScript = {"t4"}
    Big = {}
    Peer = {p1, p2}
    Silent = {p1}
    RetryTime = 1
    MAX_ORPHAN_TRANSACTIONS = 2
    p1 = p1
    p2 = p2
INVARIANTS
    TypeOK
    OrphansAreIndexed
    OrphansWait
PROPERTIES
    AnnouncedIsObtained
