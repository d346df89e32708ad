SPECIFICATION Spec
CONSTANTS
    Service = {"a1", "a1b", "a2", "a3"}
    NetAddr = {"a1", "a2", "a3"}
    host <- MCHost
    GetTriedBucket <- MCTried
    GetNewBucket <- MCNew
    Time = {1}
    MaxId = 3
    MaxDump = 1
    ADDRMAN_TRIED_BUCKET_COUNT = 1
    ADDRMAN_TRIED_BUCKET_SIZE = 1
    ADDRMAN_NEW_BUCKET_COUNT = 2
    ADDRMAN_NEW_BUCKET_SIZE = 1
    ADDRMAN_NEW_BUCKETS_PER_ADDRESS = 2
    ADDRMAN_TRIED_ENTRIES_INSPECT_ON_EVICT = 2
    ADDRMAN_GETADDR_MAX_PCT = 50
INVARIANTS
    TypeOK
    RefCountIsExact
    TriedIsPlaced
    AddrIsIndexed
    RandomIsPermutation
    BucketsAreBounded
    DumpRestores
PROPERTIES
    TriedIsNotDeleted
