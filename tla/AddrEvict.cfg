SPECIFICATION Spec
CONSTANTS
    Service = {"a1", "a2", "a3"}
    NetAddr = {"a1", "a2", "a3"}
    host <- MCHost
    GetTriedBucket <- MCTried
    GetNewBucket <- MCNew
    Time = {1, 2}
    MaxId = 3
    MaxDump = 0
    ADDRMAN_TRIED_BUCKET_COUNT = 1
    ADDRMAN_TRIED_BUCKET_SIZE = 2
    ADDRMAN_NEW_BUCKET_COUNT = 1
    ADDRMAN_NEW_BUCKET_SIZE = 4
    ADDRMAN_NEW_BUCKETS_PER_ADDRESS = 2
    ADDRMAN_TRIED_ENTRIES_INSPECT_ON_EVICT = 2
    ADDRMAN_GETADDR_MAX_PCT = 0
PROPERTIES
    NewestIsNotEvicted
