SPECIFICATION Spec
CONSTANTS
    Owner = {m1, m2}
    nTargetSize = 2
    MaxKey = 7
    MaxCrash = 2
    m1 = m1
    m2 = m2
INVARIANTS
    TypeOK
    PlainKeysUsedOnce
    PlainRecordsExist
    UsedIsErased
CHECK_DEADLOCK FALSE
