SPECIFICATION Spec
CONSTANTS
    Owner = {m1, m2}
    nTargetSize = 1
    MaxKey = 5
    MaxCrash = 0
    m1 = m1
    m2 = m2
INVARIANTS
    KeysUsedOnce
CHECK_DEADLOCK FALSE
