SPECIFICATION Spec
CONSTANTS
    Opener = {o1, o2}
    Address = {a1}
    MaxOutbound = 2
    MaxInbound = 1
    MaxNode = 2
    o1 = o1
    o2 = o2
SYMMETRY Symmetry
INVARIANTS
    TypeOK
    UsedIsAlive
    SlotsConserved
CHECK_DEADLOCK FALSE
