SPECIFICATION Spec
CONSTANTS
    Writer = {}
    Refresher = {r1}
    Loader = {l1}
    TxPath = {tx}
    NodePath = {}
    WriteLists <- EachAlone
    Drops = TRUE
    IoFails = TRUE
    Edits = TRUE
    MaxVersion = 2
    MaxReg = 1
    MaxWaiters = 2
    MaxQueue = 0
INVARIANT ProjectionInv
INVARIANT LoadHonest
INVARIANT NoneStranded
PROPERTY RefreshCovers
CHECK_DEADLOCK FALSE
