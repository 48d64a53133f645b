SPECIFICATION Spec
CONSTANTS
    Writer = {w1, w2}
    Refresher = {}
    Loader = {}
    TxPath = {tx}
    NodePath = {node}
    WriteLists <- EachAlone
    Drops = FALSE
    IoFails = TRUE
    Edits = FALSE
    MaxVersion = 2
    MaxReg = 0
    MaxWaiters = 2
    MaxQueue = 1
PROPERTY QueueKept
SYMMETRY Symmetry
CHECK_DEADLOCK FALSE
