SPECIFICATION FairSpec
CONSTANTS
    Writer = {w1}
    Refresher = {}
    Loader = {l1}
    TxPath = {}
    NodePath = {node}
    WriteLists <- EachAlone
    Drops = FALSE
    IoFails = TRUE
    Edits = FALSE
    MaxVersion = 2
    MaxReg = 0
    MaxWaiters = 2
    MaxQueue = 0
PROPERTY AnswersCome
CHECK_DEADLOCK FALSE
