SPECIFICATION FairSpec
CONSTANTS
    p1 = p1
    Paths = {p1}
    Class <- LateClass
    Written <- LateWritten
    Compactions = {a1}
    Rollbacks = {b1}
    NoOne = NoOne
    NoPath = NoPath
    MaxInode = 5
    MaxFaults = 1
    MaxStops = 1
INVARIANTS CompactionInv NothingLost OrderKept Undoable
PROPERTY AppendsEnd
CHECK_DEADLOCK FALSE
