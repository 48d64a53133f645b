SPECIFICATION Spec
CONSTANTS
    p1 = p1
    Paths = {p1}
    Class <- LateClass
    Written <- LateWritten
    Compactions = {a1, a2}
    Rollbacks = {}
    NoOne = NoOne
    NoPath = NoPath
    MaxInode = 3
    MaxFaults = 0
    MaxStops = 0
INVARIANT Undoable
CHECK_DEADLOCK FALSE
