SPECIFICATION Spec
CONSTANTS
    Role = {"finalize", "submit", "cancel"}
    Event = {"turn", "complete"}
    Clock = {"idle"}
    Tui = FALSE
    Watched = FALSE
    NeedsFinalize = TRUE
    MaxIterations = 0
    Artifactor = TRUE
    Drops = TRUE
    LogFails = TRUE
    MaxEvents = 1
    MaxRounds = 2
INVARIANT OneTombstone
CHECK_DEADLOCK FALSE
