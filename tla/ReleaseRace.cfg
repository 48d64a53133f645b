SPECIFICATION FairSpec
CONSTANTS
    Role = {"sweep", "submit"}
    Event = {"complete", "fail"}
    Clock = {"stall"}
    Tui = TRUE
    Watched = TRUE
    NeedsFinalize = FALSE
    MaxIterations = 9
    Artifactor = TRUE
    Drops = FALSE
    LogFails = FALSE
    MaxEvents = 2
    MaxRounds = 1
INVARIANTS ReleaseInv TerminalEventWins FailureStands ReleaseIsLast
PROPERTIES ReleaseEnds
CHECK_DEADLOCK FALSE
