SPECIFICATION FairSpec
CONSTANTS
    Requests = {q1, q2}
    Repls = {r1, r2}
    None = none
    WorktreeIsRoot = TRUE
    MaxFaults = 1
    MaxStops = 2
    MaxDeaths = 1
    MaxRemovals = 1
INVARIANTS RescueInv OneReplacement AnswersStand PrefixReserved
PROPERTIES NeverRelaunched RescueEnds
CHECK_DEADLOCK FALSE
