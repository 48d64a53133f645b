SPECIFICATION Spec
CONSTANTS
    r1 = r1
    r2 = r2
    k1 = k1
    w1 = w1
    Run = {r1, r2}
    Key = {k1}
    Worktree = {w1}
    Guard = {g1}
    Caller = {boot, c1}
    BootScan = boot
    NoRun = NoRun
    NoWorktree = NoWorktree
    KeyOf <- OneTaskKey
    WtOf <- OneTaskWt
    ForceKeys = {k1}
    MaxBoots = 1
INVARIANTS TypeOK LeaseExclusive FenceExcludes CleanupQuiet IndInv
SYMMETRY Interchangeable
