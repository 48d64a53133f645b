SPECIFICATION Spec
CONSTANTS
    c1 = c1
    c2 = c2
    c3 = c3
    c4 = c4
    r1 = r1
    f1 = f1
    f2 = f2
    i1 = i1
    i2 = i2
    Calls = {c1, c2, c3, c4}
    Requests = {r1}
    Files = {f1, f2}
    Idents = {i1, i2}
    NoCall = NoCall
    NoIdent = NoIdent
    ReqOf <- OneRequest
    Kind <- OnceKind
    IdentOf <- OnceIdent
    EntryIdent <- EntryIdentity
    Named <- OnceNamed
    Rewrites <- OnceFiles
    Rejected = {}
    Existing = {f1}
    MaxFaults = 2
    MaxStops = 1
    MaxInode = 2
    Shutdowns = FALSE
INVARIANTS EffectsInv WriterInv AppliedOnce AckDurable AllOrNothing EventsHonest
SYMMETRY Symmetry
PROPERTY ImplementsAtomic
CHECK_DEADLOCK FALSE
