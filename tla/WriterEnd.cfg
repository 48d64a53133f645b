SPECIFICATION FairSpec
CONSTANTS
    c1 = c1
    c2 = c2
    c3 = c3
    c4 = c4
    r1 = r1
    f1 = f1
    f2 = f2
    i1 = i1
    i2 = i2
    Calls = {c1, c2, c3, c4}
    Requests = {r1}
    Files = {f1}
    Idents = {i1, i2}
    NoCall = NoCall
    NoIdent = NoIdent
    ReqOf <- OneRequest
    Kind <- EndKind
    IdentOf <- EndIdent
    EntryIdent <- EntryIdentity
    Named <- EndNamed
    Rewrites <- EndFiles
    Rejected = {c4}
    Existing = {f1}
    MaxFaults = 2
    MaxStops = 1
    MaxInode = 1
    Shutdowns = TRUE
PROPERTIES CleanIsComplete CallsEnd
CHECK_DEADLOCK FALSE
