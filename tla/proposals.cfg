CONSTANTS
    p1 = p1
    p2 = p2
    aaa = aaa
    Ids = {p1, p2}
    NoId = NoId
    Tickers = {aaa}
    Configured <- WatchLists
    MaxSlots = 1
    TopN = 1
    Ttl = 2
    CallTtl = 4
    LastSlot = 6
    MaxEvents = 1
SYMMETRY Symmetry
SPECIFICATION Spec
INVARIANTS
    TypeOK
    OnePendingPerTicker
    NoOrderBehindRefusal
PROPERTIES
    OneSubmission
