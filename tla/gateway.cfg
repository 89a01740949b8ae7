CONSTANTS
    t1 = t1
    t2 = t2
    u1 = u1
    Trades = {t1, t2}
    Underlyings = {u1}
    UnderlyingOf <- OneUnderlying
    NoTrade = NoTrade
    Ordered = {t2}
    Loops = {1, 2}
    NoLoop = 0
    LastBackoff = 1
    MaxFaults = 2
SPECIFICATION FairSpec
INVARIANTS
    TypeOK
    LoopUntilConnected
    StaleEntriesAreSwept
PROPERTIES
    OpenIsWatched
    OutageIsTold
    AlarmIsLifted
