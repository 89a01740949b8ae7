CONSTANTS
    t1 = t1
    Trades = {t1}
    NoTrade = NoTrade
    Attempts = {1, 2}
    NoAttempt = 0
    MaxFaults = 1
\* All trades closed and every bounded fault and attempt spent.
CHECK_DEADLOCK FALSE
SPECIFICATION FairSpec
INVARIANTS
    TypeOK
    OneOrderPerAttempt
    StopFiresOnce
    FillIsInHand
PROPERTIES
    ImplementsLedger
    FillIsBooked
