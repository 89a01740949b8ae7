CONSTANTS
    t1 = t1
    t2 = t2
    t3 = t3
    Trades = {t1, t2, t3}
    NoTrade = NoTrade
    Kind <- PutsAndCall
    Underlying <- TwoNames
    Size <- PutSizes
    AccountValues = {0, 240, 600}
    PnlValues <- Pnls
    MarkValues <- MarkSet
    LastDay = 2
    WeekLength = 2
    MonthLength = 3
    BucketPct <- Shares
    PositionPct <- Caps
    UnderlyingPct = 300
    ConfigLimit <- Limits
    SetConfigLimit <- NewLimits
    PdtStop = 250
    Overlap = FALSE
    Budget <- OneFault
SPECIFICATION Spec
INVARIANTS
    TypeOK
    HaltSurvives
    BucketWithinBudget
    ExposureOvershootsOnce
PROPERTY NoOrderInBreach
