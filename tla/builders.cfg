CONSTANTS
    Spots = {9600, 9800, 10000, 10200, 10400}
    Strikes = {8000, 8900, 9000, 9500, 9700, 10500, 11000}
    Dtes = {29, 30, 35, 40, 46}
    Put <- PutOf
    CallDelta <- DeltaOf
    Halves = {5, 90}
    Caps = {900000, 1000000}
    NoCap = NoCap
    DteMin = 30
    DteMax = 45
    MaxCandidates = 3
    SpreadWidth = 500
    MaxSpreadLoss = 60000
    MinCreditPercent = 20
    TargetPut <- MinusDelta
    TargetCall = 280
    CallTolerance = 50
    TargetLeap = 700
    LeapTolerance = 150
    MaxExtrinsicPercent = 30
SPECIFICATION Spec
INVARIANTS
    TypeOK
    SpreadLossIsReal
    SoldCallIsOutOfTheMoney
