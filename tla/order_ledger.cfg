SPECIFICATION FairSpec
CONSTANTS
    Orders = {o1, o2}
    Proposals = {p1}
    NoOrder = NoOrder
    NoProposal = NoProposal
    GateReasons = {}
    Budget <- OutageBudget
PROPERTY ImplementsLedger
PROPERTY OrdersSettle
\* Without SetGate the bot rests when its proposal is settled.
CHECK_DEADLOCK FALSE
