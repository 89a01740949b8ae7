SPECIFICATION Spec
CONSTANTS
    Orders = {o1, o2}
    Proposals = {p1}
    NoOrder = NoOrder
    NoProposal = NoProposal
    GateReasons = {paused}
    Budget <- RestartBudget
SYMMETRY Symmetry
PROPERTY RestartKeepsFills
