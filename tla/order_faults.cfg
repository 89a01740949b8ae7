SPECIFICATION Spec
CONSTANTS
    Orders = {o1, o2}
    Proposals = {p1}
    NoOrder = NoOrder
    NoProposal = NoProposal
    GateReasons = {paused}
    Budget <- FaultBudget
SYMMETRY Symmetry
INVARIANT TypeOK
INVARIANT BooksMatchBroker
INVARIANT WrittenOffIsCancelled
INVARIANT OneOrderAtWork
INVARIANT RecordsBounded
PROPERTY SubmittedFillIsKept
