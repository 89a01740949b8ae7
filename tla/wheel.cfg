CONSTANTS
    put1 = put1
    put2 = put2
    call1 = call1
    call2 = call2
    Puts = {put1, put2}
    Calls = {call1, call2}
    NoTrade = NoTrade
    Leg <- SameLegs
    Checks = {1, 2}
    Careful = TRUE
    MaxFaults = 1
    MaxRepeats = 1
    MaxProposals = 2
\* Every trade of the instance is over and the faults are spent.
CHECK_DEADLOCK FALSE
SYMMETRY Twins
SPECIFICATION Spec
INVARIANTS
    TypeOK
    AssignedIsReal
    CallsAreCovered
    AssignmentReachesCycle
    AssignmentNotLost
PROPERTY OutcomeIsFinal
