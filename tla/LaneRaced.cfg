SPECIFICATION Spec
CONSTANTS
    None = None
    Ops = {o1, o2}
    Workers = {w1, w2}
    Allocation = 4
    Funds = 5
    MaxCost = 1
    Reservation = 2
    Costs = {2}
    MaxUnsettled = 2
    MaxAttempts = 2
    Lag = 0
    MaxReorgs = 0
    MaxForeign = 1
    MaxFaults = 0
INVARIANTS
    LaneConsistent
    OneTransactionPerNonce
    
PROPERTIES
    SentWhileActive
SYMMETRY Symmetry
CHECK_DEADLOCK FALSE
