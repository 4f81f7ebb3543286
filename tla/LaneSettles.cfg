SPECIFICATION FairSpec
CONSTANTS
    None = None
    Ops = {o1, o2}
    Workers = {w1}
    Allocation = 3
    Funds = 8
    MaxCost = 1
    Reservation = 2
    Costs = {1, 4}
    MaxUnsettled = 2
    MaxAttempts = 3
    Lag = 0
    MaxReorgs = 1
    MaxForeign = 0
    MaxFaults = 1
INVARIANTS
    SpentIsFinal
    OutlayWithinAllocation

    
CHECK_DEADLOCK FALSE
