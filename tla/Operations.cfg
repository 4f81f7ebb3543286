SPECIFICATION FairSpec
CONSTANTS
    None = None
    Foreign = Foreign
    a = a
    r1 = r1
    Ops = {1, 2}
    PlanOf <- OwnPlans
    Reviewed = {1}
    Sigs = {a}
    Replicas = {r1}
    Sweepers = {r1}
    Callers = {1, 2}
    Lifetime = 1
    Margin = 1
    Confirmations = 2
    MaxDepth = 1
    MaxHeight = 4
    MaxBundles = 1
    MaxDetours = 1
CHECK_DEADLOCK FALSE
INVARIANTS
    
    NonceHeldWhileLive
    FinalIsTrue
    ApprovedAsSent
PROPERTIES
    EventuallyFinal
