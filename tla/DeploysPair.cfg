SPECIFICATION Spec
CONSTANTS
    Chains <- TwoChains
    Others <- NoOthers
    Requests = {r1}
    Named <- Either
    Budget = 1
    MaxBundles = 1
    MaxFaults = 0
INVARIANTS
    UnsettledIsCounted
    ConfirmedIsRecorded
    
