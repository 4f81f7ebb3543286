SPECIFICATION FairSpec
CONSTANTS
    Chains <- OneChain
    Others <- EthereumOnly
    Requests = {r1}
    Named <- Unnamed
    Budget = 1
    MaxBundles = 2
    MaxFaults = 2
INVARIANTS
    IInv
    PaidOnce
PROPERTIES
    QueuedSettles
    
