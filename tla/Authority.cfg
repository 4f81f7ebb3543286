SPECIFICATION FairSpec
CONSTANTS
    None = None
    Signup = Signup
    w1 = w1
    s1 = s1
    g1 = g1
    Workers = {w1}
    Sessions = {s1}
    Grants = {g1}
    MaxKeys = 1
    MaxDevices = 1
    MaxChanges = 1
    MaxHeight = 2
    MaxForks = 1
    MaxFaults = 1
    MaxFailures = 1
INVARIANTS
    TypeOK
    ActiveIsOwner
PROPERTIES
    EndsForGood
    FenceClosesOnSecondLook
    EventuallySettled
CHECK_DEADLOCK FALSE
