SPECIFICATION Spec
CONSTANTS
    Plans = {"p", "q"}
    Steps = {1}
    DependsOn <- SingleDepends
    Txs = {"a", "b"}
    Fits <- RivalFits
    Slots = {0}
    SlotOf <- RivalSlotOf
    Earlier <- SingleEarlier
    Waves <- Nothing
    WavePlan <- NoFunction
    WaveSteps <- NoFunction
    Forwarded <- Nothing
    Outers <- Nothing
    OuterWave <- NoFunction
    OuterSteps <- NoFunction
    Keys = {"k"}
    Requests = {r1, r2}
    Sweeper = sweeper
    Verdicts = {"ok"}
    Results = {TRUE}
    Events = {"lease", "drop", "revoke"}
    None = None
    Retries = 0
    MaxDispatches = 2
    MaxReorgs = 0
    MaxFaults = 0
CHECK_DEADLOCK FALSE
SYMMETRY Symmetric
INVARIANTS
    OneStepPerNonce
PROPERTIES
    ReservationsPermanent
    ReconciledStands
