SPECIFICATION Spec
CONSTANTS
    Plans = {"p"}
    Steps = {1, 2}
    DependsOn <- ChainedDepends
    Txs = {"a", "b"}
    Fits <- ChainedFits
    Slots = {0, 1}
    SlotOf <- ChainedSlotOf
    Earlier <- ChainedEarlier
    Waves = {"R", "U"}
    WavePlan <- ContendedWavePlan
    WaveSteps <- ContendedWaveSteps
    Forwarded = {"R"}
    Outers = {"r", "u"}
    OuterWave <- ContendedOuterWave
    OuterSteps <- ContendedOuterSteps
    Keys = {}
    Requests = {r1}
    Sweeper = sweeper
    Verdicts = {"ok"}
    Results = {TRUE}
    Events = {"expire"}
    None = None
    Retries = 0
    MaxDispatches = 1
    MaxReorgs = 1
    MaxFaults = 1
CHECK_DEADLOCK FALSE
PROPERTIES
    BindsOnce
INVARIANTS
    ConfirmedWasDeep
    DependenciesFirst
    IInv
    SyncNeverConflicts
