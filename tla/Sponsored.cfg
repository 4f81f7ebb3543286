SPECIFICATION Spec
CONSTANTS
    Plans = {"p"}
    Steps = {1, 2}
    DependsOn <- ChainedDepends
    Txs = {}
    Fits <- Nothing
    Slots = {0}
    SlotOf <- NoFunction
    Earlier <- SingleEarlier
    Waves = {"R", "U"}
    WavePlan <- ContendedWavePlan
    WaveSteps <- SponsoredWaveSteps
    Forwarded = {"R"}
    Outers = {"r", "rr", "u"}
    OuterWave <- SponsoredOuterWave
    OuterSteps <- SponsoredOuterSteps
    Keys = {}
    Requests = {r1}
    Sweeper = sweeper
    Verdicts = {"ok", "unknown", "failed"}
    Results = {TRUE, FALSE}
    Events = {}
    None = None
    Retries = 0
    MaxDispatches = 1
    MaxReorgs = 0
    MaxFaults = 1
INVARIANTS
    DependenciesFirst
    SavesAccepted
PROPERTIES
    ConfirmedExecutionKept
