SPECIFICATION FairSpec
CONSTANTS
    Plans = {"p"}
    Steps = {1}
    DependsOn <- SingleDepends
    Txs = {"a"}
    Fits <- SingleFits
    Slots = {0}
    SlotOf <- SingleSlotOf
    Earlier <- SingleEarlier
    Waves = {"R"}
    WavePlan <- RecoveredWavePlan
    WaveSteps <- RecoveredWaveSteps
    Forwarded = {"R"}
    Outers = {"r"}
    OuterWave <- RecoveredOuterWave
    OuterSteps <- RecoveredOuterSteps
    Keys = {}
    Requests = {r1}
    Sweeper = sweeper
    Verdicts = {"ok"}
    Results = {TRUE}
    Events = {"sweep", "wallet"}
    None = None
    Retries = 1
    MaxDispatches = 1
    MaxReorgs = 0
    MaxFaults = 1
PROPERTIES
    EventuallyReconciled
    EventuallyTagged
