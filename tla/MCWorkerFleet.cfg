CONSTANTS
    w1 = w1
    w2 = w2
    i30 = i30
    i60 = i60
    NoWorker = NoWorker
    NoJob = NoJob
    Workers <- MCWorkers
    Intervals <- MCIntervals
    Default = i30
    Period = 1
    TTL = 2
    Timeout = 3
    MaxFaults = 1
    MaxSaves = 1
SPECIFICATION FairSpec
INVARIANTS OneScheduler DeposedStops SettingsApplied OutageIsSeen
PROPERTIES ImplementsLease Converges
