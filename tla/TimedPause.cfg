SPECIFICATION FairTimed
CONSTANTS
    PerSecond = 2
    MaxSeconds = 2
    MaxLoops = 2
    MaxLag = 2
    Zeros = 2
    MaxStale = 1
    MaxSamples = 3
INVARIANT PauseWorks
PROPERTIES
    PausesOnTime
    RunsOut
    TimeUpIsActedOn
