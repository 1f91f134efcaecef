SPECIFICATION TimerSpec
CONSTANTS
    PerSecond = 2
    MaxSeconds = 2
    MaxLoops = 2
    MaxLag = 3
INVARIANTS
    TimerTypeOK
    OneTicker
    ButtonTells
    ShowsEnough
