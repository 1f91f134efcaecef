SPECIFICATION FairSpec
CONSTANTS
    Window = 1
    SnapshotBuffer = 1
    MaxCollected = 2
    MaxLate = 0
    MaxPausing = 0
PROPERTIES
    ComesBack
    PressIsTaken
    OverIsNoticed
