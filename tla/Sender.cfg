SPECIFICATION Spec
CONSTANTS
    Window = 2
    SnapshotBuffer = 1
    MaxCollected = 3
    MaxLate = 1
    MaxPausing = 1
INVARIANTS
    NothingLost
    VerdictIsFinal
    NoteIsHonest
PROPERTIES
    PausesARunningSim
    DeliversPositions
    ImplementsSendLoop
