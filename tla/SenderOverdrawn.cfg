SPECIFICATION Spec
CONSTANTS
    Window = 2
    SnapshotBuffer = 1
    MaxCollected = 2
    MaxLate = 0
    MaxPausing = 0
INVARIANT NoteIsHonestToTheEnd
PROPERTY ButtonWaitsForTheAnswer
