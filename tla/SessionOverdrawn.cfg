SPECIFICATION FairSession
CONSTANTS
    Window = 1
    SnapshotBuffer = 1
    MaxCollected = 1
    MaxLate = 0
    MaxPausing = 0
    MaxFlights = 1
INVARIANTS
    SignedOutSaysSo
    StartsUnpressed
PROPERTY ButtonAlwaysComesBack
