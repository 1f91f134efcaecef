SPECIFICATION SessionSpec
CONSTANTS
    Window = 2
    SnapshotBuffer = 1
    MaxCollected = 2
    MaxLate = 1
    MaxPausing = 1
    MaxFlights = 2
INVARIANTS
    SessionTypeOK
    PaneIsOfTheFlight
PROPERTIES
    WarningOutlivesFlight
