SPECIFICATION Spec
CONSTANTS
    UpdateBuffer = 1
    SnapshotBuffer = 1
    Kinds = {"data", "crash"}
INVARIANTS
    TypeOK
    NoneIsMissed
PROPERTIES
    ImplementsCoordinator
    ImplementsSendLoop
