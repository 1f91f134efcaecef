SPECIFICATION FairSpec
CONSTANTS
    UpdateBuffer = 1
    SnapshotBuffer = 1
    Kinds = {"crash"}
INVARIANT NoneIsMissed
PROPERTIES
    ImplementsCoordinator
    ImplementsSendLoop
    FlightReturns
    ReaderLeaves
