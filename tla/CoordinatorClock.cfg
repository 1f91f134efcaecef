SPECIFICATION FairSpec
CONSTANTS
    UpdateBuffer = 1
    SnapshotBuffer = 1
    SnapshotEvery = 2
    Silence = 5
    ResubscribeEvery = 5
INVARIANTS
    CrashBeforeSilence
    LiveIsFresh
PROPERTIES
    PauseEdgesAreFlushed
    ImplementsCoordinator
    CrashIsOffered
    SilenceIsAnswered
