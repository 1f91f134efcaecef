SPECIFICATION FairCrossingSpec
CONSTANTS
    MaxLogins = 2
    MaxSignOuts = 1
    MaxSessions = 3
    MaxEvents = 0
    MaxQuits = 0
    MaxSavers = 0
INVARIANTS
    InStep
    NoOrphan
PROPERTY LogInComesBack
CHECK_DEADLOCK FALSE
