SPECIFICATION CrossingSpec
CONSTANTS
    MaxLogins = 1
    MaxSignOuts = 1
    MaxSessions = 2
    MaxEvents = 1
    MaxQuits = 1
    MaxSavers = 2
INVARIANTS
    TypeOK
    InStep
    NoOrphan
    UpgradeForGood
