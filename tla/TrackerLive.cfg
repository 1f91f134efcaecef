SPECIFICATION FairSpec
CONSTANTS
    MaxLogins = 1
    MaxSignOuts = 0
    MaxSessions = 2
    MaxEvents = 1
    MaxQuits = 1
    MaxSavers = 2
PROPERTY OwnTokenSettles
