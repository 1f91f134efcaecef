SPECIFICATION FairSpec
CONSTANTS
    MaxLogins = 1
    MaxSignOuts = 0
    MaxSessions = 2
    MaxEvents = 0
    MaxQuits = 0
    MaxSavers = 2
PROPERTY StoredSettles
CHECK_DEADLOCK FALSE
