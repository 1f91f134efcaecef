SPECIFICATION FairSpec
CONSTANTS
    MaxLogins = 2
    MaxSignOuts = 1
    MaxSessions = 3
    MaxEvents = 0
    MaxQuits = 0
    MaxSavers = 0
INVARIANT OneBrowserTab
PROPERTY LogInNeverStuck
CHECK_DEADLOCK FALSE
