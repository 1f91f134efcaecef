SPECIFICATION FairReader
CONSTANTS
    Datarefs = {crash, engine}
    Crash = crash
    MaxInbox = 4
INVARIANT NeverLeft
PROPERTY EnginesAreHeard
CHECK_DEADLOCK FALSE
