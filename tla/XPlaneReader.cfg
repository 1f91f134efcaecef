SPECIFICATION FairReader
CONSTANTS
    Datarefs = {crash, engine}
    Crash = crash
    MaxInbox = 5
INVARIANTS
    LeavesNothing
    CrashIsKept
PROPERTY IsHeardAgain
CHECK_DEADLOCK FALSE
