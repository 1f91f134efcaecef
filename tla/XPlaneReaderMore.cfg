SPECIFICATION ReaderSpec
CONSTANTS
    Datarefs = {crash, e1, e2}
    Crash = crash
    MaxInbox = 1
INVARIANTS
    TypeOK
    ReaderTypeOK
    LeavesNothing
    EnginesAreCounted
CHECK_DEADLOCK FALSE
