SPECIFICATION Spec
CONSTANT MaxMessages = 3
INVARIANTS
    TypeOK
    ConfirmedMeansPaused
    MenuIsNotLive
