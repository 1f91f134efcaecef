SPECIFICATION FairSpec
CONSTANTS
    MaxSim = 3
    Blind = {3}
INVARIANT NoneIsKept
PROPERTY PreferredGetsItsTurn
