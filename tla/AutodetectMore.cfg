SPECIFICATION Spec
CONSTANTS
    MaxSim = 3
    Blind = {3}
INVARIANTS
    TypeOK
    CurrentAnswered
