SPECIFICATION Spec
CONSTANTS
    Pausers = {website}
    Zeros = 3
    MaxStale = 2
    MaxSamples = 4
INVARIANTS
    TypeOK
    TogglesOnlyToPause
