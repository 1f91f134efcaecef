SPECIFICATION Spec
CONSTANTS
    Pausers = {website, timer}
    Zeros = 3
    MaxStale = 1
    MaxSamples = 4
INVARIANT TogglesOnlyToPause
