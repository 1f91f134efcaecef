SPECIFICATION Spec
CONSTANTS
    Pausers = {website}
    Zeros = 3
    MaxStale = 3
    MaxSamples = 4
INVARIANT TogglesNoXPlane12
