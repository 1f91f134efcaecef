SPECIFICATION Spec
CONSTANTS
    MaxSim = 2
    Blind = {2}
PROPERTIES
    FromNowOn
    OnlyUnheardMakesWay
