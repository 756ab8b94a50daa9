SPECIFICATION RecorderFairSpec
CONSTANTS
    PipeCap = 1
    Faults = {"encode", "timeout"}
PROPERTY AlwaysFinalizes
CHECK_DEADLOCK FALSE
