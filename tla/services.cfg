SPECIFICATION MCSpec
CONSTANTS
    FrameBytes = 4
    MaxBufBytes = 12
    Reads = {0, 2, 4, 10, 18}
    MaxBytes = 80
    PipeCap = 2
    Faults = {"decode", "encode", "timeout", "firstline"}
    Users = {"u", "v"}
    Cap = 3
    UserCap = 2
    Sizes = {2}
    MaxRows = 3
    MaxRestarts = 1
    MaxStuck = 1
    Targets = {"bc", "yt"}
    MaxSaves = 1
    MaxFaults = 1
    MaxQueue = 1
    MaxClients = 2
    MaxPosts = 2
INVARIANTS StopIsClean NoOrphanFile OneClient NothingLeftOpen
PROPERTIES Playout RecordingEnds CapIsRestored NeverDark SendersEnd
CHECK_DEADLOCK FALSE
