SPECIFICATION MCSpec
CONSTANTS
    listen = listen
    listen2 = listen2
    record = record
    poll = poll
    owner = owner
    None = None
    b1 = b1
    b2 = b2
    p1 = p1
    r1 = r1
    Starters = {"broadcast", "capture"}
    MaxTaps = 2
    MaxAsterisk = 2
    Looks = 2
    Clients = {b1, b2}
    Cap = 2
    MaxFrames = 3
    NoClient = NoClient
    Peers = {p1}
    Requests = {r1}
    Limit = 0
    MaxReq = 2
    MaxRestarts = 1
    Faults = {"command", "database"}
    Required = 4
    Interval = 2
    Delay = 1
    Sound = 2
    Grace = 1
    MaxIdReq = 2
    MaxFaults = 1
    Gens = {g1, g2}
    Nodes = {n1}
    Consumers <- ConsumersSmall
    Recorders <- RecordersOne
    Stressors <- NoConsumers
    Reapers <- ReapersTwo
    Poller = poll
    FirstSeen = 1
    MaxPid = 1
    MonitorMayFail = TRUE
    ReadbackMayFail = TRUE
    StopMayFail = TRUE
    EncoderMayExit = TRUE
    SetupMayRaise = TRUE
    W = 2
    ClusterID <- MCID
    MaxChunk = 3
    Streams <- AllStreams
INVARIANTS
    OneReachablePerNode ListedOrTold LiveHasFifo RegisteredIsCaptured
    NewestInOrder CutsExactly HistoryMatches InUseIdentified
PROPERTIES
    PermanentSurvivesIdle OwnIdIgnored BreakerHolds ClearedOnEvidence
SYMMETRY Symmetry
CHECK_DEADLOCK FALSE
