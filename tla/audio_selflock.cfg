SPECIFICATION Spec
CONSTANTS
    listen = listen
    listen2 = listen2
    record = record
    poll = poll
    owner = owner
    None = None
    Gens = {g1, g2}
    Nodes = {n1}
    Consumers <- ConsumersListen
    Recorders <- NoConsumers
    Stressors <- NoConsumers
    Reapers <- ReapersOne
    Poller = poll
    FirstSeen = 1
    MaxPid = 1
    MonitorMayFail = TRUE
    ReadbackMayFail = FALSE
    StopMayFail = FALSE
    EncoderMayExit = FALSE
    SetupMayRaise = FALSE
INVARIANT ShutdownWithoutLock
