SPECIFICATION MCSpec
CONSTANTS
    k1 = k1
    k2 = k2
    n1 = n1
    n2 = n2
    b1 = b1
    b2 = b2
    Usernames = {n1, n2}
    Browsers = {b1, b2}
    Sections = {n1, n2}
    Nodes = n1
    Keys = {k1, k2}
    MaxLines = 3
    Threshold = 1
    MaxEpoch = 2
    MaxSid = 2
    MaxActs = 4
    Term = 4
    Grace = 1
    Interval = 2
    MaxDefer = 1
    MaxSleep = 2
    MaxReq = 3
    MaxFailures = 1
    Requests = {q1, q2}
    Keep = 1
    Seconds = 2
    MaxWrites = 2
    MaxFaults = 1
    Pollers = {"p1", "p2"}
    StartupCalls = 1
    MaxCuts = 1
INVARIANTS ReadsAreFresh AlertsOnTime SchemaWhole ChoicesKept
PROPERTIES OnlyItChanges RevokedStaysOut
CHECK_DEADLOCK FALSE
