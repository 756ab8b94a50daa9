SPECIFICATION MCSpec
CONSTANTS
    s1 = s1
    s2 = s2
    k1 = k1
    k2 = k2
    g1 = g1
    n1 = n1
    listen = listen
    record = record
    stress = stress
    poll = poll
    Clients = {c1, c2}
    Cap = 2
    MaxItems = 4
    None = None
    Senders = {s1, s2}
    Conns = {k1, k2}
    FrameLen = 2
    BufLen = 3
    NoConn = NoConn
INVARIANTS QueuesExact OneFeeder
PROPERTIES FeedSpec FeedResumes TornDown
CHECK_DEADLOCK FALSE
