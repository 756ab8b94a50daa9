SPECIFICATION MCSpec
CONSTANTS
    p1 = p1
    r1 = r1
    Conns = {c1, c2}
    Captures = {k1, k2}
    Faults = {"timeout", "encoder", "crash"}
    MaxRestarts = 1
    MaxSettings = 1
    None = None
INVARIANTS CapturesAccounted EncoderMatchesClients
PROPERTIES NobodyLeftHanging TimedEntryEnds
CHECK_DEADLOCK FALSE
