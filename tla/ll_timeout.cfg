SPECIFICATION Spec
CONSTANTS
    Conns = {c1, c2}
    Captures = {k1, k2}
    Faults = {"timeout"}
    MaxRestarts = 0
    MaxSettings = 0
    None = None
INVARIANT IdleIsReleased
CHECK_DEADLOCK FALSE
