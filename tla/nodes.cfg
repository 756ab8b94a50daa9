SPECIFICATION MCSpec
CONSTANTS
    Callers = {a, b}
    Poller = poller
    Free = free
    Calls = 3
    PerCall = 2
INVARIANT AnswersMatch
PROPERTIES CallsComeBack ConnectorMoves Served
CHECK_DEADLOCK FALSE
