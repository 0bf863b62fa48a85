SPECIFICATION NeverStarted
CONSTANTS
    Publishers = {p1, p2}
    MaxEvents = 2
    MaxQueueSize = 1
    Handlers = {h1, h2}
    AsyncHandlers = {h1}
    MaxStarts = 1
CHECK_DEADLOCK FALSE
PROPERTIES
    PublishReturns
