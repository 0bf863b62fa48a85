SPECIFICATION Spec
CONSTANTS
    Publishers = {p1, p2}
    MaxEvents = 2
    MaxQueueSize = 2
    Handlers = {h1, h2}
    AsyncHandlers = {h1}
    MaxStarts = 2
CHECK_DEADLOCK FALSE
INVARIANTS
    TypeOK
    OneLiveConsumer
    QuietAfterStop
    InOrder
    PublisherOrder
PROPERTIES
    ThroughMeansHandled
    EventuallyHandled
