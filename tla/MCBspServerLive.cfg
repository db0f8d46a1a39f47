SPECIFICATION FairSpec
CONSTANTS
    Clients = {c1, c2}
    NoClient = NoClient
    NumFds = 1
    QueueLen = 1
    MaxEntities = 3
    Installs <- MCInstalls
    Messages <- LiveMessages
    HandlerRvals <- MCHandlerRvals
CHECK_DEADLOCK FALSE
PROPERTIES
    EventuallyAnswered
