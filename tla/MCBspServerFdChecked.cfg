SPECIFICATION Spec
CONSTANTS
    Clients = {c1}
    NoClient = NoClient
    NumFds = 1
    QueueLen = 1
    MaxEntities = 3
    Installs <- MCInstalls
    Messages <- MCMessages
    HandlerRvals <- MCHandlerRvals
CHECK_DEADLOCK FALSE
INVARIANT
    FdChecked
