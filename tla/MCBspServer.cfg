SPECIFICATION Spec
CONSTANTS
    Clients = {c1, c2}
    NoClient = NoClient
    NumFds = 2
    QueueLen = 1
    MaxEntities = 3
    Installs <- MCInstalls
    Messages <- MCMessages
    HandlerRvals <- MCHandlerRvals
SYMMETRY Symmetry
CHECK_DEADLOCK FALSE
INVARIANTS
    TypeOK
    CallsPermitted
    LookupComplete
    UnknownNameAnswer
    OneReplyPerRequest
    IoctlNeverSucceeds
    SoundRequestsSurvive
    EmptyNameNeverAnswered
PROPERTIES
    DescriptorKept
