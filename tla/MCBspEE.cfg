SPECIFICATION Spec
CONSTANTS
    Words <- MCWords
    Addrs <- MCAddrs
    ErasedWord = 12
    NoOp = NoOp
    None = None
    Images <- MCImages
    Requests <- MCRequests
    BcBase = 0
    BcMax = 5
    BcConfig = 5
    Unnamed = 2
    Crc <- MCCrc
INVARIANTS
    TypeOK
    BcReadGenuine
    ControlIoctlEndsService
PROPERTIES
    IoctlNeverProgramsUnaided
CHECK_DEADLOCK FALSE
