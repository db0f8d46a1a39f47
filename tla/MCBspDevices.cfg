SPECIFICATION Spec
CONSTANTS
    Boards <- MCBoards
    ResetValues <- MCResetValues
    Mixes <- MCMixes
    None = None
    MaxPolls = 4
INVARIANTS
    TypeOK
    ReadBack
    HoldReported
    StopGenuine
    Settled
