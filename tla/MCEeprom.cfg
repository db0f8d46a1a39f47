SPECIFICATION MCFairSpec
CONSTANTS
    AddrBits = 2
    DataBits = 2
    MaxPolls = 2
    Ops <- MCOps
    NoOp = NoOp
    None = None
INVARIANTS
    TypeOK
    PinsIdle
PROPERTIES
    Implements
    EveryOpReturns
