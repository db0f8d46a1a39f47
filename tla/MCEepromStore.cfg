SPECIFICATION Spec
CONSTANTS
    Addrs = {a1, a2}
    Words = {w0, w1}
    ErasedWord = w1
    Ops <- MCOps
    NoOp = NoOp
    None = None
INVARIANTS
    TypeOK
    ReadReturnsStored
    AckedWriteStored
    AckedControlSet
