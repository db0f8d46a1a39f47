SPECIFICATION Spec
CONSTANTS
    Threads = {t1, t2}
    Slots <- MCSlots
    Names <- MCNames
    MaxSems = 2
    HeapBlocks = 2
    Lengths <- MCLengths
INVARIANTS SlotsDistinct BlocksAccounted
PROPERTY OpenReturns
CHECK_DEADLOCK FALSE
