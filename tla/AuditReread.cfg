SPECIFICATION BoundedRereadingSpec
CONSTANTS
    o1 = o1
    o2 = o2
    NoReceipt = NoReceipt
    Op = {o1}
    Watched = {o1}
    ProfileOf <- OneReplayable
    Receipt = {r1}
    TransientLimit = 2
    BatchLimit = 1
    MaxTtl = 1
    MaxVersion = 8
INVARIANTS
    ResultsTakeLegalTransitions
CHECK_DEADLOCK FALSE
