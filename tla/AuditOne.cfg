SPECIFICATION BoundedSpec
CONSTANTS
    o1 = o1
    o2 = o2
    NoReceipt = NoReceipt
    Op = {o1}
    Watched = {o1}
    ProfileOf <- OneReplayable
    Receipt = {r1, r2}
    TransientLimit = 2
    BatchLimit = 1
    MaxTtl = 2
    MaxVersion = 11
INVARIANTS
    AuditTypeOK
    ClaimsAreSnapshots
    OnlyNewestClaimHolds
    ReceiptIffConfirmed
    AuditTrailComplete
    DecisionsExplainEvents
    OneGrantPerAttempt
    ResultsTakeLegalTransitions
PROPERTIES
    TerminalIsFinal
    LifecycleSpec
CHECK_DEADLOCK FALSE
