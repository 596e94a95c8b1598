SPECIFICATION DemoSpec
CONSTANTS
    a = a
    b = b
    s1 = s1
    s2 = s2
    Op = {a, b, s1, s2}
    Protected = {a, b}
    Watched = {a, b}
    BlindSend <- Ids
    Coordinator = {c1}
    ProfileOf <- Profiles
    ServiceProfile = "receipt_status"
    ContentOf <- OneMessage
    BatchLimit = 1
    TransientLimit = 2
    MaxTtl = 1
    MaxEffects = 2
    Receipt <- ReceiptNumbers
    NoReceipt = 0
    Grants <- GrantVersions
INVARIANTS
    TrialCounts
    ShownIsSo
PROPERTIES
    TrialEnds
CHECK_DEADLOCK FALSE
