CONSTANTS
    o1 = o1
    o2 = o2
    w1 = w1
    w2 = w2
    c1 = c1
    c2 = c2
    mail = mail
    note = note
    Op = {o1}
    Watched = {o1}
    Worker = {w1, w2}
    Coordinator = {c1}
    ProfileOf <- AllStatus
    ServiceProfile = "receipt_status"
    ContentOf <- OneContent
    JobOf <- EveryWorkerRunsO1
    BatchLimit = 1
    MaxFaults = 2
    MaxInterventions = 1
    ConfirmTries = 2
    TransientLimit = 2
    MaxTtl = 1
    MaxEffects = 2
    Receipt <- ReceiptNumbers
    NoReceipt = 0
    Grants <- GrantVersions
SPECIFICATION FairSpec
PROPERTIES
    EveryIntentSettles
    EveryRunEnds
CHECK_DEADLOCK FALSE
