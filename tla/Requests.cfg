SPECIFICATION RequestSpec
CONSTANTS
    o1 = o1
    o2 = o2
    Caller = {c1, c2}
    Op = {o1, o2}
    WorkflowOf <- OneWorkflow
    Strategy = {"watchkeeper", "checkpoint_recovery"}
    Canonical <- Spellings
    AuthToken = "public"
    AdminToken = "admin"
    Offers <- SomeRequests
    None = None
INVARIANTS
    RefusalsAreFinal
    PreparesAgree
    ConflictsAreReal
    OneWriterPerVersion
PROPERTIES
    LooksAtomic
    EveryRequestEnds
