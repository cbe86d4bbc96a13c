SPECIFICATION Spec
CONSTANTS
    c1 = c1
    k1 = k1
    Caller = {c1, c2}
    ItemId = {k1}
    Key <- MCOneKey
    Content = {plain, upload}
    FileContent = {upload}
    ContentBytes <- MCContentBytes
    ResponseBytes = 1
    FreeItemLimit = 2
    FreeByteLimit = 3
    OutputTimeout = 1
    InputRetention = 0
    BillingGrace = 1
    CleanupLag = 1
    MaxInputs = 2
    MaxAnswers = 2
    MaxRevision = 2
    MaxTime = 1
INVARIANTS
    TypeOK
    DecisionFidelity
    RevisionDecidedOnce
    AckIsIdempotent
PROPERTIES
    ImplementsDelivery
CHECK_DEADLOCK FALSE
