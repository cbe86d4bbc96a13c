SPECIFICATION Spec
CONSTANTS
    c1 = c1
    k1 = k1
    Caller = {c1}
    ItemId = {k1, k2}
    Key <- MCKey
    Content = {plain, upload}
    FileContent = {upload}
    ContentBytes <- MCContentBytes
    ResponseBytes = 1
    FreeItemLimit = 2
    FreeByteLimit = 3
    OutputTimeout = 1
    InputRetention = 0
    BillingGrace = 0
    CleanupLag = 0
    MaxInputs = 2
    MaxAnswers = 2
    MaxRevision = 1
    MaxTime = 1
INVARIANTS
    PairedRows
    OutputLedgerBalanced
    InputLedgerBalanced
    FreeStoresNoFiles
CHECK_DEADLOCK FALSE
SYMMETRY Symmetry
