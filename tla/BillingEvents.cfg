SPECIFICATION FairSpec
CONSTANTS
    Interval = {monthly}
    Stranger = {9}
    MaxAttempts = 2
    MaxEvents = 4
    MaxSecond = 2
    MaxWebhooks = 2
    MaxFailures = 0
INVARIANTS
    InSync
    OneLiveSubscription
PROPERTIES
    TerminalIsFinal
    AppliedOnce
    PurchaseActivates
CHECK_DEADLOCK FALSE
