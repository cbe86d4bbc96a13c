SPECIFICATION CheckoutSpec
CONSTANTS
    Request = {r1, r2}
    Interval = {monthly, yearly}
    NoInterval = NoInterval
    Change = {"canceling", "canceled"}
    Stranger = {}
    MaxAttempts = 2
    MaxEvents = 4
    MaxSecond = 1
    MaxWebhooks = 1
    MaxFailures = 1
INVARIANTS
    CheckoutTypeOK
    OneOpenUrl
    OneSessionPerAttempt
PROPERTY ImplementsBilling
SYMMETRY Symmetry
CHECK_DEADLOCK FALSE
