SPECIFICATION FairSpec
CONSTANTS
    Interval = {monthly}
    Stranger = {}
    MaxAttempts = 1
    MaxEvents = 3
    MaxSecond = 2
    MaxWebhooks = 2
    MaxFailures = 0
PROPERTY OlderEventsNeverOverwrite
CHECK_DEADLOCK FALSE
