SPECIFICATION RequestsSpec
CONSTANTS
    Request = {r1, r2}
    Limit <- OneUnit
    Slots = 1
    Period = 2
    MaxMinute = 2
INVARIANTS
    RequestsTypeOK
    WithinLimits
    AnswersAreTrue
    RefusalsAreDeserved
    BlocksAreBacked
    NoCircle
SYMMETRY Symmetry
CHECK_DEADLOCK FALSE
