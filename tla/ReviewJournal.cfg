SPECIFICATION JournalSpec
CONSTANTS
    Item = {i1, i2}
    MaxJobs = 3
    MaxElsewhere = 1
    MaxDoubt = 1
INVARIANTS
    JournalTypeOK
    OffersAreOpen
    NoSelfConflict
    HiddenForAReason
    OffersArePending
SYMMETRY Symmetry
CHECK_DEADLOCK FALSE
