SPECIFICATION JournalSpec
CONSTANTS
    Item = {i1, i2}
    MaxJobs = 3
    MaxElsewhere = 0
    MaxDoubt = 1
INVARIANT NoResurrection
SYMMETRY Symmetry
CHECK_DEADLOCK FALSE
