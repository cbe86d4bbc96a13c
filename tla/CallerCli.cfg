SPECIFICATION CliSpec
CONSTANTS
    Setup = {s1, s2}
    Caller = {a}
    Key = {k1, k2, k3}
    NoSetup = NoSetup
    NoCaller = NoCaller
    NoKey = NoKey
INVARIANTS
    LocalKeyWorks
    RollbackIsFinal
CHECK_DEADLOCK FALSE
SYMMETRY Symmetry
