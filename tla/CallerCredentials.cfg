SPECIFICATION CredentialsSpec
CONSTANTS
    Setup = {s1, s2, s3}
    Caller = {a}
    Key = {k1, k2, k3}
    NoSetup = NoSetup
    NoCaller = NoCaller
    NoKey = NoKey
INVARIANTS
    CredentialsTypeOK
    OneKeyPerApproval
    ActivationFits
    AuditTellsKeys
PROPERTY ImplementsLifecycle
SYMMETRY Symmetry
CHECK_DEADLOCK FALSE
