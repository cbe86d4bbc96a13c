SPECIFICATION ReleaseSpec
CONSTANTS
    r1 = r1
    r2 = r2
    r3 = r3
    t0 = t0
    t1 = t1
    t2 = t2
    s0 = s0
    s1 = s1
    s2 = s2
    Run = {r1, r2, r3}
    Tag = {t0, t1, t2}
    Sha = {s0, s1, s2}
    TagOf <- MCTagOf
    ShaOf <- MCShaOf
    FirstTag = t0
    FirstSha = s0
    NoRun = NoRun
    NoSha = NoSha
    Named = {TRUE, FALSE}
    Window = 10
    MaxJobs = 3
    MaxDoubt = 1
    MaxRollbacks = 1
INVARIANTS
    TrafficIsAccounted
    Recoverable
PROPERTIES
    CleanupRestores
    PointOfNoReturn
SYMMETRY Symmetry
CHECK_DEADLOCK FALSE
