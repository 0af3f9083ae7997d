SPECIFICATION FairSpec
CONSTANTS
    s1 = s1
    s2 = s2
    f1 = f1
    f2 = f2
    p1 = p1
    p2 = p2
    Shell = {s1, s2}
    File = {f1, f2}
    Pid = {p1, p2}
    InitProc = InitProc
    None = None
    Nest <- StartupNest
INVARIANTS
    TypeOK
    StackSound
    MutualExclusion
PROPERTIES
    ImplementsMutex
    LockComesBack
    OrphanLetsGo
CHECK_DEADLOCK FALSE
