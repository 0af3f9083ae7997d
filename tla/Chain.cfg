CONSTANTS
    MaxStarts = 3
    MaxVisits = 1
    ExitCodes = {0}
    Broken = {"ncontext-create", "naddress", "chbind-compat", "vspace-new", "vspace-enter", "vlimit", "vsysctl", "vattribute", "vcontext-self", "vcontext-migrate", "chcontext-compat", "capchroot"}
SPECIFICATION FairSpec
INVARIANTS
    Guarded
PROPERTIES
    StartedOnce
    ChainEnds
CHECK_DEADLOCK FALSE
