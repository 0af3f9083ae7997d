CONSTANTS
    Faults = {"jail", "fail", "kill"}
    Vserver <- MCVserver
    Client = {"c1", "c2", "c3"}
    Requests <- MCRequests
    MaxHandles = 2
    Timeout = 2
    MaxTime = 6
    MaxOutput = 2
    MaxSignals = 2
    Fstabs <- MCFstabs
    Opts <- MCOpts
    FsOpts = {"size=1"}
    MaxGuest = 2
    Configs <- MCConfigs
    MaxCopies = 2
    KnownNames = {"root"}
    Long = {"long"}
    MaxCalls = 3
    PageSize = 2
    Pages = 1
SPECIFICATION Spec
INVARIANTS
    WaitingIsExact
    MountsAreSafe
    
PROPERTIES
    HandshakeHolds
    RebootsAreServed
    
    StartIsUndone
    RpmIsAnswered
CHECK_DEADLOCK FALSE
