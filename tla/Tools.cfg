CONSTANTS
    Kernels <- MCKernels
    MaxCalls = 2
    Kinds = {"cflag", "bcap", "ccap", "nflag", "ncap", "umask", "personality", "compat"}
    Lists <- MCLists
    Guest = {"a", "b"}
    GuestXid = {2, 3}
    Cases <- MCCases
    MaxGuestSteps = 2
    Value = {1, 2, 3}
    MaxCount = 4
    MaxOps = 5
    Reporting = {"proc", "cgroups", "virtual", "vps", "format"}
    ReportPid = {1, 2, 3}
    ReportXid = {0, 1, 2, 3}
    Worlds <- MCWorlds
    Amounts <- MCAmounts
    MaxEvents = 2
    MaxFds = 3
    Trees <- MCTrees
    Calls <- MCCalls
    Tag = 5
    HASH_SIZE = 2
    MaxMoves = 1
    Jobs <- MCJobs
    Fs = {"f", "g"}
    Modulus = 16
    KillPid = {1, 2}
    KillXid = {5, 6}
    MaxFailures = 2
    Configs <- MCConfigs
    MaxFailing = 1
SPECIFICATION Spec
INVARIANTS
    
    ReportsAreTrue
    
    UnitsAreComplete
PROPERTIES
    GuestsAreFound
    ContainersHold
    LimitsAreKept
CHECK_DEADLOCK FALSE
