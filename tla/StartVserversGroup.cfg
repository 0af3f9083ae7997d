SPECIFICATION FairSpec
CONSTANTS
    v1 = v1
    v2 = v2
    v3 = v3
    v4 = v4
    Vserver <- Four
    Configured = {v1, v2, v3}
    Disabled = {v3}
    Marked = {v1, v2}
    OfMark = {v1, v2}
    DependsSet <- AcyclicThree
    Requests <- SomeRequests
    Flavors = {"start", "stop"}
    Parallel = 2
INVARIANTS
    TypeOK
    InOrder
    ZeroIsSuccess
PROPERTIES
    
    RunEnds
