SPECIFICATION Spec
CONSTANTS
    v1 = v1
    v2 = v2
    v3 = v3
    v4 = v4
    Vserver = {v1, v2, v3, v4}
    Configured = {v1, v2, v3, v4}
    Disabled = {}
    Marked = {v1}
    OfMark = {v1}
    DependsSet <- Chain
    Requests <- OneName
    Flavors = {"start"}
    Parallel = 1
INVARIANT DependsFirstAlways
