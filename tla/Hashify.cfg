SPECIFICATION Spec
CONSTANTS
    g1 = g1
    g2 = g2
    p1 = p1
    ca = ca
    cb = cb
    Guest = {g1, g2}
    Proc = {p1}
    Contents = {ca, cb}
    Inode = {1, 2, 3, 4, 5, 6, 7}
    Options <- SomeOptions
    Faults = {"copy", "link", "crash"}
    MaxCrash = 1
    MaxIdx = 1
    MaxEvents = 2
SYMMETRY Symmetry
INVARIANTS
    TypeOK
    
    
    
