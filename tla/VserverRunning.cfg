SPECIFICATION Spec
CONSTANTS
    c1 = c1
    c2 = c2
    Cmd = {c1, c2}
    Setups <- RunningSetups
SYMMETRY Symmetry
INVARIANT RunningIffUp
