SPECIFICATION FairSpec
CONSTANTS
    c1 = c1
    c2 = c2
    Cmd = {c1, c2}
    Setups <- LivenessSetups
PROPERTIES
    CommandEnds
    HelperReleased
