CONSTANTS
    MaxStarts = 1
    MaxVisits = 0
    ExitCodes = {0, 254}
    Broken = {}
SPECIFICATION FairSpec
CHECK_DEADLOCK FALSE
PROPERTIES RunAgainIffExists
