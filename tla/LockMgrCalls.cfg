SPECIFICATION FairSpec
CONSTANTS
    N = 2
    Proposers = {1}
    Cancellers = {0, 1}
    Crashable = {}
    Patient = TRUE
    MaxIoErrors = 1
PROPERTIES
    CallsReturn
    LockStable
