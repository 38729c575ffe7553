SPECIFICATION Spec
CONSTANTS
    N = 2
    Proposers = {0, 1}
    Cancellers = {0, 1}
    Crashable = {}
    Patient = FALSE
    MaxIoErrors = 0
INVARIANTS
    MasterExclusive
