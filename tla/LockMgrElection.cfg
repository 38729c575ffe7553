SPECIFICATION FairSpec
CONSTANTS
    N = 2
    Proposers = {0, 1}
    Cancellers = {}
    Crashable = {0}
    Patient = TRUE
    MaxIoErrors = 0
INVARIANTS
    LockInv
    LockExclusive
PROPERTIES
    Elected
    ImplementsService
