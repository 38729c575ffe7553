SPECIFICATION MediaSpec
CONSTANTS
    N = 2
    PoolSetters = {0}
    MasterSetters = {1}
    Excluders = {0}
    MaxIoErrors = 2
    Width = 3
    T1 = 2
    MaxReboots = 1
    MaxLost = 1
INVARIANTS
    ExcludedKept
    StartedNotInit
    SfInv
    NeverDeaf
    HeardSoon
    NoEarlyReturn
