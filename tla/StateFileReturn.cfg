SPECIFICATION Spec
CONSTANTS
    N = 1
    PoolSetters = {}
    MasterSetters = {}
    Excluders = {0}
    MaxIoErrors = 0
PROPERTIES
    WrittenOnReturn
