SPECIFICATION Spec
CONSTANTS
    N = 3
    Starting = {}
    Crashable = {1, 2}
    Restartable = {}
PROPERTIES
    ViewTakenConsistent
