SPECIFICATION FairSpec
CONSTANTS
    N = 3
    Starting = {2}
    Crashable = {1}
    Restartable = {1}
PROPERTIES
    DeadRemoved
