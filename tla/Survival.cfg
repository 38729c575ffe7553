SPECIFICATION Spec
CONSTANTS
    N = 4
    Weights = {1, 2}
    MaxHostNum = 64
ACTION_CONSTRAINT
    LowestFirst
INVARIANTS
    NoSplitBrain
    SurvivorsConnected
    NoLoserKept
    SomeoneSurvives
    LargestPartitionSurvives
