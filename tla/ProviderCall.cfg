SPECIFICATION Spec
CONSTANTS
    RetryBudget = 2
    RateThreshold = 3
    Waits <- MCWaits
    Baseline = 1
    Milli = 2
    MaxText = 2
    Bounds <- MCBounds
INVARIANTS
    NotSentIsTrue
    
    SuccessIsWhole
    RetryWaitsLongest
PROPERTIES
    LearnedStaysLearned
