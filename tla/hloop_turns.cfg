SPECIFICATION Spec
CONSTANTS
    Kinds <- HioTimers
    NumTimers = 3
    MaxTime = 2
    MaxPosts = 1
    MaxResets = 1
CHECK_DEADLOCK FALSE
INVARIANTS
    TypeOK
    HeapHoldsTheTimers
    OnlyResetTimersCrash
    
PROPERTIES
    DeletedNeverFires
    AllDueTaken
    NothingWaitsForEver
