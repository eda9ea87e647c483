SPECIFICATION Spec
CONSTANTS
    MaxConns = 2
    MaxWrites = 3
CHECK_DEADLOCK FALSE
INVARIANTS
    TypeOK
    FramesInOrder
    QueueIsWatched
    ClosedIsForgotten
PROPERTIES
    
    QueuedIsSent
    DelayedCloseEnds
