SPECIFICATION Spec
CONSTANTS
    MaxConns = 2
    MaxWrites = 2
CHECK_DEADLOCK FALSE
INVARIANT FramesReachTheirPeer
