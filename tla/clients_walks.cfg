\* 3 clients at a time.  A server that has used freed memory stops.
SPECIFICATION Spec
CONSTANTS
    a = a
    b = b
    c = c
    Nodes = {a, b, c}
CHECK_DEADLOCK FALSE
INVARIANTS
    TypeOK
    ForwardChainSound
    ListIsOpenConnections
    BroadcastOnce
    OnlyClosesEndangerWalks
PROPERTY
    AcceptedIsListedUnlessLeaked
