SPECIFICATION Spec
CONSTANTS
    Clients <- TwoClients
    ClientFd <- SameNumbers
    FirstFd = 5
    Skew <- OneAhead
    TimeBits = 6
    AgeBits = 4
    Unit = 2
    Patience = 3
    StartTime = 1
    MaxTime = 3
    MaxConns = 2
    MaxBeats = 1
    MaxEnds = 1
    MaxRegisters = 1
    MaxPings = 2
CHECK_DEADLOCK FALSE
INVARIANTS
    TypeOK
    OwnRegistration
    OnlyAheadClocksHangUp
