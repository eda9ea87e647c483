\* Two commands, the second one when no frame of a get is on its way, for two
\* clients that come, go and fail: it meets what the first has left behind.
SPECIFICATION Spec
CONSTANTS
    c1 = c1
    c2 = c2
    Clients = {c1, c2}
    MaxCommands = 2
    MaxBlocks = 2
    Patient = TRUE
CHECK_DEADLOCK FALSE
INVARIANTS
    TypeOK
    
    
    
PROPERTIES
    SendArrives
    FirstSendIsConfirmed
