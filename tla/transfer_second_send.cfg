\* Two commands, as in transfer_one_at_a_time.
SPECIFICATION Spec
CONSTANTS
    c1 = c1
    c2 = c2
    Clients = {c1, c2}
    MaxCommands = 2
    MaxBlocks = 2
    Patient = TRUE
CHECK_DEADLOCK FALSE
INVARIANT
    ByteSizeIsFileSize
