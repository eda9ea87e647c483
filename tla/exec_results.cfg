SPECIFICATION Spec
CONSTANTS
    NumClients = 2
    Lines = 2
    MaxCmds = 2
CHECK_DEADLOCK FALSE
INVARIANTS
    TypeOK
    PromptResultsPrinted
    NoLineTwice
    OnlyLateResultsCrash
