\* 2 clients at a time.  A server that has used freed memory stops.
SPECIFICATION Spec
CONSTANTS
    a = a
    b = b
    Nodes = {a, b}
CHECK_DEADLOCK FALSE
INVARIANT
    NoUseAfterFree
