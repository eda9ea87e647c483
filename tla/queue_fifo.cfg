\* The array doubles twice; an element may lie at each place of each array.
SPECIFICATION Spec
CONSTANTS
    x = x
    y = y
    z = z
    Elems = {x, y}
    Zeroed = z
    InitSize = 2
    MaxSize = 5
INVARIANT
    InsideArray
PROPERTY
    ImplementsFifo
