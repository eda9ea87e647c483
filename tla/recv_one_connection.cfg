\* Frames of 5 bytes, reads of up to 7, a buffer of 16: as in the program a
\* read may complete two frames and the buffer holds three of them.
SPECIFICATION Spec
CONSTANTS
    c1 = c1
    Conns = {c1}
    Base = 3
    LenLo = 2
    LenHi = 1
    ReadSize = 7
    DataBuf = 16
    MaxFrames = 6
    FailFrames = {}
CHECK_DEADLOCK FALSE
INVARIANTS
    TypeOK
    BufferFits
    NoFrameLeftBehind
    FramesIntact
PROPERTY
    ImplementsStream
